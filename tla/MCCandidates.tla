---------------------------- MODULE MCCandidates ----------------------------
(* Instances for TLC of what happens to one candidate: match runs, profile, edits, *)
(* imports, the talent at 8vance and what is read from a CV.  The components share *)
(* no state, so a behaviour of this bench is one of a single part: an instance of  *)
(* a component with the constants given here.                                      *)
EXTENDS Naturals, FiniteSets, Sequences, TLC

CONSTANT Parts          \* the parts that a run checks

VARIABLES part,         \* the part a behaviour is about, and its variables
          c1, c2, c3, c4, c5, c6, c7, c8, c9, c10

\* "js" and "javascript" are one skill, nothing is known of "chatting".
Meanings == ("js" :> 1) @@ ("javascript" :> 1) @@ ("chatting" :> 0) @@ ("sql" :> 2) @@ ("css" :> 3)

\* "one" and "two" begin with the same pages; one speaks for a level, the other for
\* another one and mentions more.
CvTexts == {"one", "two", "other", "note"}
FirstPages == ("one" :> "a") @@ ("two" :> "a") @@ ("other" :> "b") @@ ("note" :> "c")
NamedSkills == ("a" :> {"steel", "lead"}) @@ ("b" :> {"code"}) @@ ("c" :> {})
PlainSkills == ("one" :> {"steel"}) @@ ("two" :> {"steel", "weld"}) @@ ("other" :> {"code"}) @@ ("note" :> {"code"})
MentionedSkills == [PlainSkills EXCEPT !["two"] = @ \union {"lead"}]
BaseLevels == ("one" :> 2) @@ ("two" :> 4) @@ ("other" :> 0) @@ ("note" :> 0)

\* "weld" and "welding" are one skill; "install" has a general form only; "code" finds
\* two skills and "chat" none.
CvTerm(t, b) == [term |-> t, bucket |-> b]
TermForms == ("weld" :> <<"weld">>) @@ ("welding" :> <<"welding">>)
             @@ ("install" :> <<"install panels", "panels">>) @@ ("panel" :> <<"panels">>)
             @@ ("code" :> <<"code">>) @@ ("chat" :> <<"chat", "ch">>) @@ ("lead" :> <<"lead a team", "lead">>)
FormFinds == ("weld" :> {1}) @@ ("welding" :> {1}) @@ ("install panels" :> {}) @@ ("panels" :> {2})
             @@ ("code" :> {3, 4}) @@ ("chat" :> {}) @@ ("ch" :> {}) @@ ("lead a team" :> {5}) @@ ("lead" :> {6})
CvLists == {<<CvTerm("weld", "hard"), CvTerm("code", "hard"), CvTerm("lead", "soft"), CvTerm("chat", "soft"),
              CvTerm("weld", "knowledge"), CvTerm("welding", "knowledge")>>,
            <<CvTerm("install", "hard"), CvTerm("panel", "soft"), CvTerm("code", "soft"), CvTerm("lead", "soft"),
              CvTerm("chat", "knowledge")>>,
            <<CvTerm("chat", "hard")>>, <<>>}

-----------------------------------------------------------------------------
(* The parts.                                                                *)

Runs == INSTANCE CandidateMatch WITH
    runs <- c1, linked <- c2, injected <- c3, exec <- c4, tab <- c5,
    faults <- c6,
    Execs <- {1, 2}, Tabs <- {"t"}, MaxRuns <- 1, Feeds <- {"jobdigger"},
    OwnSources <- {"own"}, MaxSources <- 2, Requests <- {{}}, MaxPolls <- 3,
    MaxFaults <- 1

Warned == INSTANCE CandidateMatch WITH
    runs <- c1, linked <- c2, injected <- c3, exec <- c4, tab <- c5,
    faults <- c6,
    Execs <- {1}, Tabs <- {}, MaxRuns <- 2, Feeds <- {"jobdigger"},
    OwnSources <- {"own"}, MaxSources <- 2, Requests <- {{}, {"own"}},
    MaxPolls <- 3, MaxFaults <- 1

Injected == INSTANCE CandidateMatch WITH
    runs <- c1, linked <- c2, injected <- c3, exec <- c4, tab <- c5,
    faults <- c6,
    Execs <- {1, 2}, Tabs <- {}, MaxRuns <- 2, Feeds <- {"jobdigger"},
    OwnSources <- {"own"}, MaxSources <- 2, Requests <- {{}}, MaxPolls <- 3,
    MaxFaults <- 0

Profile == INSTANCE CandidateProfile WITH
    candidate <- c1, talent <- c2, parsed <- c3, pushes <- c4, work <- c5,
    scan <- c6, panel <- c7, latest <- c8, ops <- c9, faults <- c10,
    Recruiters <- {1}, Scans <- {}, PanelScan <- "panel",
    Suggested <- {"s1", "s2"}, Synced <- {"k"}, Notes <- {"n1", "n2"},
    Ops <- {"note", "edit", "level", "dismiss", "approve", "approve all"},
    MaxTries <- 3, MaxOps <- 2, MaxFaults <- 1

Pushed == INSTANCE CandidateProfile WITH
    candidate <- c1, talent <- c2, parsed <- c3, pushes <- c4, work <- c5,
    scan <- c6, panel <- c7, latest <- c8, ops <- c9, faults <- c10,
    Recruiters <- {1}, Scans <- {}, PanelScan <- "panel",
    Suggested <- {"s1", "s2"}, Synced <- {"k"}, Notes <- {"n1", "n2"},
    Ops <- {"level", "dismiss", "approve", "approve all"}, MaxTries <- 3,
    MaxOps <- 3, MaxFaults <- 0

Reviews == INSTANCE CandidateProfile WITH
    candidate <- c1, talent <- c2, parsed <- c3, pushes <- c4, work <- c5,
    scan <- c6, panel <- c7, latest <- c8, ops <- c9, faults <- c10,
    Recruiters <- {1, 2}, Scans <- {"v"}, PanelScan <- "panel",
    Suggested <- {"s1", "s2"}, Synced <- {"k"}, Notes <- {"n1", "n2"},
    Ops <- {"dismiss", "approve all"}, MaxTries <- 2, MaxOps <- 2, MaxFaults <- 0

Panel == INSTANCE CandidateProfile WITH
    candidate <- c1, talent <- c2, parsed <- c3, pushes <- c4, work <- c5,
    scan <- c6, panel <- c7, latest <- c8, ops <- c9, faults <- c10,
    Recruiters <- {1}, Scans <- {"v"}, PanelScan <- "panel",
    Suggested <- {"s1", "s2"}, Synced <- {"k"}, Notes <- {"n1", "n2"},
    Ops <- {"note", "approve all"}, MaxTries <- 3, MaxOps <- 1, MaxFaults <- 1

Edit == INSTANCE TalentEdit WITH
    talent <- c1, cv <- c2, page <- c3, form <- c4, save <- c5,
    entered <- c6, edits <- c7, saves <- c8, faults <- c9,
    Names <- {"js", "javascript", "chatting"}, Means <- Meanings, NoSkill <- 0,
    FirstRows <- <<"sql", "css">>, Levels <- {1, 2}, Texts <- {"", "a"},
    Ops <- {"name", "remove", "level", "entry", "about"}, MaxEdits <- 3,
    MaxSaves <- 1, MaxFaults <- 2

Edits == INSTANCE TalentEdit WITH
    talent <- c1, cv <- c2, page <- c3, form <- c4, save <- c5,
    entered <- c6, edits <- c7, saves <- c8, faults <- c9,
    Names <- {"js", "chatting"}, Means <- Meanings, NoSkill <- 0,
    FirstRows <- <<"sql", "css">>, Levels <- {1, 2}, Texts <- {"", "a"},
    Ops <- {"name", "remove", "level", "entry", "about"}, MaxEdits <- 2,
    MaxSaves <- 2, MaxFaults <- 1

Pool == INSTANCE TalentPool WITH
    roster <- c1, rows <- c2, import <- c3, owner <- c4, creating <- c5,
    applied <- c6, changes <- c7, archived <- c8, faults <- c9,
    Talents <- 1..3, Orgs <- {"o"}, Owners <- {}, Imports <- {"i", "j"},
    ImportOrg <- [i \in {"i", "j"} |-> "o"], Kinds <- {"one", "ids", "all"},
    PageSize <- 2, Batch <- 2, MaxPages <- 3, Applicants <- {}, MaxChanges <- 0,
    MaxArchived <- 0, MaxFaults <- 1, Serial <- TRUE

Owned == INSTANCE TalentPool WITH
    roster <- c1, rows <- c2, import <- c3, owner <- c4, creating <- c5,
    applied <- c6, changes <- c7, archived <- c8, faults <- c9,
    Talents <- 1..3, Orgs <- {"o", "p"}, Owners <- {"o", "p"}, Imports <- {"i"},
    ImportOrg <- [i \in {"i"} |-> "o"], Kinds <- {"one"}, PageSize <- 2,
    Batch <- 2, MaxPages <- 3, Applicants <- {"a"}, MaxChanges <- 1,
    MaxArchived <- 1, MaxFaults <- 0, Serial <- TRUE

Create == INSTANCE VanceCreate WITH
    call <- c1, objects <- c2, surfaced <- c3, queue <- c4, active <- c5,
    landed <- c6,
    Kinds <- {"talent", "job"}, Skills <- {1, 2}, Slugs <- {"own", "feed"},
    Feeds <- {"feed"}, Unknown <- "unknown", Concurrency <- 2, Retries <- 1,
    LosesAnswers <- FALSE

Posted == INSTANCE VanceCreate WITH
    call <- c1, objects <- c2, surfaced <- c3, queue <- c4, active <- c5,
    landed <- c6,
    Kinds <- {"talent", "job"}, Skills <- {1, 2}, Slugs <- {"own", "feed"},
    Feeds <- {"feed"}, Unknown <- "unknown", Concurrency <- 2, Retries <- 1,
    LosesAnswers <- TRUE

Cv == INSTANCE CvExtraction WITH
    cache <- c1, inflight <- c2, calls <- c3, req <- c4, failures <- c5,
    Requests <- {1, 2}, Cvs <- CvTexts, Scans <- {"note", "other"},
    Short <- {"note"}, Pages <- FirstPages, Named <- NamedSkills,
    Plain <- PlainSkills, Mentioned <- MentionedSkills, Baseline <- BaseLevels,
    TextKey <- TRUE, VisionKey <- TRUE, MaxCalls <- 3, MaxFailures <- 1

CvCalls == INSTANCE CvExtraction WITH
    cache <- c1, inflight <- c2, calls <- c3, req <- c4, failures <- c5,
    Requests <- {1, 2}, Cvs <- CvTexts, Scans <- {"note", "other"},
    Short <- {"note"}, Pages <- FirstPages, Named <- NamedSkills,
    Plain <- PlainSkills, Mentioned <- MentionedSkills, Baseline <- BaseLevels,
    TextKey <- TRUE, VisionKey <- TRUE, MaxCalls <- 2, MaxFailures <- 1

Resolved == INSTANCE SkillResolution WITH
    pairs <- c1, from <- c2, work <- c3, hits <- c4, unresolved <- c5,
    authError <- c6, failed <- c7, stage <- c8,
    Listed <- CvLists, Forms <- TermForms, Finds <- FormFinds, Max <- 3, Conc <- 3,
    MaxFailures <- 2

ASSUME PartsAssumption ==
    /\ Runs!MatchAssumption
    /\ Warned!MatchAssumption
    /\ Injected!MatchAssumption
    /\ Cv!CvAssumption
    /\ CvCalls!CvAssumption

-----------------------------------------------------------------------------
(* A behaviour is one of one part; the variables that it does not use keep  *)
(* still.                                                                    *)

Idle10 == c10 = 0
Idle9 == c9 = 0 /\ Idle10
Idle8 == c8 = 0 /\ Idle9
Idle7 == c7 = 0 /\ Idle8
Idle6 == c6 = 0 /\ Idle7
Idle5 == c5 = 0 /\ Idle6
Idle4 == c4 = 0 /\ Idle5
Idle3 == c3 = 0 /\ Idle4
Idle2 == c2 = 0 /\ Idle3
Idle1 == c1 = 0 /\ Idle2
Rest10 == <<c10>>
Rest9 == <<c9, Rest10>>
Rest8 == <<c8, Rest9>>
Rest7 == <<c7, Rest8>>
Rest6 == <<c6, Rest7>>
Rest5 == <<c5, Rest6>>
Rest4 == <<c4, Rest5>>
Rest3 == <<c3, Rest4>>
Rest2 == <<c2, Rest3>>
Rest1 == <<c1, Rest2>>

benchVars == <<part, Rest1>>

BenchInit ==
    /\ part \in Parts
    /\ \/ part = "runs" /\ Runs!MatchInit /\ Idle7
       \/ part = "runs_warned" /\ Warned!MatchInit /\ Idle7
       \/ part = "runs_injected" /\ Injected!MatchInit /\ Idle7
       \/ part = "profile" /\ Profile!ProfileInit
       \/ part = "profile_pushed" /\ Pushed!ProfileInit
       \/ part = "profile_reviews" /\ Reviews!ProfileInit
       \/ part = "profile_panel" /\ Panel!ProfileInit
       \/ part = "edit" /\ Edit!EditInit /\ Idle10
       \/ part = "edit_ends" /\ Edits!EditInit /\ Idle10
       \/ part = "pool" /\ Pool!PoolInit /\ Idle10
       \/ part = "pool_owned" /\ Owned!PoolInit /\ Idle10
       \/ part = "create" /\ Create!CreateInit /\ Idle7
       \/ part = "create_settles" /\ Posted!CreateInit /\ Idle7
       \/ part = "cv" /\ Cv!CvInit /\ Idle6
       \/ part = "cv_ends" /\ CvCalls!CvInit /\ Idle6
       \/ part = "skills" /\ Resolved!SkillInit /\ Idle9
BenchNext ==
    \/ part = "runs" /\ Runs!MatchNext /\ UNCHANGED <<part, Rest7>>
    \/ part = "runs_warned" /\ Warned!MatchNext /\ UNCHANGED <<part, Rest7>>
    \/ part = "runs_injected" /\ Injected!MatchNext /\ UNCHANGED <<part, Rest7>>
    \/ part = "profile" /\ Profile!ProfileNext /\ UNCHANGED <<part>>
    \/ part = "profile_pushed" /\ Pushed!ProfileNext /\ UNCHANGED <<part>>
    \/ part = "profile_reviews" /\ Reviews!ProfileNext /\ UNCHANGED <<part>>
    \/ part = "profile_panel" /\ Panel!ProfileNext /\ UNCHANGED <<part>>
    \/ part = "edit" /\ Edit!EditNext /\ UNCHANGED <<part, Rest10>>
    \/ part = "edit_ends" /\ Edits!EditNext /\ UNCHANGED <<part, Rest10>>
    \/ part = "pool" /\ Pool!PoolNext /\ UNCHANGED <<part, Rest10>>
    \/ part = "pool_owned" /\ Owned!PoolNext /\ UNCHANGED <<part, Rest10>>
    \/ part = "create" /\ Create!CreateNext /\ UNCHANGED <<part, Rest7>>
    \/ part = "create_settles" /\ Posted!CreateNext /\ UNCHANGED <<part, Rest7>>
    \/ part = "cv" /\ Cv!CvNext /\ UNCHANGED <<part, Rest6>>
    \/ part = "cv_ends" /\ CvCalls!CvNext /\ UNCHANGED <<part, Rest6>>
    \/ part = "skills" /\ Resolved!SkillNext /\ UNCHANGED <<part, Rest9>>

BenchSpec == BenchInit /\ [][BenchNext]_benchVars

\* Executions and saves that are alive go on, pollers poll, calls are answered or time
\* out, and a run grows old.
FairCandidates ==
    /\ BenchSpec
    /\ \A x \in {1, 2} : WF_benchVars(part = "runs" /\ Runs!ExecStep(x) /\ UNCHANGED <<part, Rest7>>)
    /\ WF_benchVars(part = "runs" /\ Runs!TabStep("t") /\ UNCHANGED <<part, Rest7>>)
    /\ WF_benchVars(part = "runs" /\ Runs!AgeRun(1) /\ UNCHANGED <<part, Rest7>>)
    /\ WF_benchVars(part = "profile_panel" /\ Panel!PanelStep /\ UNCHANGED <<part>>)
    /\ WF_benchVars(part = "edit_ends" /\ Edits!SaveStep /\ UNCHANGED <<part, Rest10>>)
    /\ WF_benchVars(part = "create_settles" /\ Posted!CallStep /\ UNCHANGED <<part, Rest7>>)
    /\ WF_benchVars(part = "create_settles" /\ Posted!RowStep /\ UNCHANGED <<part, Rest7>>)
    /\ \A x \in {1, 2} : WF_benchVars(part = "cv_ends" /\ CvCalls!CallEnds(x) /\ UNCHANGED <<part, Rest6>>)
    /\ \A x \in {1, 2} : WF_benchVars(part = "cv_ends" /\ CvCalls!LookEnds(x) /\ UNCHANGED <<part, Rest6>>)
    /\ WF_benchVars(part = "skills" /\ Resolved!SkillNext /\ UNCHANGED <<part, Rest9>>)

-----------------------------------------------------------------------------
(* Properties.                                                               *)

\* A run's jobs are stored once though its creator, a poller, a crash and the sweep
\* meet; a large feed is searched by its name only with a location, and within all
\* sources only where no source of the talent could be read. Where no page is open and
\* nothing fails, the newest completed run of an onboarding is in the projects when the
\* requests are done (executeMatchRun and syncAndMatch).
RunsAreSafe ==
    /\ part = "runs" => Runs!TypeOK /\ Runs!RowsOnce /\ Runs!NeverUnbounded
    /\ part = "runs_injected" => Injected!RowsOnce /\ Injected!InjectedWhenDone

\* With one editor at a time, what a recruiter stored or approved stays in the profile
\* and goes to 8vance once; a save that names no failed part has landed whole, and the
\* stored profile never shows an entry that 8vance lacks (the profile editors, saveAll).
ProfileIsKept ==
    /\ part = "profile" => Profile!TypeOK /\ Profile!EditsKept /\ Profile!ApprovedApplied
    /\ part = "profile_pushed" => Pushed!PushedOnce /\ Pushed!SkillSurvives
    /\ part = "edit" => /\ Edit!TypeOK /\ Edit!OkLanded /\ Edit!MirrorNeverAhead
                        /\ Edit!NothingLeftOver /\ Edit!AboutOnlyTyped

\* An import that comes alone, of a pool that stays as it is, brings every talent once;
\* a talent that 8vance has is returned whatever of its rows failed; nobody gets a profile
\* read from another CV or pays twice for one; and a name that a CV lists is resolved to
\* its closest form or reported as unresolved (the imports of actions.ts, the creates of
\* client.ts, cv-ai.ts and resolve-skills.ts).
IntakeIsTrue ==
    /\ part = "pool" => Pool!TypeOK /\ Pool!ImportedOnce /\ Pool!WholePool /\ Pool!BatchIsNew
    /\ part = "create" => /\ Create!TypeOK /\ Create!TalentKept
                          /\ Create!CompleteJob /\ Create!OwnSource
    /\ part = "cv" => Cv!TypeOK /\ Cv!PaidOnce /\ Cv!OwnProfile /\ Cv!DegradedWithCause
    /\ part = "skills" => /\ Resolved!TypeOK /\ Resolved!OnceEach /\ Resolved!LookedUpTold
                          /\ Resolved!ClosestForm /\ Resolved!FaultNamed

\* A feed without jobs that had some in the last completed run is warned about, by an
\* execution that could read that run and while no other completed. A settled run stays
\* as it settled but for one that was failed for its age under a live execution. A
\* decided suggestion is opened again only by a scan or a recruiter who had read the
\* list before the decision. An application pool keeps its owner.
StepsKeep ==
    [][/\ part = "runs_warned" => Warned!LossIsWarned
       /\ part = "runs_injected" => Injected!SettledForGood
       /\ part = "runs" => Runs!SettledForGood
       /\ part = "profile_reviews" => Reviews!ReviewKept
       /\ part = "pool_owned" => Owned!OwnerSetOnce]_benchVars

\* Nothing hangs: a page that shows a run as matching, a panel that polls, a save, the
\* creation of a talent or job, the reading of a CV and the look-up of its skills.
WaitsEnd ==
    /\ []<>~(part = "runs" /\ Runs!ShowsMatching("t"))
    /\ []<>~(part = "profile_panel" /\ Panel!Polling)
    /\ []<>~(part = "edit_ends" /\ Edits!Saving)
    /\ []<>~(part = "create_settles" /\ ~Posted!Settled)
    /\ \A x \in {1, 2} : []<>~(part = "cv_ends" /\ CvCalls!Waits(x))
    /\ []<>~(part = "skills" /\ Resolved!Searching)
=============================================================================
