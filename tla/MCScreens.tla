----------------------------- MODULE MCScreens ------------------------------
(* Instances for TLC of what the screens keep while the answers to their calls are *)
(* under way, and of the cache behind the searches.  The components share no       *)
(* state, so a behaviour of this bench is one of a single part: an instance of a   *)
(* component with the constants given here.                                        *)
EXTENDS LruCache, FiniteSets, TLC

CONSTANT Parts          \* the parts that a run checks

VARIABLES part,         \* the part a behaviour is about, and its variables
          c1, c2, c3, c4, c5, c6, c7, c8, c9, c10, c11, c12, c13, c14,
          c15

\* Suggested skills in Dutch and in English; one is in both lists.
TwoRankings == [k \in {"nl", "en"} |-> IF k = "nl" THEN <<1, 2, 3, 4, 5>> ELSE <<1, 6, 7>>]

\* Texts that are typed into a field of languages, and what is found for them.
TypedTexts == {"", "d", "du", "fr", "dutch", "french"}
LanguageHits == [t \in TypedTexts |-> IF t \in {"", "d"} THEN {} ELSE IF t \in {"fr", "french"} THEN {"french"} ELSE {"dutch"}]

TwoRosters == ("p" :> <<1, 2, 3>>) @@ ("q" :> <<4>>)

\* Nothing can be read from the scan.
CvReadings == ("first.docx" :> "t1") @@ ("second.docx" :> "t2") @@ ("scan.pdf" :> "")

\* Levels 1 to 3 stand for mbo, hbo and master; the second card knows none.
ThreeCards ==
    "a" :> [sources |-> {"p"}, skills |-> {"js"}, words |-> {"bank"}, functions |-> {"dev"}, sectors |-> {"it"},
            years |-> 3, edu |-> {1, 3}, must |-> TRUE, score |-> 90, location |-> "nh", languages |-> {"nl"},
            travel |-> [car |-> 0, bike |-> 3]]
    @@ "b" :> [sources |-> {"p", "q"}, skills |-> {"js", "go"}, words |-> {"bank", "shop"}, functions |-> {"dev", "ops"},
            sectors |-> {}, years |-> -1, edu |-> {}, must |-> FALSE, score |-> 60, location |-> "zh",
            languages |-> {}, travel |-> [car |-> -1, bike |-> -1]]
    @@ "c" :> [sources |-> {"q"}, skills |-> {}, words |-> {}, functions |-> {}, sectors |-> {"it"},
            years |-> 0, edu |-> {2}, must |-> FALSE, score |-> 40, location |-> "nh", languages |-> {"nl", "fr"},
            travel |-> [car |-> 2, bike |-> -1]]

\* "nurse" is in the title of a and c; d knows next to nothing; e lies in a fourth city.
ByModes(car, bike, ov) == [car |-> car, bike |-> bike, ov |-> ov]
FiveJobs ==
    "a" :> [agency |-> TRUE, own |-> FALSE, remote |-> FALSE, words |-> {"nurse"}, age |-> 3, city |-> "a",
            source |-> "feed", contract |-> "Vast", score |-> 90, hoursMin |-> 36, hoursMax |-> 40,
            salaryLow |-> 10, salaryHigh |-> 20, km |-> 5, travel |-> ByModes(0, 1, -1)]
    @@ "b" :> [agency |-> FALSE, own |-> TRUE, remote |-> TRUE, words |-> {}, age |-> 20, city |-> "b",
            source |-> "pool", contract |-> "vast", score |-> 60, hoursMin |-> -1, hoursMax |-> 16,
            salaryLow |-> -1, salaryHigh |-> 8, km |-> 40, travel |-> ByModes(3, -1, 1)]
    @@ "c" :> [agency |-> FALSE, own |-> FALSE, remote |-> FALSE, words |-> {"nurse"}, age |-> 60, city |-> "c",
            source |-> "feed", contract |-> "Tijdelijk", score |-> 40, hoursMin |-> 20, hoursMax |-> -1,
            salaryLow |-> 30, salaryHigh |-> -1, km |-> -1, travel |-> ByModes(1, 4, -1)]
    @@ "d" :> [agency |-> FALSE, own |-> FALSE, remote |-> FALSE, words |-> {}, age |-> -1, city |-> "",
            source |-> "", contract |-> "", score |-> 70, hoursMin |-> -1, hoursMax |-> -1,
            salaryLow |-> -1, salaryHigh |-> -1, km |-> -1, travel |-> ByModes(-1, -1, -1)]
    @@ "e" :> [agency |-> FALSE, own |-> TRUE, remote |-> FALSE, words |-> {}, age |-> 3, city |-> "d",
            source |-> "pool", contract |-> "", score |-> 80, hoursMin |-> -1, hoursMax |-> -1,
            salaryLow |-> -1, salaryHigh |-> -1, km |-> 8, travel |-> ByModes(-1, 2, -1)]
LowerCase == ("Vast" :> "vast") @@ ("vast" :> "vast") @@ ("Tijdelijk" :> "tijdelijk")
CityNumbers == ("a" :> 1) @@ ("b" :> 2) @@ ("c" :> 3) @@ ("d" :> 4)
Wishes == [contracts |-> {"vast", "interim"}, remote |-> TRUE, hours |-> 38, salary |-> [min |-> 9, max |-> 25]]
AllFacets == {"agencies", "query", "origin", "remote", "published", "cities", "sources", "contracts", "score",
              "hours", "salary", "distance", "travel"}

-----------------------------------------------------------------------------
(* The parts.                                                                *)

Tiled == INSTANCE SkillTiles WITH
    ui <- c1, first <- c2, staging <- c3, more <- c4, moves <- c5,
    mores <- c6, faults <- c7,
    Keys <- {"nl", "en"}, Ranking <- TwoRankings, Batch <- 2, MinSkills <- 1,
    MaxSkills <- 2, MaxMoves <- 3, MaxMores <- 2, MaxFaults <- 0

Appear == INSTANCE SkillTiles WITH
    ui <- c1, first <- c2, staging <- c3, more <- c4, moves <- c5,
    mores <- c6, faults <- c7,
    Keys <- {"nl", "en"}, Ranking <- TwoRankings, Batch <- 2, MinSkills <- 1,
    MaxSkills <- 1, MaxMoves <- 3, MaxMores <- 1, MaxFaults <- 1

Field == INSTANCE Autocomplete WITH
    field <- c1, list <- c2, search <- c3, resolved <- c4, picked <- c5,
    changes <- c6,
    Texts <- TypedTexts, Short <- {"", "d"}, Matches <- LanguageHits,
    Kind <- "labelled", MaxChanges <- 6

Cleared == INSTANCE Autocomplete WITH
    field <- c1, list <- c2, search <- c3, resolved <- c4, picked <- c5,
    changes <- c6,
    Texts <- TypedTexts, Short <- {"", "d"}, Matches <- LanguageHits,
    Kind <- "clearing", MaxChanges <- 6

Browsed == INSTANCE CandidateList WITH
    here <- c1, local <- c2, query <- c3, source <- c4, rich <- c5,
    picked <- c6, page <- c7, nonce <- c8, selection <- c9,
    fetched <- c10, flight <- c11, import <- c12, refresh <- c13,
    acts <- c14, faults <- c15,
    Roster <- TwoRosters, Hits <- {2, 4}, PageSize <- 2, MaxActs <- 3,
    MaxFaults <- 1

Wizard == INSTANCE WizardDraft WITH
    form <- c1, stored <- c2, page <- c3, submit <- c4, dutch <- c5,
    removed <- c6, edits <- c7, mounts <- c8, submits <- c9,
    Pools <- {"p", "q"}, Langs <- {"nl", "fr"}, Dutch <- "nl", Errors <- {"taken"},
    MaxEdits <- 8, MaxMounts <- 3, MaxSubmits <- 2

Intake == INSTANCE CvIntake WITH
    form <- c1, upload <- c2, extract <- c3, guard <- c4, prefills <- c5,
    current <- c6, doubts <- c7, uploads <- c8, edits <- c9,
    faults <- c10,
    Files <- DOMAIN CvReadings, TextOf <- CvReadings, MaxUploads <- 3,
    MaxEdits <- 3, MaxFaults <- 1

Wished == INSTANCE Preferences WITH
    row <- c1, form <- c2, seen <- c3, run <- c4, edits <- c5,
    submits <- c6, links <- c7,
    Origins <- {"wizard", "draft", "apply", "legacy"}, LegacyRadii <- {0, 25, 200},
    Cvs <- {{}, {"unknown"}, {"mbo", "hbo"}}, WizardSlides <- {0, 5, 40},
    PortalSlides <- {0, 5, 20}, Modes <- {"hybrid", "remote"}, Hours <- {0, 40},
    Regions <- {"r"}, Cities <- {"a", "b"}, Levels <- {0, 3},
    Uses <- {"slide", "mode", "hours", "region", "city", "level", "email"},
    CvFirst <- FALSE, MaxEdits <- 2, MaxSubmits <- 2, MaxLinks <- 2

Streamed == INSTANCE ShortlistGrid WITH
    present <- c1, stored <- c2, rows <- c3, seen <- c4, render <- c5,
    filters <- c6, touched <- c7, drift <- c8, overrides <- c9,
    call <- c10, edits <- c11, calls <- c12,
    Cards <- {"a", "b", "c"}, Card <- ThreeCards, AtFirst <- {"a", "b"},
    Streams <- {"grow"},
    Facets <- {"years", "edu", "skills", "keywords", "chips", "texts", "travel", "score", "flags"},
    Stages <- {"new", "hired"}, MaxEdits <- 2, MaxCalls <- 0

Grid == INSTANCE ShortlistGrid WITH
    present <- c1, stored <- c2, rows <- c3, seen <- c4, render <- c5,
    filters <- c6, touched <- c7, drift <- c8, overrides <- c9,
    call <- c10, edits <- c11, calls <- c12,
    Cards <- {"a", "c"}, Card <- ThreeCards, AtFirst <- {"a", "c"},
    Streams <- {"shrink"}, Facets <- {"flags"}, Stages <- {"new", "hired"},
    MaxEdits <- 1, MaxCalls <- 2

Levelled == INSTANCE ShortlistGrid WITH
    present <- c1, stored <- c2, rows <- c3, seen <- c4, render <- c5,
    filters <- c6, touched <- c7, drift <- c8, overrides <- c9,
    call <- c10, edits <- c11, calls <- c12,
    Cards <- {"a", "b", "c"}, Card <- ThreeCards, AtFirst <- {"a", "b"},
    Streams <- {"grow", "shrink"}, Facets <- {"edu"}, Stages <- {"new", "hired"},
    MaxEdits <- 2, MaxCalls <- 0

Filtered == INSTANCE MatchFilters WITH
    rows <- c1, status <- c2, filter <- c3, touched <- c4, city <- c5,
    lookup <- c6, geo <- c7, geoOpen <- c8, pending <- c9, edits <- c10,
    reloads <- c11,
    Jobs <- DOMAIN FiveJobs, Job <- FiveJobs,
    RowLists <- {{"a", "b", "c", "d"}, {"a", "d"}}, Preferences <- Wishes,
    Lower <- LowerCase, Preset <- [mode |-> "bike", max |-> 0], HasOrigin <- TRUE,
    CityOrder <- CityNumbers, Queries <- {"", "u", "utr", "ein"},
    Short <- {"", "u"}, Facets <- AllFacets, MaxEdits <- 3, MaxReloads <- 0

Refreshed == INSTANCE MatchFilters WITH
    rows <- c1, status <- c2, filter <- c3, touched <- c4, city <- c5,
    lookup <- c6, geo <- c7, geoOpen <- c8, pending <- c9, edits <- c10,
    reloads <- c11,
    Jobs <- DOMAIN FiveJobs, Job <- FiveJobs,
    RowLists <- {{}, {"a", "b", "c", "d"}, {"b", "e"}}, Preferences <- Wishes,
    Lower <- LowerCase, Preset <- [mode |-> "bike", max |-> 0], HasOrigin <- TRUE,
    CityOrder <- CityNumbers, Queries <- {"", "u", "utr", "ein"},
    Short <- {"", "u"}, Facets <- AllFacets \union {"city"}, MaxEdits <- 1,
    MaxReloads <- 2

-----------------------------------------------------------------------------
(* A behaviour is one of one part; the variables that it does not use keep  *)
(* still.                                                                    *)

Idle15 == c15 = 0
Idle14 == c14 = 0 /\ Idle15
Idle13 == c13 = 0 /\ Idle14
Idle12 == c12 = 0 /\ Idle13
Idle11 == c11 = 0 /\ Idle12
Idle10 == c10 = 0 /\ Idle11
Idle9 == c9 = 0 /\ Idle10
Idle8 == c8 = 0 /\ Idle9
Idle7 == c7 = 0 /\ Idle8
Idle6 == c6 = 0 /\ Idle7
Idle5 == c5 = 0 /\ Idle6
Idle4 == c4 = 0 /\ Idle5
Idle3 == c3 = 0 /\ Idle4
Idle2 == c2 = 0 /\ Idle3
Idle1 == c1 = 0 /\ Idle2
Rest15 == <<c15>>
Rest14 == <<c14, Rest15>>
Rest13 == <<c13, Rest14>>
Rest12 == <<c12, Rest13>>
Rest11 == <<c11, Rest12>>
Rest10 == <<c10, Rest11>>
Rest9 == <<c9, Rest10>>
Rest8 == <<c8, Rest9>>
Rest7 == <<c7, Rest8>>
Rest6 == <<c6, Rest7>>
Rest5 == <<c5, Rest6>>
Rest4 == <<c4, Rest5>>
Rest3 == <<c3, Rest4>>
Rest2 == <<c2, Rest3>>
Rest1 == <<c1, Rest2>>
own == <<store, now, truth, call, lookups>>
benchVars == <<part, Rest1, own>>

BenchInit ==
    /\ part \in Parts
    /\ LruInit
    /\ \/ part \in {"lru"} /\ Idle1
       \/ part = "tiles" /\ Tiled!SkillTilesInit /\ Idle8
       \/ part = "tiles_appear" /\ Appear!SkillTilesInit /\ Idle8
       \/ part = "field" /\ Field!AutocompleteInit /\ Idle7
       \/ part = "field_cleared" /\ Cleared!AutocompleteInit /\ Idle7
       \/ part = "list" /\ Browsed!CandidateListInit
       \/ part = "wizard" /\ Wizard!WizardInit /\ Idle10
       \/ part = "intake" /\ Intake!CvIntakeInit /\ Idle11
       \/ part = "wishes" /\ Wished!PreferencesInit /\ Idle8
       \/ part = "grid_streamed" /\ Streamed!ShortlistGridInit /\ Idle13
       \/ part = "grid" /\ Grid!ShortlistGridInit /\ Idle13
       \/ part = "grid_levels" /\ Levelled!ShortlistGridInit /\ Idle13
       \/ part = "filters" /\ Filtered!MatchFiltersInit /\ Idle12
       \/ part = "filters_again" /\ Refreshed!MatchFiltersInit /\ Idle12
BenchNext ==
    \/ part = "lru" /\ LruNext /\ UNCHANGED <<part, Rest1>>
    \/ part = "tiles" /\ Tiled!SkillTilesNext /\ UNCHANGED <<part, Rest8, own>>
    \/ part = "tiles_appear" /\ Appear!SkillTilesNext /\ UNCHANGED <<part, Rest8, own>>
    \/ part = "field" /\ Field!AutocompleteNext /\ UNCHANGED <<part, Rest7, own>>
    \/ part = "field_cleared" /\ Cleared!AutocompleteNext /\ UNCHANGED <<part, Rest7, own>>
    \/ part = "list" /\ Browsed!CandidateListNext /\ UNCHANGED <<part, own>>
    \/ part = "wizard" /\ Wizard!WizardNext /\ UNCHANGED <<part, Rest10, own>>
    \/ part = "intake" /\ Intake!CvIntakeNext /\ UNCHANGED <<part, Rest11, own>>
    \/ part = "wishes" /\ Wished!PreferencesNext /\ UNCHANGED <<part, Rest8, own>>
    \/ part = "grid_streamed" /\ Streamed!ShortlistGridNext /\ UNCHANGED <<part, Rest13, own>>
    \/ part = "grid" /\ Grid!ShortlistGridNext /\ UNCHANGED <<part, Rest13, own>>
    \/ part = "grid_levels" /\ Levelled!ShortlistGridNext /\ UNCHANGED <<part, Rest13, own>>
    \/ part = "filters" /\ Filtered!MatchFiltersNext /\ UNCHANGED <<part, Rest12, own>>
    \/ part = "filters_again" /\ Refreshed!MatchFiltersNext /\ UNCHANGED <<part, Rest12, own>>

BenchSpec == BenchInit /\ [][BenchNext]_benchVars

\* Calls are answered or fail, timers fire, and React renders what was set.
FairScreens ==
    /\ BenchSpec
    /\ WF_benchVars(part = "tiles_appear" /\ Appear!Calls /\ UNCHANGED <<part, Rest8, own>>)
    /\ WF_benchVars(part = "tiles_appear" /\ Appear!FloorPasses /\ UNCHANGED <<part, Rest8, own>>)
    /\ WF_benchVars(part = "field" /\ Field!SearchStep /\ UNCHANGED <<part, Rest7, own>>)
    /\ WF_benchVars(part = "field_cleared" /\ Cleared!SearchStep /\ UNCHANGED <<part, Rest7, own>>)
    /\ WF_benchVars(part = "list" /\ Browsed!FetchStep /\ UNCHANGED <<part, own>>)
    /\ WF_benchVars(part = "list" /\ Browsed!PageStep /\ UNCHANGED <<part, own>>)

-----------------------------------------------------------------------------
(* Properties.                                                               *)

\* What a screen shows once its calls are answered belongs to what it asks for now, in
\* whatever order the answers came: the first tile, suggestions, rows of a pool, and the
\* selection made in them once they had loaded; and overlapping answers never fill the
\* cache behind them beyond its limit, or with one key twice (appendBatch, the
\* autocompletes, candidate-list.tsx and lru.ts).
AnswersFit ==
    /\ part = "lru" => Bounded /\ Distinct
    /\ part = "tiles" => Tiled!TypeOK /\ Tiled!NoTileTwice /\ Tiled!HeadIsCurrent
    /\ part = "field" => /\ Field!TypeOK /\ Field!ItemsAnswerText
                         /\ Field!FieldShowsSelection /\ Field!PickKeepsClosed
    /\ part = "field_cleared" => Cleared!PickKeepsClosed
    /\ part = "list" => /\ Browsed!TypeOK /\ Browsed!RowsAnswerKey
                        /\ Browsed!SelectionOfItsPool /\ Browsed!ShownOnce

\* What a person filled in is complete and their own: a step of the wizard is reached
\* with the fields of those before it; a made project leaves no draft unless something
\* changed under its submit; a form holds nothing of an earlier CV unless its extraction
\* or look-up was still under way when the last one was parsed; the radius that a
\* candidate chose is the one that is searched with, raised to the least distance of the
\* match. What a filter hides can be shown again, and an untouched filter hides nothing
\* unless a refresh brought more levels of education (wizard.tsx, candidate-wizard.tsx,
\* preferences.ts, shortlist-grid.tsx and match-client.tsx).
FormsKeep ==
    /\ part = "wizard" => Wizard!TypeOK /\ Wizard!StepsDone /\ Wizard!SuccessLeavesNoDraft
    /\ part = "intake" => Intake!TypeOK /\ Intake!NothingInherited /\ Intake!NameFilled
    /\ part = "wishes" => /\ Wished!TypeOK /\ Wished!RadiusSafe /\ Wished!SummaryTrue
                          /\ Wished!MarkerCentred /\ Wished!ChosenKept
    /\ part = "grid_streamed" => /\ Streamed!TypeOK /\ Streamed!YearsInOrder
                                 /\ Streamed!HiddenOnlyWhenActive
    /\ part = "grid" => Grid!ShownIsStored
    /\ part = "grid_levels" => Levelled!UntouchedShowsAll /\ Levelled!EduInRange
    /\ part = "filters" => Filtered!TypeOK /\ Filtered!SeedsHaveControls
    /\ part = "filters_again" => /\ Refreshed!HidingIsNamed /\ Refreshed!Reachable
                                 /\ Refreshed!SuggestedForSearch

\* A reload of the wizard loses nothing, a place that was picked outlives a late look-up,
\* a confirmed form changes no preference that nobody touched, and the buttons that
\* reset a list show every row of it.
NothingIsLost ==
    [][/\ part = "wizard" => Wizard!ReloadKeeps
       /\ part = "intake" => Intake!PickedPlaceKept
       /\ part = "wishes" => Wished!SeededKept
       /\ part = "grid_streamed" => Streamed!ResetShowsAll
       /\ part = "filters" => Filtered!AllShown]_benchVars

\* Nothing loads for ever: whoever stays on the skills step sees tiles, a search field
\* and the list of candidates stop loading.
LoadingEnds ==
    /\ []<>~(part = "tiles_appear" /\ Appear!Blank)
    /\ []<>~(part = "field" /\ Field!Loading)
    /\ []<>~(part = "field_cleared" /\ Cleared!Loading)
    /\ []<>~(part = "list" /\ Browsed!Loading)
=============================================================================
