----------------------------- MODULE MCProjects -----------------------------
(* Instances for TLC of a project's way from its form to the board: the form,  *)
(* the matching of its pools, the panel that watches it, the pipeline and its  *)
(* board, and the rows and rules of a match run.  A behaviour of this bench is *)
(* one of a single part: an instance of a component with the constants given   *)
(* here.                                                                       *)
EXTENDS Naturals, Sequences, FiniteSetsExt, TLC

CONSTANT Parts          \* the parts that a run checks

VARIABLES part,         \* the part a behaviour is about, and its variables
          c1, c2, c3, c4, c5, c6, c7, c8, c9, c10, c11, c12, c13, c14

\* Every process of a matching on one server, or each hydration on a server of its own.
OneServer == [p \in {"s1", "s2", "h1", "h2", "sweep"} |-> "web"]
OwnServers == [OneServer EXCEPT !["h1"] = "h1", !["h2"] = "h2"]

\* Two stages before the reveal and a gated, terminal last one; or one and one.
AStage(g, e) == [gated |-> g, terminal |-> e]
ThreeStages == <<AStage(FALSE, FALSE), AStage(TRUE, FALSE), AStage(TRUE, TRUE)>>
TwoStages == <<AStage(FALSE, FALSE), AStage(TRUE, TRUE)>>
Legacy(n) == ("NEW" :> 1) @@ ("REJECTED" :> n)
OwnTalent == ("m" :> "m") @@ ("n" :> "n")
OwnPool == ("m" :> "A") @@ ("n" :> "B")

\* Job "far" tells of a client only in its detail, "both" is offered by a feed and by a
\* partner, "ours" is a job of the tenant's own company that a feed lists as well.
Offered == ("jobdigger" :> ("far" :> 3 @@ "both" :> 3 @@ "ours" :> 3))
           @@ ("pool" :> ("ours" :> 2)) @@ ("partner" :> ("both" :> 1))
OfferedTwo == ("jobdigger" :> ("far" :> 3 @@ "ours" :> 3))
              @@ ("indeed" :> ("both" :> 3)) @@ ("pool" :> ("ours" :> 2))
ListRows == ("far" :> [employer |-> <<"x">>, contract |-> <<>>, flag |-> FALSE])
            @@ ("both" :> [employer |-> <<"y", "-", "x">>, contract |-> <<>>, flag |-> FALSE])
            @@ ("ours" :> [employer |-> <<"u">>, contract |-> <<"u">>, flag |-> FALSE])
Details == ("far" :> [description |-> <<"x", "-", "k">>, behalf |-> FALSE, source |-> "no source"])
           @@ ("both" :> [description |-> <<"x", "y">>, behalf |-> FALSE, source |-> "no source"])
           @@ ("ours" :> [description |-> <<"k">>, behalf |-> TRUE, source |-> "jobdigger"])
OneRule == {[kind |-> "NAME", pattern |-> <<"x">>, form |-> "plain"]}
RulesTyped == OneRule \cup {[kind |-> "DESCRIPTION", pattern |-> <<"y">>, form |-> "plain"],
                           [kind |-> "DESCRIPTION", pattern |-> <<"y">>, form |-> "capital"],
                           [kind |-> "NAME", pattern |-> <<"x">>, form |-> "blank"]}

\* The own company's job and three others; a job may come from two sources, one unnamed.
Scored(j, s, slug) == [job |-> j, score |-> s, slug |-> slug]
RealScores == ("own" :> 620) @@ ("near" :> 500) @@ ("feed" :> 200) @@ ("far" :> 450)
SkillsAsked == ("own" :> {1, 2}) @@ ("near" :> {2}) @@ ("feed" :> {1, 3}) @@ ("far" :> {})
Rankings == {<<Scored("own", 640, "pool"), Scored("near", 10, "jobs"), Scored("feed", 10, "no source"), Scored("feed", 10, "jobs")>>,
             <<Scored("near", 190, "no source"), Scored("near", 10, "jobs"), Scored("feed", 10, "jobs"), Scored("far", 10, "jobs")>>,
             <<Scored("own", 640, "no source")>>}
OneRanking == {<<Scored("own", 640, "pool"), Scored("near", 10, "jobs"), Scored("feed", 10, "jobs")>>}

\* At "sea" no city is found.  The search field offers a place with a point and one
\* without.
CityOf == ("a" :> "Assen") @@ ("b" :> "Breda") @@ ("sea" :> "no city")
OnePlace == {[city |-> "Assen", spot |-> "a"]}
TwoPlaces == OnePlace \cup {[city |-> "Goes", spot |-> "no spot"]}

-----------------------------------------------------------------------------
(* The parts.                                                                *)

Stored == INSTANCE Matching WITH
    status <- c1, lastMatched <- c2, pools <- c3, matches <- c4,
    tasks <- c5, sync <- c6, hydration <- c7, sweep <- c8, strays <- c9,
    inserted <- c10, announced <- c11, ops <- c12, crashes <- c13,
    epoch <- c14,
    Tenants <- {"A"}, Talents <- {"x", "y"}, Syncs <- {"s1"}, Hydrators <- {"h1"},
    ServerOf <- OwnServers, Kinds <- {"create"}, Events <- {}, Modes <- {"sync"},
    Faults <- {"insert"}, MaxOps <- 1, MaxCrashes <- 0

Pairs == INSTANCE Matching WITH
    status <- c1, lastMatched <- c2, pools <- c3, matches <- c4,
    tasks <- c5, sync <- c6, hydration <- c7, sweep <- c8, strays <- c9,
    inserted <- c10, announced <- c11, ops <- c12, crashes <- c13,
    epoch <- c14,
    Tenants <- {"A"}, Talents <- {"x"}, Syncs <- {"s1"}, Hydrators <- {"h1", "h2"},
    ServerOf <- OwnServers, Kinds <- {"create"}, Events <- {"close"},
    Modes <- {"sync"}, Faults <- {"insert", "vance"}, MaxOps <- 2, MaxCrashes <- 0

Edits == INSTANCE Matching WITH
    status <- c1, lastMatched <- c2, pools <- c3, matches <- c4,
    tasks <- c5, sync <- c6, hydration <- c7, sweep <- c8, strays <- c9,
    inserted <- c10, announced <- c11, ops <- c12, crashes <- c13,
    epoch <- c14,
    Tenants <- {"A"}, Talents <- {"x"}, Syncs <- {"s1"}, Hydrators <- {"h1"},
    ServerOf <- OneServer, Kinds <- {"edit", "saved"}, Events <- {"close"},
    Modes <- {"sync"}, Faults <- {"throw"}, MaxOps <- 3, MaxCrashes <- 0

Redone == INSTANCE Matching WITH
    status <- c1, lastMatched <- c2, pools <- c3, matches <- c4,
    tasks <- c5, sync <- c6, hydration <- c7, sweep <- c8, strays <- c9,
    inserted <- c10, announced <- c11, ops <- c12, crashes <- c13,
    epoch <- c14,
    Tenants <- {"A", "B"}, Talents <- {"x"}, Syncs <- {"s1"}, Hydrators <- {"h1"},
    ServerOf <- OneServer, Kinds <- {"edit"}, Events <- {}, Modes <- {"sync"},
    Faults <- {}, MaxOps <- 2, MaxCrashes <- 0

Resync == INSTANCE Matching WITH
    status <- c1, lastMatched <- c2, pools <- c3, matches <- c4,
    tasks <- c5, sync <- c6, hydration <- c7, sweep <- c8, strays <- c9,
    inserted <- c10, announced <- c11, ops <- c12, crashes <- c13,
    epoch <- c14,
    Tenants <- {"A", "B"}, Talents <- {}, Syncs <- {"s1", "s2"}, Hydrators <- {},
    ServerOf <- OneServer, Kinds <- {"edit"}, Events <- {}, Modes <- {"sync"},
    Faults <- {}, MaxOps <- 2, MaxCrashes <- 0

Told == INSTANCE Matching WITH
    status <- c1, lastMatched <- c2, pools <- c3, matches <- c4,
    tasks <- c5, sync <- c6, hydration <- c7, sweep <- c8, strays <- c9,
    inserted <- c10, announced <- c11, ops <- c12, crashes <- c13,
    epoch <- c14,
    Tenants <- {"A"}, Talents <- {"x"}, Syncs <- {"s1"}, Hydrators <- {"h1", "h2"},
    ServerOf <- OneServer, Kinds <- {"create", "rerun"},
    Events <- {"archive", "restore"}, Modes <- {"async", "fallback"},
    Faults <- {"insert", "task"}, MaxOps <- 2, MaxCrashes <- 0

Settling == INSTANCE Matching WITH
    status <- c1, lastMatched <- c2, pools <- c3, matches <- c4,
    tasks <- c5, sync <- c6, hydration <- c7, sweep <- c8, strays <- c9,
    inserted <- c10, announced <- c11, ops <- c12, crashes <- c13,
    epoch <- c14,
    Tenants <- {"A"}, Talents <- {"x"}, Syncs <- {"s1"}, Hydrators <- {"h1"},
    ServerOf <- OneServer, Kinds <- {"rerun"}, Events <- {"stale"},
    Modes <- {"fallback"}, Faults <- {}, MaxOps <- 2, MaxCrashes <- 1

Serial == INSTANCE Pipeline WITH
    stages <- c1, entry <- c2, revealed <- c3, ever <- c4, request <- c5,
    ops <- c6,
    Recruiters <- {"a"}, Matches <- {"m"}, Talent <- ("m" :> "t"),
    Tenant <- ("m" :> "A"), Defaults <- ThreeStages, LegacyKey <- Legacy(3),
    Requests <- {"r1"},
    Kinds <- {"open", "add", "rename", "up", "down", "remove", "move", "legacy", "reveal"},
    MaxStages <- 4, MaxOps <- 4

Gated == INSTANCE Pipeline WITH
    stages <- c1, entry <- c2, revealed <- c3, ever <- c4, request <- c5,
    ops <- c6,
    Recruiters <- {"a"}, Matches <- {"m"}, Talent <- ("m" :> "t"),
    Tenant <- ("m" :> "A"), Defaults <- TwoStages, LegacyKey <- Legacy(2),
    Requests <- {"r1", "r2"},
    Kinds <- {"add", "up", "down", "move", "reveal", "expire"}, MaxStages <- 3,
    MaxOps <- 4

Cards == INSTANCE Pipeline WITH
    stages <- c1, entry <- c2, revealed <- c3, ever <- c4, request <- c5,
    ops <- c6,
    Recruiters <- {"a"}, Matches <- {"m"}, Talent <- ("m" :> "t"),
    Tenant <- ("m" :> "A"), Defaults <- TwoStages, LegacyKey <- Legacy(2),
    Requests <- {"r1", "r2"},
    Kinds <- {"open", "add", "rename", "remove", "up", "move", "legacy", "reveal"},
    MaxStages <- 4, MaxOps <- 3

Board == INSTANCE PipelineBoard WITH
    stages <- c1, entry <- c2, revealed <- c3, ever <- c4, request <- c5,
    ops <- c6, columns <- c7, cards <- c8, override <- c9, pending <- c10,
    calls <- c11, answer <- c12,
    Recruiters <- {"a"}, Matches <- {"m", "n"}, Talent <- OwnTalent,
    Tenant <- OwnPool, Defaults <- ThreeStages, LegacyKey <- Legacy(3),
    Requests <- {"r1"}, Kinds <- {"reveal", "expire"}, MaxStages <- 3, MaxOps <- 6,
    Viewer <- "a", Slot <- "r1", Confirm <- FALSE

Colleagues == INSTANCE PipelineBoard WITH
    stages <- c1, entry <- c2, revealed <- c3, ever <- c4, request <- c5,
    ops <- c6, columns <- c7, cards <- c8, override <- c9, pending <- c10,
    calls <- c11, answer <- c12,
    Recruiters <- {"a"}, Matches <- {"m"}, Talent <- ("m" :> "t"),
    Tenant <- ("m" :> "A"), Defaults <- ThreeStages, LegacyKey <- Legacy(3),
    Requests <- {"r1", "r2"},
    Kinds <- {"add", "remove", "up", "down", "reveal", "expire", "legacy"},
    MaxStages <- 4, MaxOps <- 3, Viewer <- "a", Slot <- "r1", Confirm <- TRUE

Watched == INSTANCE MatchPoller WITH
    match <- c1, access <- c2, page <- c3, render <- c4, panel <- c5,
    poll <- c6, kick <- c7,
    MaxPolls <- 3, MaxMatches <- 2, MaxRuns <- 1, Retranslates <- FALSE

Again == INSTANCE MatchPoller WITH
    match <- c1, access <- c2, page <- c3, render <- c4, panel <- c5,
    poll <- c6, kick <- c7,
    MaxPolls <- 2, MaxMatches <- 1, MaxRuns <- 2, Retranslates <- FALSE

Hiding == INSTANCE StaffingRules WITH
    rules <- c1, made <- c2, page <- c3, call <- c4, run <- c5,
    ever <- c6, always <- c7,
    Tabs <- {"t1"}, Typed <- RulesTyped, Slugs <- {"jobdigger", "pool", "partner"},
    Feeds <- {"jobdigger"}, Jobs <- {"far", "both", "ours"}, Own <- {"ours"},
    Offers <- Offered, Listed <- ListRows, Detail <- Details, MaxSources <- 2,
    EnrichLimit <- 2, Threshold <- 1, MaxRules <- 2

TwoFeeds == INSTANCE StaffingRules WITH
    rules <- c1, made <- c2, page <- c3, call <- c4, run <- c5,
    ever <- c6, always <- c7,
    Tabs <- {"t1"}, Typed <- OneRule, Slugs <- {"jobdigger", "indeed", "pool"},
    Feeds <- {"jobdigger", "indeed"}, Jobs <- {"far", "both", "ours"},
    Own <- {"ours"}, Offers <- OfferedTwo, Listed <- ListRows, Detail <- Details,
    MaxSources <- 1, EnrichLimit <- 2, Threshold <- 1, MaxRules <- 1

TwoTabs == INSTANCE StaffingRules WITH
    rules <- c1, made <- c2, page <- c3, call <- c4, run <- c5,
    ever <- c6, always <- c7,
    Tabs <- {"t1", "t2"}, Typed <- OneRule, Slugs <- {"pool"}, Feeds <- {},
    Jobs <- {}, Own <- {}, Offers <- ("pool" :> <<>>), Listed <- ListRows,
    Detail <- Details, MaxSources <- 2, EnrichLimit <- 2, Threshold <- 1,
    MaxRules <- 1

Listing == INSTANCE MatchScores WITH
    answers <- c1, merged <- c2, graded <- c3, toGrade <- c4, rows <- c5,
    calls <- c6, panel <- c7, shown <- c8, stage <- c9, faults <- c10,
    Jobs <- {"own", "near", "feed", "far"}, Own <- {"own"}, Answers <- Rankings,
    Real <- RealScores, Required <- SkillsAsked, Has <- {1}, EnrichLimit <- 4,
    TopN <- 2, MaxOpens <- 2, MaxFaults <- 1

Panels == INSTANCE MatchScores WITH
    answers <- c1, merged <- c2, graded <- c3, toGrade <- c4, rows <- c5,
    calls <- c6, panel <- c7, shown <- c8, stage <- c9, faults <- c10,
    Jobs <- {"own", "near", "feed", "far"}, Own <- {"own"}, Answers <- OneRanking,
    Real <- RealScores, Required <- SkillsAsked, Has <- {1}, EnrichLimit <- 4,
    TopN <- 2, MaxOpens <- 2, MaxFaults <- 3

Form == INSTANCE ProjectForm WITH
    project <- c1, job <- c2, form <- c3, pin <- c4, failed <- c5,
    lookups <- c6, save <- c7, kept <- c8, edits <- c9, looked <- c10,
    saves <- c11,
    Skills <- {"s1", "s2", "s3"}, MinSkills <- 2, MaxSkills <- 2,
    Languages <- {"nl"}, MaxLanguages <- 1, Pools <- {"p1", "p2"}, Levels <- {1},
    Years <- {3}, Spots <- {"a", "b", "sea"}, CityAt <- CityOf,
    Suggestions <- OnePlace, Patient <- TRUE, MaxEdits <- 2, MaxLookups <- 0,
    MaxSaves <- 2

FormPlaces == INSTANCE ProjectForm WITH
    project <- c1, job <- c2, form <- c3, pin <- c4, failed <- c5,
    lookups <- c6, save <- c7, kept <- c8, edits <- c9, looked <- c10,
    saves <- c11,
    Skills <- {"s1", "s2"}, MinSkills <- 2, MaxSkills <- 2, Languages <- {},
    MaxLanguages <- 1, Pools <- {"p1"}, Levels <- {1}, Years <- {0},
    Spots <- {"a", "b", "sea"}, CityAt <- CityOf, Suggestions <- TwoPlaces,
    Patient <- FALSE, MaxEdits <- 1, MaxLookups <- 2, MaxSaves <- 1

ASSUME PartsAssumption ==
    /\ Stored!MatchingAssumption
    /\ Pairs!MatchingAssumption
    /\ Edits!MatchingAssumption
    /\ Redone!MatchingAssumption
    /\ Resync!MatchingAssumption
    /\ Told!MatchingAssumption
    /\ Settling!MatchingAssumption
    /\ Serial!PipelineAssumption
    /\ Gated!PipelineAssumption
    /\ Cards!PipelineAssumption
    /\ Board!BoardAssumption
    /\ Colleagues!BoardAssumption

-----------------------------------------------------------------------------
(* A behaviour is one of one part; the variables that it does not use keep  *)
(* still.                                                                    *)

Idle14 == c14 = 0
Idle13 == c13 = 0 /\ Idle14
Idle12 == c12 = 0 /\ Idle13
Idle11 == c11 = 0 /\ Idle12
Idle10 == c10 = 0 /\ Idle11
Idle9 == c9 = 0 /\ Idle10
Idle8 == c8 = 0 /\ Idle9
Idle7 == c7 = 0 /\ Idle8
Idle6 == c6 = 0 /\ Idle7
Idle5 == c5 = 0 /\ Idle6
Idle4 == c4 = 0 /\ Idle5
Idle3 == c3 = 0 /\ Idle4
Idle2 == c2 = 0 /\ Idle3
Idle1 == c1 = 0 /\ Idle2
Rest14 == <<c14>>
Rest13 == <<c13, Rest14>>
Rest12 == <<c12, Rest13>>
Rest11 == <<c11, Rest12>>
Rest10 == <<c10, Rest11>>
Rest9 == <<c9, Rest10>>
Rest8 == <<c8, Rest9>>
Rest7 == <<c7, Rest8>>
Rest6 == <<c6, Rest7>>
Rest5 == <<c5, Rest6>>
Rest4 == <<c4, Rest5>>
Rest3 == <<c3, Rest4>>
Rest2 == <<c2, Rest3>>
Rest1 == <<c1, Rest2>>

benchVars == <<part, Rest1>>

BenchInit ==
    /\ part \in Parts
    /\ \/ part = "stored" /\ Stored!MatchingInit
       \/ part = "pairs" /\ Pairs!MatchingInit
       \/ part = "edits" /\ Edits!MatchingInit
       \/ part = "edits_pools" /\ Redone!MatchingInit
       \/ part = "resync" /\ Resync!MatchingInit
       \/ part = "announced" /\ Told!MatchingInit
       \/ part = "settling" /\ Settling!MatchingInit
       \/ part = "pipeline" /\ Serial!PipelineInit /\ Idle7
       \/ part = "pipeline_gated" /\ Gated!PipelineInit /\ Idle7
       \/ part = "pipeline_cards" /\ Cards!PipelineInit /\ Idle7
       \/ part = "board" /\ Board!BoardInit /\ Idle13
       \/ part = "board_shared" /\ Colleagues!BoardInit /\ Idle13
       \/ part = "watched" /\ Watched!MatchPollerInit /\ Idle8
       \/ part = "watched_again" /\ Again!MatchPollerInit /\ Idle8
       \/ part = "rules" /\ Hiding!Init /\ Idle8
       \/ part = "rules_feeds" /\ TwoFeeds!Init /\ Idle8
       \/ part = "rules_tabs" /\ TwoTabs!Init /\ Idle8
       \/ part = "scores" /\ Listing!ScoresInit /\ Idle11
       \/ part = "panels" /\ Panels!ScoresInit /\ Idle11
       \/ part = "form" /\ Form!ProjectFormInit /\ Idle12
       \/ part = "form_places" /\ FormPlaces!ProjectFormInit /\ Idle12
BenchNext ==
    \/ part = "stored" /\ Stored!MatchingNext /\ UNCHANGED <<part>>
    \/ part = "pairs" /\ Pairs!MatchingNext /\ UNCHANGED <<part>>
    \/ part = "edits" /\ Edits!MatchingNext /\ UNCHANGED <<part>>
    \/ part = "edits_pools" /\ Redone!MatchingNext /\ UNCHANGED <<part>>
    \/ part = "resync" /\ Resync!MatchingNext /\ UNCHANGED <<part>>
    \/ part = "announced" /\ Told!MatchingNext /\ UNCHANGED <<part>>
    \/ part = "settling" /\ Settling!MatchingNext /\ UNCHANGED <<part>>
    \/ part = "pipeline" /\ Serial!PipelineNext /\ UNCHANGED <<part, Rest7>>
    \/ part = "pipeline_gated" /\ Gated!PipelineNext /\ UNCHANGED <<part, Rest7>>
    \/ part = "pipeline_cards" /\ Cards!PipelineNext /\ UNCHANGED <<part, Rest7>>
    \/ part = "board" /\ Board!BoardNext /\ UNCHANGED <<part, Rest13>>
    \/ part = "board_shared" /\ Colleagues!BoardNext /\ UNCHANGED <<part, Rest13>>
    \/ part = "watched" /\ Watched!MatchPollerNext /\ UNCHANGED <<part, Rest8>>
    \/ part = "watched_again" /\ Again!MatchPollerNext /\ UNCHANGED <<part, Rest8>>
    \/ part = "rules" /\ Hiding!Next /\ UNCHANGED <<part, Rest8>>
    \/ part = "rules_feeds" /\ TwoFeeds!Next /\ UNCHANGED <<part, Rest8>>
    \/ part = "rules_tabs" /\ TwoTabs!Next /\ UNCHANGED <<part, Rest8>>
    \/ part = "scores" /\ Listing!ScoresNext /\ UNCHANGED <<part, Rest11>>
    \/ part = "panels" /\ Panels!ScoresNext /\ UNCHANGED <<part, Rest11>>
    \/ part = "form" /\ Form!ProjectFormNext /\ UNCHANGED <<part, Rest12>>
    \/ part = "form_places" /\ FormPlaces!ProjectFormNext /\ UNCHANGED <<part, Rest12>>

BenchSpec == BenchInit /\ [][BenchNext]_benchVars

\* The cron keeps sweeping, and a match that nobody touches grows stale.
FairMatching ==
    /\ BenchSpec
    /\ WF_benchVars(part = "settling" /\ Settling!SweepNext /\ UNCHANGED <<part>>)
    /\ WF_benchVars(part = "settling" /\ Settling!GrowStale("A") /\ UNCHANGED <<part>>)

\* A move that was sent is answered, the timers of the panel that watches a match end and
\* its page is rendered, a match ends, and the calls of a vacancy's panel are answered.
FairBoard ==
    /\ BenchSpec
    /\ WF_benchVars(part = "board" /\ Board!CallHandling /\ UNCHANGED <<part, Rest13>>)
    /\ WF_benchVars(part = "watched" /\ Watched!PanelStep /\ UNCHANGED <<part, Rest8>>)
    /\ WF_benchVars(part = "watched" /\ Watched!PageStep /\ UNCHANGED <<part, Rest8>>)
    /\ WF_benchVars(part = "watched" /\ Watched!Settle /\ UNCHANGED <<part, Rest8>>)
    /\ \A c \in 1..2 : WF_benchVars(part = "panels" /\ Panels!AnswerCall(c) /\ UNCHANGED <<part, Rest11>>)

-----------------------------------------------------------------------------
(* Properties.                                                               *)

\* A pool becomes READY only with a row for every result that was fetched, and no row is
\* announced twice by one server, whatever hydrations, edits, failed inserts and reruns
\* overlap (runHydrate, hydrateResultRows and notifyOwner).
NothingLostNorTwice ==
    /\ part = "stored" => Stored!MatchingTypeOK /\ Stored!NothingLost
    /\ part = "pairs" => Pairs!MatchingTypeOK /\ Pairs!NothingLost
    /\ part = "edits_pools" => Redone!MatchingTypeOK /\ Redone!NothingLost
    /\ part = "edits" => Edits!MatchingTypeOK /\ Edits!NothingLost
    /\ part = "resync" => Resync!MatchingTypeOK
    /\ part = "announced" => Told!AnnouncedOnce



\* Where no true score is at the boundary of fraction and percent and all jobs are
\* enriched, a listed score is a true or a given one, the best sources are kept, and a
\* panel shows its own job; a vacancy is hidden exactly for a rule that was in force
\* and matched it, and never if it is the tenant's own (mergeMatches, enrichTop, openJob,
\* and classify).
RowsAreTrue ==
    /\ part = "scores" => /\ Listing!TypeOK /\ Listing!NoFakeScore /\ Listing!SourceKept
                          /\ Listing!HeadGraded /\ Listing!OneScale /\ Listing!SortedAsShown
    /\ part = "panels" => Panels!DetailShown /\ Panels!MatchedTrue /\ Panels!OwnAnswer
    /\ part = "rules" => /\ Hiding!TypeOK /\ Hiding!Caught /\ Hiding!Explained
                         /\ Hiding!OwnNever /\ Hiding!FeedsFirst
    /\ part = "rules_feeds" => TwoFeeds!FeedsFirst /\ TwoFeeds!Caught

\* What the form lets through can be matched, every job asks for what is stored, and the
\* city and the point of a place belong together (the project's edit form and the sync).
FormIsMatchable ==
    /\ part = "form" => Form!TypeOK /\ Form!SavedIsMatchable /\ Form!JobAsStored
    /\ part = "form_places" => FormPlaces!PlaceOfOnePiece


\* No pool stays MATCHING for ever, although syncs and hydrations crash between any two
\* steps (sweepStaleProjectPools).
MatchingEnds == []<>~(part = "settling" /\ Settling!PoolMatching("A"))

\* Every move on the board is settled; who watches a match sees it out; and a panel that
\* stays open gets its answer.
CallsEnd ==
    /\ []<>~(part = "board" /\ Board!MovesPending)
    /\ []<>~(part = "watched" /\ Watched!Watching)
    /\ \A n \in 1..2 : []<>~(part = "panels" /\ Panels!Waits(n))
=============================================================================
