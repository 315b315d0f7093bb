---------------------------- MODULE CandidateMatch ----------------------------
(* The match runs of one candidate: a run is created MATCHING, executed in the *)
(* background of some request that claims it, swept when it is older than six  *)
(* minutes, and watched by the pollers of match pages. After the run of an     *)
(* onboarding its jobs are injected as matches into the projects of the        *)
(* organization. Runs are numbered in the order of their creation.             *)
EXTENDS Naturals, FiniteSets, Sequences

CONSTANTS Execs,        \* background executions at a time
          Tabs,         \* open match pages
          MaxRuns,      \* runs created
          Feeds,        \* large open-market feeds of the talent
          OwnSources,   \* the other sources of the talent
          MaxSources,   \* MAX_SOURCES
          Requests,     \* selections of sources, {} for all
          MaxPolls,     \* polls of one poller
          MaxFaults     \* crashes, failing executions and reads, unlinked talents

MatchAssumption ==
    /\ {MaxRuns, MaxSources, MaxPolls, MaxFaults} \subseteq Nat /\ MaxPolls # 0
    /\ "all sources" \notin Feeds \union OwnSources

VARIABLES runs,         \* the CandidateMatchRun rows
          linked,       \* the candidate has a talent in the pool
          injected,     \* the run whose score the projects show, 0 for none
          exec,         \* background executions
          tab,          \* match pages and their pollers
          faults

vars == <<runs, linked, injected, exec, tab, faults>>

\* The pass over every source at once, [] in the code.
AllSources == "all sources"
None == 0

NewRun(requested, follow) ==
    [status |-> "MATCHING", claimed |-> FALSE, age |-> "young", requested |-> requested,
     follow |-> follow, inserts |-> 0, hits |-> {}, warned |-> {}, done |-> 0]

IdleExec == [pc |-> "idle", run |-> 0, follow |-> FALSE, attempted |-> {}, passes |-> {},
             bounded |-> FALSE, hits |-> {}, warned |-> {}, prev |-> {}]
Closed == [pc |-> "closed", polls |-> 0, since |-> 0, shown |-> "none"]

MatchInit ==
    /\ runs = <<>>
    /\ linked = TRUE
    /\ injected = None
    /\ exec = [e \in Execs |-> IdleExec]
    /\ tab = [t \in Tabs |-> Closed]
    /\ faults = 0

Fault == faults < MaxFaults /\ faults' = faults + 1

Start(e, n, follow) ==
    exec' = [exec EXCEPT ![e] = [IdleExec EXCEPT !.pc = "claim", !.run = n, !.follow = follow]]

After(e) ==
    IF exec[e].follow THEN [IdleExec EXCEPT !.pc = "inject", !.follow = TRUE, !.run = exec[e].run]
    ELSE IdleExec

Settled(r) == r.status # "MATCHING"
LatestRun == Len(runs)
StatusShown == IF runs = <<>> THEN "none" ELSE runs[LatestRun].status
Completed == 1 + Cardinality({n \in DOMAIN runs : runs[n].done > 0})

-----------------------------------------------------------------------------
(* Creating and executing a run. *)

\* createMatchRun by a rematch, or by an onboarding whose jobs are injected.
CreateRun(e) ==
    /\ exec[e].pc = "idle" /\ linked /\ Len(runs) < MaxRuns
    /\ \E requested \in Requests, follow \in BOOLEAN :
         /\ runs' = Append(runs, NewRun(requested, follow))
         /\ Start(e, Len(runs) + 1, follow)
    /\ UNCHANGED <<linked, injected, tab, faults>>

ClaimableTwice(r) == r.status = "MATCHING"
Claimable(r) == r.status = "MATCHING" /\ ~r.claimed

ClaimRun(e) ==
    /\ exec[e].pc = "claim"
    /\ IF Claimable(runs[exec[e].run])
       THEN /\ runs' = [runs EXCEPT ![exec[e].run].claimed = TRUE]
            /\ exec' = [exec EXCEPT ![e].pc = "plan"]
       ELSE /\ exec' = [exec EXCEPT ![e] = After(e)]
            /\ UNCHANGED runs
    /\ UNCHANGED <<linked, injected, tab, faults>>

\* The sources to match: the selection if it is available, feeds before the
\* others, and no more than MaxSources of them, in an order that is not stable.
Attempts(requested, available) ==
    LET raw == IF requested \intersect available # {} THEN requested \intersect available
               ELSE available
        size == IF Cardinality(raw) < MaxSources THEN Cardinality(raw) ELSE MaxSources
    IN  {a \in SUBSET raw : Cardinality(a) = size
                            /\ (a \ Feeds # {} => raw \intersect Feeds \subseteq a)}

\* A feed only with a location; all sources at once only when none is a feed.
Passes(available, attempted, located) ==
    {s \in attempted : s \in Feeds => located}
        \union IF available \intersect Feeds = {} THEN {AllSources} ELSE {}

\* A failed read of the talent's sources leaves the list empty.
Plan(e) ==
    /\ exec[e].pc = "plan" /\ linked
    /\ \E available \in {Feeds \union OwnSources, {}}, located \in BOOLEAN :
         /\ IF available = {} THEN Fault ELSE UNCHANGED faults
         /\ \E attempted \in Attempts(runs[exec[e].run].requested, available) :
              exec' = [exec EXCEPT ![e].pc = "match", ![e].attempted = attempted,
                                   ![e].bounded = located,
                                   ![e].passes = Passes(available, attempted, located)]
    /\ UNCHANGED <<runs, linked, injected, tab>>

\* Every pass yields jobs, yields none or fails and is skipped.
MatchSources(e) ==
    /\ exec[e].pc = "match"
    /\ \E hits \in SUBSET exec[e].passes :
         exec' = [exec EXCEPT ![e].pc = "insert", ![e].hits = hits]
    /\ UNCHANGED <<runs, linked, injected, tab, faults>>

InsertJobs(e) ==
    /\ exec[e].pc = "insert"
    /\ runs' = IF exec[e].hits = {} THEN runs
               ELSE [runs EXCEPT ![exec[e].run].inserts = @ + 1,
                                 ![exec[e].run].hits = exec[e].hits]
    /\ exec' = [exec EXCEPT ![e].pc = "compare"]
    /\ UNCHANGED <<linked, injected, tab, faults>>

\* The run that was READY last, by the time of its completion.
Previous(n) ==
    {m \in DOMAIN runs \ {n} : /\ runs[m].status = "READY"
                               /\ \A k \in DOMAIN runs \ {n} :
                                    runs[k].status = "READY" => runs[k].done <= runs[m].done}

Warned(attempted, hits, before) == ((attempted \intersect Feeds) \ hits) \intersect before

HitsOf(ms) == UNION {runs[m].hits : m \in ms}

\* The read of that run is best effort: without it nothing is warned about.
Compare(e) ==
    /\ exec[e].pc = "compare"
    /\ \/ /\ exec' = [exec EXCEPT ![e].pc = "ready", ![e].prev = Previous(exec[e].run),
                                  ![e].warned = Warned(exec[e].attempted, exec[e].hits,
                                                       HitsOf(Previous(exec[e].run)))]
          /\ UNCHANGED faults
       \/ /\ Fault
          /\ exec' = [exec EXCEPT ![e].pc = "ready", ![e].prev = {}, ![e].warned = {}]
    /\ UNCHANGED <<runs, linked, injected, tab>>

\* The run becomes READY whatever a sweep has made of it.
Ready(e) ==
    /\ exec[e].pc = "ready"
    /\ runs' = [runs EXCEPT ![exec[e].run].status = "READY",
                            ![exec[e].run].warned = exec[e].warned,
                            ![exec[e].run].done = Completed]
    /\ exec' = [exec EXCEPT ![e] = After(e)]
    /\ UNCHANGED <<linked, injected, tab, faults>>

\* The candidate is not matchable, or the execution throws.
FailRun(e) ==
    /\ \/ exec[e].pc = "plan" /\ ~linked /\ UNCHANGED faults
       \/ exec[e].pc \in {"plan", "match", "insert", "ready"} /\ linked /\ Fault
    /\ runs' = [runs EXCEPT ![exec[e].run].status = "FAILED",
                            ![exec[e].run].done = Completed]
    /\ exec' = [exec EXCEPT ![e] = After(e)]
    /\ UNCHANGED <<linked, injected, tab>>

\* The newest READY run gives the score, if it has jobs.
Newest == {n \in DOMAIN runs : /\ runs[n].status = "READY"
                               /\ \A m \in DOMAIN runs : runs[m].status = "READY" => m <= n}

ReadInjection(e) ==
    /\ exec[e].pc = "inject"
    /\ \/ \E n \in Newest : /\ linked /\ runs[n].hits # {}
                            /\ exec' = [exec EXCEPT ![e] = [@ EXCEPT !.pc = "upsert", !.run = n]]
       \/ /\ ~linked \/ \A n \in Newest : runs[n].hits = {}
          /\ exec' = [exec EXCEPT ![e] = IdleExec]
    /\ UNCHANGED <<runs, linked, injected, tab, faults>>

Inject(e) ==
    /\ exec[e].pc = "upsert"
    /\ injected' = exec[e].run
    /\ exec' = [exec EXCEPT ![e] = IdleExec]
    /\ UNCHANGED <<runs, linked, tab, faults>>

Crash(e) ==
    /\ exec[e].pc # "idle"
    /\ Fault
    /\ exec' = [exec EXCEPT ![e] = IdleExec]
    /\ UNCHANGED <<runs, linked, injected, tab>>

ExecStep(e) ==
    \/ ClaimRun(e) \/ Plan(e) \/ MatchSources(e) \/ InsertJobs(e) \/ Compare(e) \/ Ready(e)
    \/ (exec[e].pc = "plan" /\ ~linked /\ FailRun(e))
    \/ ReadInjection(e) \/ Inject(e)

-----------------------------------------------------------------------------
(* Time and the pool. *)

\* Six minutes after its creation a run counts as orphaned: nothing bounds an execution.
Age(n) ==
    /\ runs[n].age = "young" /\ runs[n].status = "MATCHING"
    /\ runs' = [runs EXCEPT ![n].age = "old"]
    /\ UNCHANGED <<linked, injected, exec, tab, faults>>

SweptYoung(r) ==
    IF r.status = "MATCHING" THEN [r EXCEPT !.status = "FAILED"] ELSE r
Swept(r) ==
    IF r.status = "MATCHING" /\ r.age = "old" THEN [r EXCEPT !.status = "FAILED"] ELSE r

SweptRuns == [n \in DOMAIN runs |-> LET s == Swept(runs[n]) IN
                IF s = runs[n] THEN s ELSE [s EXCEPT !.done = Completed]]

\* The clean-up cron and the list of candidates sweep too.
Sweep ==
    /\ runs # SweptRuns
    /\ runs' = SweptRuns
    /\ UNCHANGED <<linked, injected, exec, tab, faults>>

\* reconcileTalentLink finds that 8vance lost the talent.
Unlink ==
    /\ linked /\ Fault
    /\ linked' = FALSE
    /\ UNCHANGED <<runs, injected, exec, tab>>

-----------------------------------------------------------------------------
(* The match page and its poller. *)

\* The page shows the newest run; while it is MATCHING a poller is mounted,
\* which triggers the execution once.
OpenTab(t) ==
    /\ tab[t].pc = "closed" /\ runs # <<>>
    /\ tab' = [tab EXCEPT ![t] = [pc |-> IF StatusShown = "MATCHING" THEN "trigger" ELSE "closed",
                                  polls |-> 0, since |-> LatestRun, shown |-> StatusShown]]
    /\ UNCHANGED <<runs, linked, injected, exec, faults>>

Trigger(t) ==
    /\ tab[t].pc = "trigger"
    /\ tab' = [tab EXCEPT ![t].pc = "poll"]
    /\ LET open == {n \in DOMAIN runs : runs[n].status = "MATCHING"}
       IN  \/ \E e \in Execs, n \in open : /\ \A m \in open : m <= n
                                           /\ exec[e].pc = "idle"
                                           /\ Start(e, n, FALSE)
           \/ /\ open = {} \/ \A e \in Execs : exec[e].pc # "idle"
              /\ UNCHANGED exec
    /\ UNCHANGED <<runs, linked, injected, faults>>

\* The last poll comes more than six minutes after the poller was mounted.
LastPoll(t) == tab[t].polls + 1 = MaxPolls
Aged(n) == runs[n].age = "old" \/ Settled(runs[n])

\* match-status sweeps, then answers for the newest run. The poller refreshes
\* the page when the run is settled and after its last poll.
Poll(t) ==
    /\ tab[t].pc = "poll"
    /\ LastPoll(t) => \A n \in 1..tab[t].since : Aged(n)
    /\ runs' = SweptRuns
    /\ tab' = [tab EXCEPT ![t].polls = @ + 1,
                          ![t].pc = IF Settled(SweptRuns[LatestRun]) \/ LastPoll(t)
                                    THEN "refresh" ELSE "poll"]
    /\ UNCHANGED <<linked, injected, exec, faults>>

Refresh(t) ==
    /\ tab[t].pc = "refresh"
    /\ tab' = [tab EXCEPT ![t].pc = IF StatusShown = "MATCHING" THEN "still" ELSE "closed",
                          ![t].shown = StatusShown]
    /\ UNCHANGED <<runs, linked, injected, exec, faults>>

TabStep(t) == Trigger(t) \/ Poll(t) \/ Refresh(t)
AgeRun(n) == n \in DOMAIN runs /\ Age(n)

MatchNext ==
    \/ \E e \in Execs : CreateRun(e) \/ ExecStep(e) \/ FailRun(e) \/ Crash(e)
    \/ \E t \in Tabs : OpenTab(t) \/ TabStep(t)
    \/ \E n \in DOMAIN runs : Age(n)
    \/ Sweep \/ Unlink

MatchSpec == MatchInit /\ [][MatchNext]_vars

\* Executions that are alive go on, polls come, and time passes.
LiveMatchSpec ==
    /\ MatchSpec
    /\ \A e \in Execs : WF_vars(ExecStep(e))
    /\ \A t \in Tabs : WF_vars(TabStep(t))
    /\ \A n \in 1..MaxRuns : WF_vars(AgeRun(n))

-----------------------------------------------------------------------------
(* Properties.                                                               *)

Sources == Feeds \union OwnSources

\* Types of every variable.
TypeOK ==
    /\ runs \in Seq([status : {"MATCHING", "READY", "FAILED"}, claimed : BOOLEAN,
                     age : {"young", "old"}, requested : Requests, follow : BOOLEAN,
                     inserts : Nat, hits : SUBSET (Sources \union {AllSources}),
                     warned : SUBSET Feeds, done : 0..(MaxRuns + 1)])
    /\ linked \in BOOLEAN
    /\ injected \in 0..Len(runs)
    /\ \A e \in Execs :
         /\ exec[e].pc \in {"idle", "claim", "plan", "match", "insert", "compare", "ready",
                            "inject", "upsert"}
         /\ exec[e].run \in 0..Len(runs)
         /\ exec[e].warned \subseteq Feeds
         /\ exec[e].hits \subseteq exec[e].passes
    /\ \A t \in Tabs :
         /\ tab[t].pc \in {"closed", "trigger", "poll", "refresh", "still"}
         /\ tab[t].polls \in 0..MaxPolls
         /\ tab[t].since \in 0..Len(runs)
    /\ faults \in 0..MaxFaults

\* The jobs of a run are stored once, although its creator and every poller try
\* to execute it (the claim of executeMatchRun).
RowsOnce == \A n \in DOMAIN runs : runs[n].inserts <= 1

\* A large feed is matched by its name only with a location, and within all sources
\* at once only by an execution that could not read a single source of the talent (the
\* guard of executeMatchRun that keeps 8vance's search up, and its fallback).
NeverUnbounded ==
    \A e \in Execs :
        exec[e].pc = "match" /\ Feeds # {} =>
            /\ AllSources \in exec[e].passes => exec[e].attempted = {}
            /\ exec[e].passes \intersect Feeds # {} => exec[e].bounded

\* A feed that was tried, had jobs in the last completed run and has none in this one
\* is warned about when this one completes, if its execution could read the last
\* completed run and no other run completed since it did.
LossIsWarned ==
    \A n \in DOMAIN runs, e \in Execs :
      /\ runs[n].status # "READY" /\ runs'[n].status = "READY"
      /\ exec[e].pc = "ready" /\ exec[e].run = n /\ exec[e].prev = Previous(n)
      => (HitsOf(Previous(n)) \intersect Feeds \intersect exec[e].attempted) \ runs[n].hits
             \subseteq runs'[n].warned

\* A settled run stays as it settled, but that a run which was failed for its age is
\* READY after all when the execution that had claimed it was alive and completes.
SettledForGood ==
    \A n \in DOMAIN runs : Settled(runs[n]) /\ runs'[n].status # runs[n].status =>
        /\ runs[n].status = "FAILED" /\ runs[n].age = "old" /\ runs'[n].status = "READY"
        /\ \E e \in Execs : exec[e].run = n /\ exec[e].pc = "ready" /\ exec'[e].pc # "ready"

\* Once the request of an onboarding has done its part and its run is the
\* newest completed one, the jobs of the run are in the projects (the comment of
\* syncAndMatch: "this candidate shows up immediately").
InjectedWhenDone ==
    \A n \in Newest :
        /\ runs[n].follow /\ runs[n].hits # {} /\ linked
        /\ \A e \in Execs : ~exec[e].follow
        => injected # None

\* A page that shows a run as MATCHING shows a settled one in the end, also
\* when the execution crashed or never began.
ShowsMatching(t) == tab[t].shown = "MATCHING"
=============================================================================
