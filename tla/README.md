# findtalent: specifications and proofs

findtalent is a Next.js application with which recruiters search the talent
pools of an external matching service (8vance). Candidates are shown
anonymized. A recruiter pays one credit to *reveal* a candidate and then holds
an exclusive lock on that candidate, in that pool, for 14 days. Credits come
from a Stripe subscription, which resets one bucket each billing period, or
from credit packs, which roll over. The other way round, a recruiter brings
candidates in (from a CV, a pool or a public application) and has them matched
with jobs.

This directory holds TLA+ modules of the parts that keep state across calls,
the TLC configurations that check them on small instances, and proofs, checked
by TLAPS, that hold for every instance.

    tlc -config MCReveal_race.cfg MCReveal.tla     # one run
    tlapm RevealProofs.tla                         # the proofs of one module

Paths below are relative to the repository's `src/`. `PROJECT.json` lists every
component with what is modelled of it, the source lines each definition stands
for, the runs, the hazards and the theorems.

## 1. The system

The server is a set of request handlers, server actions, cron routes and one
webhook on a single SQL database (`prisma/schema.prisma`), reached through
Prisma. There is no queue and no long-lived worker; what runs concurrently is
several calls of these functions at once, in one Node process or several, and
the background work that `after()` leaves behind. In the browser, React
components keep optimistic copies of what the server stores, and calls whose
answers come in any order.

| Component | State | Hard part |
|---|---|---|
| Credits: `lib/credits.ts`, `app/admin/users/actions.ts` | two buckets, ledger | conditional updates, idempotency keys |
| Reveal and lock: `lib/reveal/lock.ts`, the talent page's actions | `Reveal`, `RevealLock` | checks, a call of 8vance, then the transaction: what was read may be stale |
| Project lifecycle, deletion, erasure, clean-up, applications | `Project`, locks, matches | cascades, old clocks, find then create |
| Stripe webhook and checkout: `api/webhooks/stripe`, `lib/stripe` | events, billing fields, customers | duplicates, reordering, crashes, retries, open tabs |
| Matching and hydration: `lib/eightvance/job-sync.ts`, `lib/match/hydrate.ts`, saved searches | `ProjectPool`, `Match`, `Project.status` | long polls, overlapping hydrations, stale status written back |
| 8vance client: `lib/eightvance/{ratelimit,auth,client}.ts` | token bucket, tokens, Redis | promise chains, objects held over an await, retry budgets |
| Organizations and teams: `lib/org.ts`, `settings/team` | memberships | double creation, last owner |
| Pipeline and shortlist: `lib/pipeline.ts`, board, poller, grid | stages, cards, optimistic moves | reveal gate, refused moves, refreshes |
| Candidate module: `lib/candidate/*`, `app/app/candidates` | candidate, runs, profile, suggestions | claims that time out, whole JSON columns written back |
| Reading a CV: `lib/candidate/cv-ai.ts`, `resolve-skills.ts` | cache, joined calls | paid calls, failing models |
| Login throttle: `lib/login-ratelimit.ts` | failure windows | memory and store disagree |
| Travel, places, LRU caches | caches | failures kept for answers |
| Wizard, editor, forms, search fields | the state of one tab | late answers, drafts |
| Staffing-agency rules | the admin's table, verdicts | caps on what is read, which source a job keeps |

**Interaction.** A reveal runs the credit spend inside its own transaction
(`acquireReveal` calls `spendCreditOn` on the transaction client); the webhook
runs the grant and the reset inside its own; closing, deletion, erasure,
clean-up and ingest share the `Reveal`, `RevealLock` and `Match` tables with the
reveal. The webhook's `subscriptionStatus` is the soft gate that a reveal reads,
and the customer that checkout stores is how the webhook finds a user.
Hydration stores the matches that a reveal requires and the clean-up deletes;
the pipeline puts them on a board and asks for a reveal in gated stages. The
candidate module's sync creates talents through the 8vance client; its runs
classify jobs by the staffing rules and read preferences the portal wrote.

## 2. Modules

**Granularity.** The database is SQLite, so a `prisma.$transaction` of writes is
one step; an interactive transaction that awaits between a read and a write is
two where the order matters (`Teams`). Every other awaited query or call is a
step of its own, and the steps of different requests interleave freely. What a
request has read is kept in its process record, whose `at` or `pc` names what it
awaits next. A request that fails simply stops; what it has committed stays. In
the browser a step is an event handler with the rendering and the effects that
follow it; React batches the updates of one handler, so an updater sees the
state that the batch has reached while a handler sees that of its rendering.

Server and database:

| Module | Models | State and actions |
|---|---|---|
| `Credits` | the transactions on a credit account | two buckets, the sum of the ledger per user, used keys; `SpendCreditOn`, `GrantCredits`, `ResetSubscriptionCredits`, admin steps. A used key makes a grant a no-op, as the unique index does |
| `Reveal` (extends `Credits`) | `revealAction`, `acquireReveal`, close, reopen, deletion, erasure, clean-up, ingest | a process per request: gate, lock, shared, acquire. `AcquireReveal` is the whole transaction. Times are small integers; `ended` is a history variable; `Unlink` is the `ON DELETE SET NULL` of `RevealLock.revealId`, `LocksWithout` what `DeleteAccount` has to do itself because `RevealLock.userId` has no foreign key |
| `ExclusiveAccess` | what the lock table promises | `holder` per profile: acquire when nobody holds, release any set |
| `StripeWebhook` (extends `Credits`) | deliveries as processes, Stripe as environment | claim, status, handle, mark, reply; `Fault` anywhere. `Effect` names the business fact behind an event, `applied` counts the transactions for it |
| `Matching` | sync, hydration, sweep, saved searches, lifecycle edits of one project | pools, matches, 8vance's tasks; every await is a step, creations that outlive their rejected batch are `strays` |
| `Teams` | organizations, invitations, signup, removal, deletion | accounts, memberships; a request reads, checks, then writes in its transaction |
| `Pipeline`, `PipelineBoard` | stages and cards; the board a recruiter has open | the board's overrides, dialog and moves, served one at a time, on top of the server's actions |
| `RateLimiter` | `acquire` and `penalize` in several processes | bucket and promise queue of each, the window's counter and the penalty in Redis |
| `TokenCache` | `getToken`, refreshes, `VanceClient.request` | the entry objects of a heap, because a caller holds one over an await; commands on their way to Redis |
| `VanceCreate` | creating a talent or job with its rows | retries, recovery of the source, the concurrency limiter |
| `Onboarding` | a candidate's row, its link and its talent | syncs that claim the row, visits that repair it, submissions of the portal |
| `CandidateMatch` | match runs | creation, claim, execution, sweep, pollers, injection into projects |
| `CandidateProfile`, `TalentEdit` | note, suggestions, the scan that finds them, the editor's save | every editor reads the whole column and writes it back |
| `TalentPool` | imports and the pool's owner | a walk over numbered pages, batches, local look-ups |
| `MatchScores`, `StaffingRules` | merging, enriching, grading and classifying the rows of a run | two shapes of scores; rules as sequences of characters |
| `LoginThrottle` | gate and failures | memory per server beside a fixed window in the store |
| `Checkout` | clicks, sessions, customers | what the guard saw against when a session is paid |
| `TravelTimes`, `Geocoder` | batches over three providers; place look-up | caches, dialects that are learned, worldwide fall-back |
| `CvExtraction`, `SkillResolution` | reading a CV and looking its skills up | cache, joined calls, batches of searches |
| `Cache`, `LruCache` | the abstract cache and `lib/cache/lru.ts` with its overlapping callers | entries in order of use |

Browser:

| Module | Models | State and actions |
|---|---|---|
| `WizardDraft`, `SkillTiles` | the project wizard: steps, draft, submit; its suggestions | the tab's storage outlives the page; first, staged and late batches |
| `Autocomplete` | the search fields | pause, search, answer; the flag that suppresses the search of a pick |
| `ProjectForm` | the editor, its map, save and job creation | one tab; look-ups in any order |
| `MatchPoller`, `ShortlistGrid` | the panel over a running match; the cards | refreshes, optimistic favourites and moves, filters |
| `CandidateList`, `MatchFilters` | the pool's list with its selection; the filters over jobs | requests keyed by what they ask, rows that change under a filter |
| `CvIntake`, `Preferences` | the wizard's CV; radius and place from form to match | where each field comes from; three forms and the match's reading |

**Constants that restrict the environment.** Several modules take a constant that
says how the world behaves: `Serial` (`TalentPool`: imports one by one), `Patient`
(`ProjectForm`: the user waits), `Kind` (`Autocomplete`), `Retranslates`
(`MatchPoller`), `Streams` (`ShortlistGrid`), `RowLists` and `Facets`
(`MatchFilters`), `Ops` and `MaxSaves` (`TalentEdit`), `Answers`, `Real`
(`MatchScores`), `Origins`, `CvFirst` and the slides (`Preferences`), `Faults`
(`RateLimiter`, `TokenCache`, `Geocoder`), `Redis` (`RateLimiter`, `TokenCache`),
`Shared` (`LoginThrottle`).

**Variables that tell how it came about.** Where the code keeps a promise but for a
case that a user or a process can bring about at any time, the case is not left out:
a variable remembers it, and the property names it. `slips` (`Onboarding`) is the set
of creates that were lost or cut off, claims that were outlived and links that were
cleared unread; `raced` and the `seen` of a subscription (`Checkout`) tell which clicks
overlapped; `refused` look-ups (`Geocoder`), `doubts` (`CvIntake`), `drift`
(`ShortlistGrid`), `late` (`WizardDraft`), `early` (`CandidateList`), the `seen` of a
scan (`CandidateProfile`) do the same. No guard reads one of them. In `Teams` the ids
of memberships, which a removal deletes by, tell who joined when. Section 7 marks these properties *excepted* and lists what happens
beyond the others.

## 3. Runs

`MCServices`, `MCProjects`, `MCCandidates` and `MCScreens` are benches: the
components on one share no state, so a behaviour is one of a single *part*, an
instance of one component with the constants the bench gives it. A cfg names the
parts it checks. A property of a bench joins what the parts promise on one
subject; `part = "..." => ...` guards each conjunct, and the conjuncts are the
properties of the component's own module, commented there. Variables that a part
does not use stay at 0.

| Run | Instance | Shows |
|---|---|---|
| `credits` | 2 users, 1 key, buckets up to 2 | `LedgerReconciles`, `PackCreditsKept` under every transaction |
| `reveal_race` | 2 colleagues, 1 project; pairs of requests, a clean-up, an ingest | `SoldOnce`, `RevealHoldsLock`, `LockIsKept` |
| `reveal_orgs` | 2 organizations, 2 projects, 2 requests | `NoStrandedLock`; the lock table implements `ExclusiveAccess` |
| `reveal_closed` | 1 request, a project that is closed | the violation of section 7 that a run shows |
| `webhook_grants` | 4 events, 2 deliveries of each at once, 1 fault | `AckedIsApplied`, `GrantedOnce`, `PackGrantsAreBought` |
| `webhook_live` | 5 events, 1 fault | `EventuallyCompleted` |
| `services` | limiter over 1 and 2 processes that lose commands, crash and are penalized, tokens likewise, places that are refused, travel over three providers | pacing, no stuck refresh, true places, lessons kept, calls end |
| `accounts` | teams (concurrent with erasures, and serial), throttle (2 logins; one server, store), checkout in 2 tabs, onboarding (portal, legacy rows; 2 processes, 2 visits) | `Belongs` and the promises about logins, customers, talents and owners |
| `matching` | 1 and 2 pools, 2 results, 2 hydrations, edits, crashes, a saved search | nothing lost or announced twice; no pool stays MATCHING |
| `projects` | 2 recruiters, 3 cards, 2 pools; the poller; lists of 2-3 jobs; one form | board as stored, panel to its end, true rows, a form that can be matched |
| `candidates` | 2 runs, 2 executions, an editor, 2 recruiters beside a scan, a pool of 4, 2 CVs | runs once, profile kept, true intake, nothing hangs |
| `screens` | 2-3 keys, texts, pools, jobs per screen; rows that change under a filter; the cache with 3 keys, 2 callers | answers fit, forms keep, nothing lost, the LRU implements `Cache` |

The bounds, and why they are enough to meet the hazards:

* Clocks: `TTL = 1`, `MaxTime = 2` let a lock be taken, expire and be taken
  again with one tick left for a clean-up whose cutoff is old. `Grace = 0` makes
  the clean-up as aggressive as it can be. In `LoginThrottle` a window and a
  cooldown of 2 in 6 ticks end three times; in `RateLimiter` deadlines are relative.
* Actors: hazards are between one process and one other, so most parts have two
  of a kind; a third repeats the same steps. `Casts` of `MCReveal` names which
  processes run together: every pair of a request and another actor.
* Failures: one crash or fault needs one re-run to be seen, and the re-run of a
  re-run meets the same guards. Retry budgets are 1, so that the budgets can all
  be used up.
* `MaxOps`, `MaxEdits`, `MaxActs` and the like bound what users do to the length
  of the longest scenario the properties speak of (an edit, a refresh and a late
  answer, say), plus one or two.
* Fixed numbers of the code are scaled: `MaxPolls = 3` stands for 120 questions,
  `Batch` of tiles for 5, `Conc` for 6; the code only compares and steps by them.
  In `LoginThrottle` one key stands for address and account; in `StaffingRules`
  each built-in list is one pattern.

**Deadlock** is not checked (`CHECK_DEADLOCK FALSE`) because every instance really
stops: a story of events, edits and calls ends once it has been told, and
accounts may be deleted. That nobody waits for ever is what the liveness
properties say.

**Symmetry** over requests, and over deliveries, is used in safety runs of
`MCReveal` and `MCStripeWebhook` only.

## 4. Fairness

Weak fairness is assumed of steps that the runtime itself takes: a promise that
settles, a timer that fires, a server that runs what it accepted, time that
passes. Never of what a user does, and of failures never at all.

* `StripeWebhook`: the server runs a delivery (weak, `DeliveryStep`); Stripe
  repeats an event until it gets a 2xx (strong, `Deliver`, because a slot is busy
  again and again). Stripe gives up after about three days, so the result is
  about outages shorter than that.
* `Matching`: the cron calls the sweep (`SweepNext`) and a pool grows stale
  (`GrowStale`); hydrations and syncs may die at any step.
* `Onboarding`: a claim ages, a process takes the steps of the sync it runs, and
  the person who waits opens the page again (`Visit`, `VisitStep`).
* `CandidateMatch`: executions and pages take their steps and a run grows old
  (`ExecStep`, `TabStep`, `AgeRun`). A page counts its last poll after six
  minutes, as its schedule does, so a sweep finds the run old by then.
* `RateLimiter`: time (`Tick`) and a waiting acquire (`CallerStep`);
  `TokenCache`, `TravelTimes`, `VanceCreate` (`CallStep`, `RowStep`),
  `CvExtraction` (`CallEnds`, `LookEnds`), `SkillResolution`, `Geocoder`
  (`Answered`): every call is answered or fails, since each has a timeout.
* `PipelineBoard` (`CallHandling`), `MatchPoller` (`PanelStep`, `PageStep`,
  `Settle`), `MatchScores` (`AnswerCall`), `TalentEdit` (`SaveStep`),
  `CandidateProfile` (`PanelStep`), `CandidateList` (`FetchStep`, `PageStep`),
  `Autocomplete` (`SearchStep`), `SkillTiles` (`Calls`, `FloorPasses`): a call of
  the page is answered and a timer of it fires while the page stays open.

## 5. Proofs

**Credits** (proved in the module). `CreditTypeOK /\ LedgerReconciles` is
inductive: one lemma per transaction (`SpendInv`, `GrantInv`, ...), stated for
any context so that the proofs about reveals and the webhook cite them.
`PackCreditsKept` follows step by step.

**Reveal** (`RevealProofs`). The type invariant comes in four parts (credit
rows, flags, tables, processes), with one lemma per group of actions. The safety
properties are not inductive by themselves. Why an active lock and a live reveal
agree rests on three facts no property mentions, and the inductive invariant
`RevealInv` adds them:

* `FreshIds`: an id not yet used has no row, so a new reveal cannot be one that
  a lock or the history already points to;
* `LocksBounded`: no lock lies further in the future than `now + TTL`, so an
  acquire never shortens its holder's own lock;
* `CleanupPast`: a clean-up's cutoff is not in the future, so whatever it
  deletes has expired.

With them, `RevealHoldsLock`, `LockLinksOwnReveal` and `NoStrandedLock` are
preserved by the six kinds of steps that touch reveals or locks (`LockActions`
shows there are no others), one lemma each. `SoldOnce` is a consequence: two
reveals in force of one profile are both the one its single lock row points to.
`LocksAreKept` is the corresponding step property, and `LocksAreExclusive` shows
that the lock table implements `ExclusiveAccess`: an acquire finds nobody or is
a stutter of the holder, and every other step only releases.

**StripeWebhook** (`StripeWebhookProofs`). `AckedIsApplied` says of acknowledged
events that their work is committed, so `WebhookInv` has to follow the work from
the handler to the acknowledgement:

* `DeliveriesInv`: a delivery about to mark or to answer has its work committed,
  one about to answer has its event completed;
* `CompletedIsDone` and `AckedIsCompleted` carry that over to the rows, because
  what is committed stays: used keys stay used, counts only grow and a completed
  event is never reopened (`KeysGrow`, `CountsGrow`, `CompletedStays`), whatever
  a concurrent delivery or a crash does;
* `PeriodIsGranted`: the handler of an invoice does nothing when
  `creditsPeriodEnd` already names its period. That is only right if somebody
  granted that period, which needs `OwnCustomer`: the user found for the
  customer is the user the event is about.

`PackGrantsAlwaysBought` is the step property behind it: only the pack handler
raises the purchased bucket, for an emitted event whose key is still unused.

`PacksGrantedOnce` and `GrantedAlwaysOnce` are about counting: how often the
events that report one fact were applied. A pack is granted by the step that
uses its key, so the invariant `PacksOnce` ties the count to the key, for every
story. A period has no key: what protects it is `creditsPeriodEnd`, which
remembers one period only. `PeriodsOnce` therefore ties the count to that field
and holds where Stripe tells of one period of each user (`OnePeriodEach`, the
theorem's hypothesis). Across periods it is false: section 7, `AppliedOnce`.

**Teams** (`TeamsProofs`): `TeamsTypes`, and `TeamsBelong`: however the requests
of any number of users interleave, a user's primary organization is one the user
is a member of. The invariant adds what a request has read and not yet used.
`NobodyIsMoved` and `ErasureKeepsOthers` hold of overlapping requests too, with the one
case in which the code moves somebody, or erases what a colleague works with, as
their exception: the user, or the colleague, joined after the request had looked.
`Dated` relates the two times. Every membership row has an id, the ids grow, and
what a request has seen is older than its next step; so a membership that
the request did not see has a younger id than its reading.

**Matching** (proved in the module): `MatchingTypes` and `NothingIsLost`, for any
number of pools, talents, servers, syncs, hydrations and crashes. A hydration
works from a snapshot of the pool rows, and an edit may drop a pool with its matches
or bring it back while the hydration runs. `NothingLost` is about the end of a
pool's turn only; `Hydrated` says of every earlier step what has been stored so
far: of what was fetched, all but `todo` while the rows are inserted, all but
`left` while they are enriched. That survives the other processes by `PoolsKeep`:
ids of pool rows are never used again, so a row that has the id of the snapshot
after a step had it before, and kept its matches. `RowActions` shows which steps
write rows at all. `Started` (a task id names a started task) is what makes the
poll of a task defined.

`AlwaysAnnouncedOnce` has two hypotheses, both needed: all hydrations run in one
server process (`OneServer`; the in-flight map is per process) and no saved search
runs (it announces the rows its hydration has announced already, as section 7
says). Its invariant `ToldInv` says that no two hydrations are under
way, and that the one that has counted the rows before its own may still announce
them: what was announced and the rows there are now never exceed what was stored
and what it counted (`Owing`). `HydrationTurns` gives what each step of a hydration
does to its count, `MatchesMove` that rows appear one at a time, each stored by
the step, and that edits only take rows away.

`MatchingAssumption` is a hypothesis of the theorems;
`MCProjects` evaluates it as part of `PartsAssumption`.

**Onboarding** (proved in the module), for any number of server processes, visits,
portal requests, talents, links and, where not said otherwise, faults.
`OnboardingInv` is the type invariant with `ReadyWhileLinked` and `LinkEndsOnce`,
and with what the requests carry along: a sync about to attach holds a talent,
and past its first read it has seen a row with consent (`Asked`), which no step
takes back. That gives `AlwaysReadyWhileLinked`, `LinkAlwaysEndsOnce` and
`AlwaysPushedWithConsent`. What the claim is for has exceptions, which section 7
describes, and `slips` remembers which of them have happened. Until a claim was
outlived or cleared, the syncs work alone, on a row without talent (`WorksAlone`), and
a visit about to unlink has found the talent it read gone (`FoundIsGone`):
`UnlinksAlwaysOnlyDead`, for any processes, visits and faults. Until a create was lost
or cut off as well, every live talent is the row's or about to be attached, and
none lives while a sync has yet to create one (`TalentKnown`): `AlwaysOneTalent`. `OnboardingAssumption` is a hypothesis that `MCServices`
evaluates as part of `PartsAssumption`.

**Checkout** (proved in the module), for any number of tabs, clicks, renewals and
requests that end early, whatever overlaps. `CheckoutInv` has the types, that
customers are made before anything names them (`Known`), and a disjunction: two
requests have raced to make the customer (`raced`), or all there is at Stripe and on
its way belongs to the stored customer, who is stored once (`OneCustomer`), and the
guard was right when it looked (`Guarded`). What the guard saw is a number of
subscriptions; of those, none lives or only ones that `ListLimit` newer ones hide from
its list (`Blind`, `HiddenIsOld`), and that stays so while the request, its session and
its payment take their time. A second live subscription hence comes of a guard that
looked before the first one was made: `SecondOnlyByOverlap`. `CheckoutTypes`,
`InvoiceAlwaysFindsUser` and `CustomerAlwaysKept` follow from the same invariant.
`CheckoutAssumption` is a hypothesis that `MCServices` evaluates as part of
`PartsAssumption`.

**LruCache** (`ServiceProofs`): the cache never holds more than `Max` entries,
no key twice, and it implements `Cache`, for any keys, callers, limits and
interleavings of the callers: a step of `LruCache` is one of `Cache` or a
stutter.

**TokenCache** (`ServiceProofs`). `getToken` takes a reference to a cache entry,
awaits Redis, and then stashes its refresh on that entry and puts it back into
the map, whatever happened to the map meanwhile. `NeverStuck` says that no caller
ever finds a settled refresh that way. It is not inductive: a refresh that
settles clears the entry of the map of *its* process only. The invariant
`EntriesOK` adds that no two processes hold the same entry (`EntryOfOne`) and
that a refresh in the entry of a process was started by a request of that
process (`InflightAtHome`); a refresh that settles then clears every place from
which it could be found. A free entry always exists as there are more of them
than references (`FreshFacts`, by counting).

`BudgetsEndFirst` rests on `RequestsOK`: the rounds a request made are the
retries it has spent, plus the round under way. The paranoia stop of
`VanceClient.request` is out of reach where `AuthRetries + RateRetries +
NetRetries < MaxAttempts`, in the code 1 + 2 + 3 < 16.

`NeverReplays` is the third part of `TokensAreGood`, for servers without Redis.
That a request does not send a rejected token again depends on the entry the
next round finds, and so on every other request of the process. `LocalIInv`
says what all of them keep: a token about to be stored is in no entry and with
no request (`MintedIsNew`), a token that can be handed out was rejected by no
request of its process (`CachedNotRejected`), and an entry that a `getToken`
brings back has nothing to hand out (`HeldIsOld`). With Redis the property does
not hold: the SET of an old token may arrive after the DEL of a 401
(`auth.ts:190-194`), so `~Redis` is a hypothesis of the theorem.

`TokenCacheAssumption` is a hypothesis of the three, which `MCServices`
evaluates as part of `PartsAssumption`.

**LoginThrottle** (`ServiceProofs`), for any limit, window and cooldown.
`LateLoginsPass` holds with any number of servers and logins and a store that
fails: every cooldown that a server or the store remembers, or a login carries,
is that of a failure in the log (`Cooldowns`), so none outlasts the last failure
by more than `Cooldown`. `SuccessForgets` relates what a server remembers to the whole
history and needs one process without a store (`OneProcess`: the other servers keep
their failures, section 7); any logins may overlap in it. It counts: no more failures
are remembered than there were since the last success, and only as many as the limit
begin a cooldown (`Forgiven`). A login keeps the object it read over the awaits; after
a success that object is no longer in the map, and what is written to it is lost.
`prune` is a filter in the code; on times in order it drops a first part (`OldComeFirst`,
from the least element that stays).
`ThrottleAssumption` is a hypothesis that `MCServices` evaluates as part of
`PartsAssumption`.

**RateLimiter** (`ServiceProofs`), for any processes, acquires, capacity, window,
penalties and faults. `acquire` finds a token, awaits Redis and takes the token
afterwards; nothing but the promise queue keeps another acquire from taking it
meanwhile. `InTurn` says what the queue ensures: an acquire under way is in the queue
of its process exactly once, and only the head of it is in the loop. Hence a
token that was found is there when it is taken (part of `Paced`), and the tokens
never go below zero. The rest of `Paced` is the sum behind the bound: what a
process handed out in the last k ticks and what its bucket holds come from a full
bucket and the refill of k ticks; a grant moves a token from one to the other, a
tick shifts the stretches by one (`BudgetMoves`), a crash starts both again. This
gives `GrantsArePacedAlways`, types included. `PenaltiesKeepOff` is the step
property for both kinds of penalty; a read of the shared deadline that fails lets a
round go on, as `ratelimit.ts` intends, and is its exception.
`PenaltyLetsOneGoAlways` is about the penalty that the round cannot see, as it lands
while the round waits for Redis: whoever is past the check is the head of its
process's queue, so it is one token.
`RateLimiterAssumption` is a hypothesis that `MCServices` evaluates as part of
`PartsAssumption`.

**CvExtraction** (`ServiceProofs`), for any texts, requests, pages, failures,
expiries and limits. `CvIInv` says that a text has at most one running call, which
the in-flight entry names, and that no profile of it is kept meanwhile (`OneCall`:
`PaidOnceAlways`), and that whoever waits does so for a call of their own text, and
whoever has a profile has one of it (`OwnAnswer`). The latter is what an in-flight
entry or a cache entry of another text would break: `OwnProfileAlways` for texts with the
same first pages, which are one request to the model and two entries in the cache.
`DegradedWithCauseAlways` adds with what cause a plain profile is given.

**CandidateMatch** (`ServiceProofs`), for any executions, pages, runs, sources and
selections. `RunsIInv` says that an execution past its claim has a claimed run, is
alone in it, and that the run has no jobs until it inserts them (`OneExecution`):
`RowsOnceAlways`, with any crashes and overruns. `NeverUnboundedAlways` holds with
failing reads too: `BoundedFeeds` says that an execution matches within all sources
only when it attempts none, which is how it goes on when it could read none.
`SettledForGoodAlways` says of every step that a settled run stays settled the same
way, whatever overruns, dies or fails, with the case of section 7 as its exception:
a run that the sweep failed for its age is READY after all when its execution was
alive. `OnlySwept` says that an execution past its claim finds its run matching, or
failed and old; so what it completes was not settled by anything else.

`MatchAssumption` and `CvAssumption` are hypotheses of these theorems;
`MCCandidates` evaluates them as part of `PartsAssumption`.
**Assumptions.** `CreditsAssumption`, `RevealAssumption` (owners are users,
times to live are positive), `RowAssumption` (the values that stand for "no row"
are not rows), `WebhookAssumption` (what an event may say), `StripeAssumption`
(a customer is created for one user, `lib/stripe/checkout.ts`; the events of a
customer are about that user; two invoices of one user and one period report one
fact), `FactAssumption` (a fact is reported by events of one kind: a pack by those
of its checkout session, a period by its invoices), `TeamsAssumption` and `LruAssumption`. TLC evaluates each of them in the
runs of its module. Nothing is assumed about the number of users, projects,
pools, requests, reveals, events, deliveries or crashes.

## 6. Only model-checked

* Liveness and the fairness it needs, which are beyond the prover.
* `GrantedOnce` across billing periods: the story of its run has no invoice that
  comes back after the next period's. With one the guard has forgotten the earlier
  period (`AppliedOnce`, section 7), so no theorem about every story exists.
* What recursive functions compute (`MatchScores`, `StaffingRules`,
  `TravelTimes`, `SkillResolution`): induction over data is beyond the prover.
* `NeverReplaysRejected` on the instance with Redis, where it does not hold, and
  `OneRefresh`, which does not hold either (section 7).
* `SharedBudget`, what all processes of the limiter hand out together: a sum over
  the processes, which needs induction over sets. Each command that Redis loses and
  each process that dies may add a token, so the bound counts them.
* `WindowBounded`: one login at a time, a sliding window holds no more failures than
  the limit; every other login under way may add two. It needs a count over
  the history of several logins.
* `Managed` and `NoDanglingOrg` for requests that come one after another; where
  requests overlap the code breaks both (section 7).
* `LossIsWarned` and `InjectedWhenDone` of the match runs: both relate a run to
  the one before it, and are checked on two runs.
* Of the benches, the parts that the proofs above do not name (the profile, the
  edits, the pool, `VanceCreate`, `Geocoder`, `TravelTimes`, the board and the
  screens): their invariants are checked on the instances of section 3.

## 7. Where comments and code disagree

Modelling the code showed these disagreements between what a comment, a help text
or a name of the repository says and what the code does. `ClosedHoldsNoLock` is shown
by the run `reveal_closed`. Each of the others is named by the property of the module
that is about the same promise. Some of these properties say the case in which the code
breaks the promise as an exception of their own (*excepted* below): the runs reach it,
and the property says that nothing else breaks the promise. The others state the promise
as the repository words it. They were found violated on small instances, and no run has
one of them on an instance in which the case occurs.

**Reveal**

* `EndedStaysEnded` (app/app/projects/[id]/talent/[opaqueId]/actions.ts:108):
  app/app/projects/[id]/actions.ts:91-93 says of a reopened project "the ended reveals
  stay ended (re-reveal costs a new credit)". Closing only expires the locks; the Reveal
  rows keep expiresAt in the future, and after a reopen the shared-reveal lookups
  (talent/[opaqueId]/actions.ts:108-119 and page.tsx:109-123), which ask for no lock,
  serve the ended reveal again without a credit.
* `ClosedHoldsNoLock` (app/app/projects/[id]/actions.ts:87):
  app/app/projects/[id]/actions.ts:87-89 says "closing also ENDS the project's reveals
  so the revealed talents are released back to the pool". Neither revealAction nor
  acquireReveal looks at Project.status, so a request (already running, or started from
  a stale page) buys a reveal and holds a 14-day lock on a closed project that nobody
  releases.
* `CleanupKeepsLiveMatches` (app/api/cron/cleanup/route.ts:80):
  app/api/cron/cleanup/route.ts:53-61 says "we must not drop the Match that backs a live
  reveal either". The live reveals are read first and the deleteMany of expired matches
  runs later in another statement: a reveal acquired in between loses its Match.

**StripeWebhook**

* `AppliedOnce` (app/api/webhooks/stripe/route.ts:349):
  app/api/webhooks/stripe/route.ts:117-119 says "Handlers are idempotent (...), so a
  re-run can't double-apply". The period guard compares with the last granted period
  only: the invoice of period 1, run again after period 2 was granted (its delivery had
  crashed before the completed mark), resets the balance a second time and moves
  creditsPeriodEnd back.
* `MirrorsStripe` (app/api/webhooks/stripe/route.ts:226):
  app/api/webhooks/stripe/route.ts:226 says "Mirror Stripe's subscription status into
  our soft-gate flag". Events are applied in the order of arrival without comparing
  their creation times: invoice.payment_failed handled after the invoice.paid of the
  retry leaves past_due, which blocks reveals.

**Matching**

* `SavedSearchKeepsClosed` (lib/saved-search/runner.ts:68):
  lib/saved-search/runner.ts:47-48 says of a CLOSED project "never resurrect it with a
  fresh match". The status is read once at the start; the reset of the pools, the sync's
  roll-up and the hydration's roll-up write Project.status unconditionally, so a project
  closed during the run becomes MATCHING or READY again.
* `SweepNeverClobbers` (lib/eightvance/job-sync.ts:431):
  lib/eightvance/job-sync.ts:415-416 says the roll-up "ONLY touches a project that is
  currently MATCHING — never clobbers a DRAFT/READY/ARCHIVED/CLOSED project". The status
  is read in one query and written in another without a condition: a close in between is
  overwritten.
* `NoOrphanedCards` (lib/match/hydrate.ts:485): app/app/projects/[id]/actions.ts:209-211
  says the matches of a removed pool are deleted "so the shortlist shows no orphaned
  cards". A hydration that loaded the pools before the edit goes on creating Match rows
  for the removed pool; nothing deletes them afterwards.
* `NeverMatchingWithoutTask` (lib/eightvance/job-sync.ts:394):
  app/app/projects/[id]/actions.ts:161-164 says "the project is never left MATCHING with
  no task to poll". The roll-up of a sync uses its own outcomes, not the rows: a
  hydration that settled the pool between the kick-off and the roll-up leaves the
  project MATCHING while every pool is settled, and neither the status route nor the
  sweep acts on such a project.
* `ReadyFromCurrentTask` (lib/match/hydrate.ts:306):
  app/app/projects/[id]/actions.ts:157-160 says rerunMatch stamps "a fresh
  eightvanceTaskId" and "the existing shortlist MatchPoller then drives /hydrate exactly
  as on first match". A hydration that holds the previous task writes READY by pool id
  without comparing the task: the fresh task is never polled.
* `AllAnnounced` (lib/match/hydrate.ts:360): lib/match/hydrate.ts:353 says "Notify the
  project owner ONCE, on the transition into a settled/ready state". The count covers
  one hydration only: the rows of a pool that settled while another pool was still
  matching are in totalCount when the transition happens, and if the last pool adds none
  the owner is not notified at all.
* `AnnouncedOnce` (lib/saved-search/runner.ts:117): lib/match/hydrate.ts:353 says
  "Notify the project owner ONCE". runSavedSearch awaits hydrateMatchesForProject, which
  notifies new_match for the rows it stored, and then notifies new_match for the same
  rows itself.

**Teams**

* `Managed` (app/app/settings/team/actions.ts:235): app/app/settings/team/actions.ts:233
  says "Never remove the last OWNER". A request of a member that read its organization
  before the removal re-creates the membership with role OWNER (lib/org.ts:41), passes
  the owner check, and the two owners are removed by two requests that each counted two:
  the team is left without an owner.
* `NeverMoved`, *excepted* (app/app/settings/team/actions.ts:136):
  app/app/settings/team/actions.ts:10-11 says "we never silently move someone between
  teams". The invitee's organization is read before the transaction, which sets
  organizationId without a condition: somebody who got a team in between is moved.
* `NoDanglingOrg` (lib/org.ts:62): lib/org.ts:60-61 says the transaction is there "so a
  user is never left with a dangling org". The check for an existing organization is
  outside it: two first requests create an organization each, and the user owns one that
  nobody is bound to.
* `ErasedWithTheLast` (app/app/settings/delete-account/actions.ts:105):
  app/app/settings/delete-account/actions.ts:85-86 says of the sole member that "at that
  point the org is effectively the user and erasure applies". The deletion is limited to
  candidates that user created: those of a colleague who left earlier stay, with no
  member left to reach them.

**Pipeline**

* `SeededOnce` (lib/pipeline.ts:68): lib/pipeline.ts:58-61 says of concurrent seeds that
  "a second caller that loses the race simply finds the rows already present". No unique
  key forbids a second set: two callers that both read no stages insert the defaults
  twice.
* `KeepsAStage` (app/app/settings/pipeline/actions.ts:194):
  app/app/settings/pipeline/actions.ts:6 says "removing the last remaining stage is
  blocked". The count is read before the transaction: two removals of the last two
  stages both pass it.
* `GatedNeedsReveal` (app/app/settings/pipeline/actions.ts:201):
  prisma/schema.prisma:308-309 says "A candidate whose name has not been revealed may
  never be moved into a stage with revealRequired=true". removeStage moves every card of
  the removed stage to the first remaining one, which moveStage may have made a gated
  stage, without looking at reveals.

**PipelineBoard**

* `GatesAgree` (components/pipeline/pipeline-board.tsx:145):
  components/pipeline/pipeline-board.tsx:16-18 says the reveal gate of the columns is
  "mirrored by the authoritative server-side check in moveCandidate". The board goes by
  the index of the column, the server by the stage's revealRequired: after moveStage
  they disagree in both directions.
* `NamedIsRevealed` (app/app/projects/[id]/pipeline/actions.ts:63):
  app/app/projects/[id]/pipeline/actions.ts:48-50 says the reveal check is "derived the
  same way the pipeline page surfaces the revealed name". The page looks names up by
  talent, hasActiveReveal by talent and tenant: a card shown by name can be refused as
  unrevealed.

**RateLimiter**

* `WithinBudget` (lib/eightvance/ratelimit.ts:63): lib/eightvance/ratelimit.ts:20 says
  "Capacity = tokens issued per `windowMs`", and lines 4-6 that 55 a minute leaves
  headroom under the documented 60. A full bucket is handed out at once and refills
  meanwhile: up to twice the capacity goes out in one window.
* `PenaltyNeverBackward` (lib/eightvance/ratelimit.ts:184):
  lib/eightvance/ratelimit.ts:173 says of the penalty "Idempotent (never moves
  backward)". The local deadline is a maximum, the shared one is overwritten: a shorter
  Retry-After of another request ends the penalty of the other processes early.
* `PenaltyHonoured` (lib/eightvance/ratelimit.ts:158): lib/eightvance/ratelimit.ts:30
  says of waitUntil "until which all acquires must wait". An acquire that passed the
  test awaits the shared counter; a penalty that comes meanwhile is not read again and
  the token is handed out inside it. `PenaltyLetsOneGo` says what holds: that token and
  no other.
* `ReturnsWithToken` (lib/eightvance/ratelimit.ts:140):
  lib/eightvance/ratelimit.ts:120-121 says acquire "Awaits until a token is available",
  line 88 "Atomic INCR + first-hit EXPIRE". They are two commands: when the second one
  fails the counter never expires, every later round is over the capacity, and after its
  last round acquire returns without a token.

**TokenCache**

* `NeverReplaysRejected` (lib/eightvance/auth.ts:194): lib/eightvance/client.ts:903 says
  "refresh-once-and-replay". A getToken that read the shared token before the 401
  deleted it puts it into the cache after the refresh; the replay takes it from there,
  and is rejected for good.
* `OneRefresh` (lib/eightvance/auth.ts:193): lib/eightvance/auth.ts:9-10 says concurrent
  callers serialise "so we issue at most one refresh per expiry". The shared cache is
  awaited between the test for a refresh in flight and its stash: two callers that wait
  there both refresh.

**Onboarding**

* `OneTalent`, *excepted* (lib/candidate/service.ts:529):
  lib/candidate/service.ts:517-523 says of the claim that it prevents "a DUPLICATE
  8vance talent", and prisma/schema.prisma:603-605 the same. A claim can be taken over
  after three minutes while the create that holds it still waits in its retries: both
  create a talent, and the later commit hides the other one.
* `OneTalent`, *excepted* (lib/candidate/service.ts:633):
  lib/candidate/service.ts:633-634 says the claim is released because "the create failed
  → no talent exists". A POST whose answer is lost has created one; when the retries
  fail the claim is released and the next sync creates another.
* `UnlinksOnlyDead`, *excepted* (lib/candidate/service.ts:921):
  lib/candidate/service.ts:904-905 says "ONLY unlinks on a definitive 404 … so a blip
  never nukes a healthy talent". The update is not guarded by the talent that was read:
  a second visit that read the dead one unlinks the talent created since.

**VanceCreate**

* `AllOrNothing` (lib/eightvance/client.ts:1567): lib/eightvance/client.ts:1564-1565
  says "same all-or-nothing semantics as the original sequential `await` loop, just
  parallel". The first rejection leaves the limiter running: the remaining skills are
  posted although the create has failed.

**CandidateMatch**

* `NeverUnbounded`, *excepted* (lib/candidate/service.ts:1165):
  lib/candidate/service.ts:1151-1153 says of large feeds "without one we must NOT run
  them (that is the unbounded match that took down PROD ES)", and 1160-1162 that the []
  pass is used only when no large feed is enabled. A failed read of the sources leaves
  the list empty, which counts as no large feed: the [] pass runs over all of them.
* `LossIsWarned`, *excepted* (lib/candidate/service.ts:1034):
  lib/candidate/service.ts:326-328 says "A feed with prevN > 0 and n === 0 now yields a
  warning". Only attempted feeds get a zero entry: after a failed read of the sources
  none is attempted, and the feed disappears without a warning.
* `InjectedWhenDone` (app/app/candidates/actions.ts:257):
  app/app/candidates/actions.ts:252-255 injects "now that the forward (talent→jobs) run
  completed … so this candidate shows up immediately". When the poller of the match page
  has claimed the run, executeMatchRun returns at once: the injection finds no completed
  run, and nobody injects later.
* `SettledForGood`, *excepted* (lib/candidate/service.ts:1678):
  lib/candidate/service.ts:1670-1671 says the sweep recovers runs of "a killed
  background job". It goes by the time of creation: a run that waited six minutes for
  its first execution is failed by the first poll of the page that triggered it, and
  turns READY afterwards.

**CandidateProfile**

* `ReviewKept`, *excepted* (lib/candidate/service.ts:878):
  lib/candidate/service.ts:741-742 says that "a recruiter's in-progress review is never
  regenerated / overwritten". The guard reads the row before the reads of 8vance: two
  scans pass it, the first stores, the recruiter decides, and the second stores a fresh
  list.
* `EditsKept` (app/app/candidates/[id]/suggestions-actions.ts:465):
  app/app/candidates/[id]/suggestions-actions.ts:443-444 promises "preserving siblings
  like top-level `note`". The whole profileJson that was read before the call of 8vance
  is written after it: a note saved meanwhile is lost.
* `ReviewKept`, *excepted* (app/app/candidates/[id]/suggestions-actions.ts:465):
  app/app/candidates/[id]/suggestions-actions.ts:492-493 says "serial execution avoids
  lost updates on the single JSON columns". It does among the approvals of one call; a
  dismissal by another recruiter during a push is overwritten with pending.
* `SkillSurvives` (app/app/candidates/[id]/match/actions.ts:416):
  app/app/candidates/[id]/match/actions.ts:414 says "Remove-then-add fallback: same net
  effect". When the add fails after the remove, the skill is gone from the talent.
* `NoneIsFinal` (lib/candidate/service.ts:860): lib/candidate/service.ts:854-858 says
  that before the parse has landed the status stays pending, and "none" is the
  definitive end. The facts of talent.create alone make the reads non-empty, so none is
  reported before the parse.

**TalentPool**

* `ImportedOnce` (app/app/candidates/actions.ts:461): app/app/candidates/actions.ts:429
  says "Already imported? Return it (idempotent — never duplicate a talent)". The lookup
  and the insert are two statements with a read of 8vance in between: two overlapping
  imports both insert.
* `ImportedOnce` (app/app/candidates/actions.ts:711):
  app/app/candidates/actions.ts:695-698 says that "idempotency is enforced by this
  explicit filter". The filter does not look at the buffer: a talent that shifts to the
  next page before the flush is buffered twice.
* `WholePool` (lib/eightvance/client.ts:2800): lib/eightvance/client.ts:2774 says the
  generator "walks the WHOLE `/talent/` pool". Pages are numbered: when a talent leaves,
  the first one of the next page is never listed.
* `ApplicantsPlaced` (app/app/candidates/actions.ts:303):
  app/app/candidates/actions.ts:1345-1347 says a row without an organization is saved
  "until a recruiter claims it". The claim only sets the owner of the pool: no code
  gives the earlier application an organization, and no list shows it.

**LoginThrottle**

* `WindowBounded` (lib/login-ratelimit.ts:93): lib/login-ratelimit.ts:4-5 says the
  throttle "bounds the number of FAILED password attempts per identity inside a sliding
  window". Across servers the count is that of a fixed window: failures before and after
  its end are not added up. Logins under way at once may each fail once more during the
  cooldown: the property allows two failures for every other login.
* `SuccessClears` (lib/login-ratelimit.ts:201): auth.ts:73-74 says a success clears the
  failure counters "so the user is never locked out after they eventually authenticate".
  Only the server of the success forgets them: another one keeps its failures, and its
  next one locks the user out.

**Checkout**

* `OneSubscription`, *excepted* (app/billing/choose-plan/actions.ts:35):
  app/billing/choose-plan/actions.ts:30-34 guards "against a SECOND parallel
  subscription". It asks when a session is made, and a session can be paid later: two
  open sessions are two subscriptions.
* `InvoiceFindsUser`, *excepted* (lib/stripe/checkout.ts:124):
  lib/stripe/checkout.ts:143-144 says the metadata lets the webhook "resolve who paid
  without needing to wait for `customer.subscription.created`". An invoice is resolved
  by the stored customer alone: after two customers were made, the one of the paid
  session may not be it.
* `CustomerKept`, *excepted* (lib/stripe/checkout.ts:118): lib/stripe/checkout.ts:99
  calls ensureStripeCustomer "Idempotent within a single user row". Two first calls both
  read no customer, make one each, and the second write wins.

**SkillTiles**

* `NoStaleTiles` (app/app/projects/new/wizard.tsx:869):
  app/app/projects/new/wizard.tsx:791-792 clears the staged round "so we don't append
  stale tiles from a previous role". A prefetch that still runs writes its batch after
  that, and the next click appends it; a load of "+5 more" appends its own.
* `StagedIsNew` (app/app/projects/new/wizard.tsx:898):
  app/app/projects/new/wizard.tsx:850-853 says "the staged batch excludes both the shown
  ids and anything already (...) in the buffer". appendBatch returns ids that a queued
  updater has not computed yet: the round after is staged without them and is the first
  batch again, so the next click shows nothing new.
* `OnePrefetch` (app/app/projects/new/wizard.tsx:796):
  app/app/projects/new/wizard.tsx:849-851 is "Guarded so we never run two prefetches for
  the same bucket". A change of step or language frees the guard while the older
  prefetch runs.
* `GoneMeansNoMore` (app/app/projects/new/wizard.tsx:841):
  app/app/projects/new/wizard.tsx:931 hides the button because there are "No further
  distinct suggestions for this bucket". fetchNextBatch answers none on any error as
  well, and the button stays hidden for the request.

**WizardDraft**

* `SuccessLeavesNoDraft`, *excepted* (app/app/projects/new/wizard.tsx:534):
  app/app/projects/new/wizard.tsx:562-564 says on success "the draft stays cleared -- no
  stale wizard state lingers for the next visit". The fields stay enabled while the
  submit is pending, and any change of one, or the late default language, writes the
  draft again before the redirect.
* `ErrorKeepsDraft` (app/app/projects/new/wizard.tsx:591):
  app/app/projects/new/wizard.tsx:564-566 says on error the watcher "RE-WRITES the draft
  so the user keeps all wizard state". It runs when the text of the error changes: a
  second failure with the same text leaves the draft cleared.
* `DeletedStaysDeleted` (app/app/projects/new/wizard.tsx:679):
  app/app/projects/new/wizard.tsx:650-652 adds Dutch "once", so that "the recruiter can
  delete it", and will "never clobber a restored draft". A restored draft with no
  language is an empty list to it: Dutch is added again.

**Autocomplete**

* `PickKeepsClosed` (app/app/projects/new/wizard.tsx:334):
  app/app/projects/new/wizard.tsx:226-227 says "After a selection ... the input value
  changes -- suppress the next fetch so the dropdown doesn't re-open". In the languages
  field a pick of the name just typed changes nothing: the search in its pause is not
  aborted, and its answer opens the list again.

**CvIntake**

* `NothingInherited`, *excepted* (app/app/candidates/new/candidate-wizard.tsx:566):
  app/app/candidates/new/candidate-wizard.tsx:349-350 clears the fields "so a 2nd CV
  can't inherit them". A file may be chosen while the extraction of the last one runs:
  its skills, name, profile and city land in the cleared form.
* `NameFilled`, *excepted* (app/app/candidates/new/candidate-wizard.tsx:640):
  app/app/candidates/new/candidate-wizard.tsx:633-635 keys the extraction on the text
  "so a different CV re-triggers". A text that arrives while another is extracted is
  skipped, and nothing runs the effect again.
* `NameFilled`, *excepted* (app/app/candidates/new/candidate-wizard.tsx:273):
  app/app/candidates/new/candidate-wizard.tsx:267-271 means to "always allow
  re-extraction even if the new file's text is byte-identical". The text is cleared and
  set in one batch: it has not changed for the effect, which does not run, and the
  cleared name, e-mail and phone stay empty.
* `TypedNameKept` (app/app/candidates/new/candidate-wizard.tsx:566):
  app/app/candidates/new/candidate-wizard.tsx:565 says "Prefill mandatory fields from
  the CV when still empty". Whether they are empty is read when the extraction starts:
  what was typed since is overwritten.

**MatchPoller**

* `CountsOnlyWhileAsking` (app/app/projects/[id]/shortlist/match-poller.tsx:57):
  app/app/projects/[id]/shortlist/match-poller.tsx:49-50 says "a stale/abandoned tab
  never sits there counting". The effect depends on the translation function; when a
  refresh brings a new one the clean-up cancels the questions, and the effect that runs
  again returns at once because it was started before: the panel counts on and asks
  nothing.
* `LiveWhileMatching` (app/app/projects/[id]/shortlist/match-poller.tsx:86):
  app/app/projects/[id]/shortlist/page.tsx:354 says "While matching we always show the
  live progress panel". A match that is run again between the settled answer and the
  refresh keeps the panel mounted, at 100% and no longer asking, until the page is
  loaded anew.

**ShortlistGrid**

* `UntouchedShowsAll`, *excepted*
  (app/app/projects/[id]/shortlist/shortlist-grid.tsx:291):
  app/app/projects/[id]/shortlist/shortlist-grid.tsx:288 says "Keep eduMax in sync if
  rows (and thus the level order) change after mount". It is only lowered: a list opened
  before its cards arrive keeps the upper end it had, the filter counts as active, and
  every card above the lowest level is hidden without the user having filtered.
* `EduInRange`, *excepted* (app/app/projects/[id]/shortlist/shortlist-grid.tsx:291):
  app/app/projects/[id]/shortlist/shortlist-grid.tsx:289-290 says "Clamped during render
  ... so an out-of-range value never paints". The lower end is not clamped: with fewer
  levels it lies above the upper end, and no card of a known level passes.

**CandidateList**

* `SelectionOfItsPool`, *excepted* (app/app/candidates/candidate-list.tsx:475):
  app/app/candidates/candidate-list.tsx:288-289 says "a selection is only meaningful for
  ONE (tenant, q) pool snapshot". The rows of the pool before stay in view, with their
  boxes, while the pool just picked is loading: a box ticked then is a number of the old
  pool selected, and imported, in the new one.

**MatchFilters**

* `Reachable` (app/app/candidates/[id]/match/match-client.tsx:1081):
  app/app/candidates/[id]/match/match-client.tsx:742-743 says "the escape hatch the
  filtered-to-zero empty state offers so the loaded rows are always reachable". A city
  that was chosen keeps filtering after a refresh whose list has three cities before it:
  it has no chip any more, its own rows keep the list from being empty, so the button is
  not there either, and the other rows cannot be shown.
* `PreferencesDrive` (app/app/candidates/[id]/match/match-client.tsx:405):
  app/app/candidates/[id]/match/match-client.tsx:400-401 says "Seed the contract filter
  from the candidate's captured preference so the recruiter's tacit input drives the
  view". The seed is computed from the rows of the first rendering only: on a page that
  was opened before the run had rows the preference never takes effect.

**TravelTimes**

* `OvLands` (lib/travel/index.ts:207): The bucket is kept for a day whatever it comes
  from: an unknown time of an outage or of a batch above the provider's limit is served,
  as a hit, to the computations that follow. The comment says the unknown lasts only
  'until real data lands': "stays a null bucket — the filter treats null as \"unknown\"
  and hides the OV chip until real data lands" (lib/travel/index.ts:197-199).

**SkillResolution**

* `AtMostMax` (lib/candidate/resolve-skills.ts:99): Whether enough skills are found is
  asked before each batch of six, so up to five more than the limit are resolved; the
  comment calls it "Max distinct skills resolved per submit"
  (lib/candidate/resolve-skills.ts:52).

**TalentEdit**

* `AboutOnlyTyped` (components/candidate/candidate-editor.tsx:253):
  components/candidate/candidate-editor.tsx:126 calls the state "Pending edits (not yet
  saved)". After a save that changed the text, reset() sets it back to the text of the
  render the handler belongs to (line 155), which is the old one: it differs from the
  new initialAbout, and the next save of anything sends the old text to 8vance.
* `EntryOnce` (components/candidate/candidate-editor.tsx:254):
  components/candidate/candidate-editor.tsx:126 calls the state "Pending edits (not yet
  saved)". When one part of a save fails, the work experience and education that landed
  stay pending: saving again adds them a second time.
* `MirrorInSync` (app/app/candidates/[id]/match/actions.ts:387):
  app/app/candidates/[id]/match/actions.ts:277-279 says the edits, of which "add/remove
  skills" is one, are mirrored "into the local `profileJson.cv` so the stored fallback
  view stays in sync". removedRowIds is collected and never used: a removed skill stays
  in the stored profile.

**MatchScores**

* `HeadGraded` (lib/candidate/service.ts:1315): lib/candidate/service.ts:1271-1274 says
  the true score is fetched "for the top-N rows whose LIST score is the degenerate
  cross-company `1`". The targets are the first of the whole list, but only the jobs of
  toEnrich are asked for: with as many graded jobs as are enriched, all of which sort
  before the score 1, no target is.
* `OneScale` (lib/candidate/service.ts:1321):
  app/app/candidates/[id]/match/match-client.tsx:258-261 says the shown percent is used
  everywhere "so all stay on one consistent scale". A true score of at most 0.01 is
  stored as a percent of at most 1, which smoothScoreFromRaw (score-smoothing.ts:76)
  reads as a fraction: 0.8 percent in the panel is 90 percent in the list.
* `SortedAsShown` (app/app/candidates/[id]/match/match-client.tsx:646):
  app/app/candidates/[id]/match/match-client.tsx:258-261 says the percent is used
  "everywhere the score surfaces (ring, min-match filter, sort, map)". The sort compares
  the stored numbers, which come as fractions and as percents
  (lib/candidate/score-smoothing.ts:70-71).
* `GenuineShown` (lib/candidate/service.ts:1246): lib/candidate/normalize-job.ts:74-76
  says every score but the sentinel "is genuine and MUST be shown immediately". Of two
  answers for a job the greater number wins: the sentinel 1 of one source beats a
  fraction of another, and the job is listed without a score.
* `MissingTrue` (app/app/candidates/[id]/match/actions.ts:794):
  app/app/candidates/[id]/match/actions.ts:587 says of matched "True when the candidate
  has this skill". When the read of the candidate's skills fails, its list counts as
  empty and every skill of the job is shown as missing.

**Preferences**

* `ChosenKept`, *excepted* (app/app/candidates/new/shared-form.tsx:403):
  app/app/candidates/new/shared-form.tsx:402-404 says a range that "would be silently
  clamped away" is not offered, and caps the slider at 100. Its lower end offers 5,
  which clampTravelKm silently raises to 10.
* `ShownUsed` (app/app/candidates/new/candidate-wizard.tsx:1021):
  app/app/candidates/new/candidate-wizard.tsx:122-123 shows a "Suggested radius" until
  the recruiter overrides it. Without parsed education the slider shows 30; the match of
  a row with no radius and no degree uses DEFAULT_TRAVEL_KM, 50
  (lib/candidate/preferences.ts:89).
* `ShownUsed` (app/candidate/[token]/page.tsx:126):
  app/candidate/[token]/page.tsx:121-124 says the slider's fallback is "What the MATCH
  will actually use when no explicit radius is set". For the form that takes a CV it is
  computed before there is one, from profile.education, which no writer sets: it shows
  50 and the match uses the tier of the CV.
* `UnsetIsUnset` (app/candidate/[token]/portal-form.tsx:412):
  app/app/candidates/new/shared-form.tsx:731-732 says "Sliding to 0 means no explicit
  radius", so that "the education-level default keeps driving the match". The seeded
  form then sends radiusKm = extra.maxTravelKm ?? seed.radiusKm: the recruiter's radius,
  which is what the match uses.
* `SaysWhy` (app/app/candidates/[id]/match/preferences-summary.tsx:49):
  lib/candidate/preferences.ts:148-151 says the statement is there "so the recruiter
  sees why the radius + travel facet are pre-set". createCandidateAction stores the
  default of the tier as maxTravelKm, so the summary takes it for explicit and does not
  say why.
* `PlaceTrue` (app/candidate/[token]/portal-form.tsx:399):
  app/candidate/[token]/page.tsx:19-20 says the portal lets the candidate confirm or
  adjust the location. The city and country that are typed are sent with the coordinates
  of the seed: the match is centred on the place the candidate left.
* `FormAccepted` (app/app/candidates/new/shared-form.tsx:589):
  lib/candidate/preferences.ts:217 takes hoursPerWeek from 1 to 80. The field keeps any
  typed number above 0 and rounds it: .4 becomes 0, which is sent and refused, and the
  form only says that it is invalid. (The seeded form of the portal also submits without
  the e-mail the server requires.)
* `CapturedKept` (app/app/candidates/actions.ts:941):
  app/candidate/[token]/page.tsx:17-19 says the portal "pre-seeds whatever the recruiter
  already captured". It seeds radius, remote and contract types; the submission replaces
  all preferences, and regions, mode of work, salary, hours and availability that the
  recruiter captured are gone.
* `EducationKept` (app/app/candidates/actions.ts:919):
  app/app/candidates/actions.ts:1147-1150 says of the profile that without its cv block
  "the education/work-experience sub-resources are never created - silent loss".
  submitPortalOnboardingAction writes a profile without it over the one the recruiter's
  CV gave.
* `LevelNotInvented` (app/candidate/[token]/page.tsx:154):
  app/app/candidates/new/shared-form.tsx:881 says "Never fabricate a mid-tier value for
  an unknown skill". The portal page seeds a skill without proficiency_id at level 3,
  which the form sends as 25.

**StaffingRules**

* `NoDuplicate` (app/admin/staffing-rules/actions.ts:51): addRuleAction looks for the
  rule and then creates it, with no unique index: two overlapping submissions store it
  twice, and deleting or disabling one of the two rows leaves the pattern in force. Its
  comment says it "rejects a duplicate (same kind + pattern) among the global rows"
  (app/admin/staffing-rules/actions.ts:32-33).
* `AgenciesHidden` (lib/candidate/service.ts:1267): Only the details of the best 40 jobs
  are read, and one that fails keeps its listed row: a vacancy of a feed whose
  description names a client is then shown as an employer's. The help text says
  "Vacancies from staffing, secondment and recruitment agencies are hidden by default"
  (messages/en.json:981).
* `EcosystemNever` (lib/candidate/service.ts:1246): When a partner's source and a feed
  both list a job, the merged row keeps the source of the greater score; under the
  feed's name it is classified, and hidden. The comment says "A job from the tenant's
  OWN pool or an ECOSYSTEM-partner source can NEVER be a staffing agency"
  (lib/candidate/service.ts:128-129).
* `Substrings` (lib/match/staffing.ts:287): A pattern matches only where a token begins;
  the admin's page says "Patterns are stored lowercased and matched as substrings"
  (messages/en.json:1254), and the actions store them so "because the classifier matches
  lowercased substrings" (app/admin/staffing-rules/actions.ts:13).
* `NotMidWord` (lib/match/staffing.ts:287): [^a-z0-9] takes a letter with an accent for
  a boundary, so a pattern is found inside a word after one; the comment says the match
  goes "rejecting spurious mid-word substrings" (lib/match/staffing.ts:281-282).

**ProjectForm**

* `FieldsPrefilled` (app/app/projects/[id]/edit/edit-form.tsx:350): The minimum years of
  experience are not stored with a project: the editor starts at 0, and saving it
  untouched creates the jobs anew without the years the wizard gave them. The comment
  says "field state, prefilled from the project"
  (app/app/projects/[id]/edit/edit-form.tsx:328).
* `MarkerTrue` (components/location-picker-map.tsx:187): After a drag to a point without
  a city the location is kept, and the marker, whose position prop did not change, stays
  where it was dropped. The comment says "the previous location is KEPT (no onChange -
  the marker snaps back via `value`)" (components/location-picker-map.tsx:166-167).
* `FailureTrue` (components/location-picker-map.tsx:187): Two look-ups under way: the
  newer one changes the location, then the older one fails and the map says "Couldn't
  resolve that location - the previous location was kept" (messages/en.json:460) under a
  location that was not.

**Geocoder**

* `NoHitOnly`, *excepted* (app/api/refdata/location/route.ts:188): A status that is not
  ok (429, 503) gives [] like a point without a place, and line 105 keeps it for an
  hour: the comment says "Returns [] when Nominatim has no usable hit"
  (app/api/refdata/location/route.ts:173-174).
* `WorldOnlyIfNone`, *excepted* (app/api/refdata/location/route.ts:147): A refused
  search of the home country gives [] and the worldwide search answers, and is kept for
  an hour: the comment says to "only fall back to a worldwide search when there's no
  in-country hit" (app/api/refdata/location/route.ts:121-122).

## 8. Not modelled

* Notifications, e-mail and branding: formatting and sending; they change no
  state of another component.
* Anonymization: pure transformations of texts over large vocabularies, with
  unit tests of their own.
* Admin pages: forms over single rows (the credit actions are in `Credits`, the
  staffing rules in `StaffingRules`).
* Sessions, CSRF, environment and crypto: checks and encodings without state.
* The user interface apart from the screens of section 2, and the Electron
  window around it.
* In the components that are modelled: reads that change nothing (credit ledger,
  comparison, export), the order of cards within a column, sign-up and password
  reset, the claim and listing of the applications cron, pruning of old rows
  other than locks and matches, the payloads (titles, texts, formulas of the
  distance). `PROJECT.json` says it component by component.
