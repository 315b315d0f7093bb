------------------------------ MODULE Matching ------------------------------
(***************************************************************************)
(* Matching one project against its talent pools.  A sync                  *)
(* (lib/eightvance/job-sync.ts) creates a job per pool at 8vance and starts *)
(* a match task; a hydration (lib/match/hydrate.ts) polls the tasks, stores *)
(* the results as Match rows and rolls the pools up to Project.status; a    *)
(* sweep settles pools that stayed MATCHING too long.  The three run as     *)
(* processes that interleave at every await, next to each other and next to *)
(* the owner's lifecycle operations (app/app/projects/[id]/actions.ts) and  *)
(* the saved-search runner (lib/saved-search/runner.ts).                    *)
(***************************************************************************)
EXTENDS Naturals, FiniteSets, Sequences, FiniteSetTheorems, SequenceTheorems, TLAPS

CONSTANTS
  Tenants,     \* the pools a project may be matched against
  Talents,     \* talents a pool may return
  Syncs,       \* slots for executions of syncProjectToVance
  Hydrators,   \* slots for executions of runHydrate
  ServerOf,    \* the server process each slot and the sweep run on
  Kinds,       \* callers of the sync in this instance
  Events,      \* lifecycle operations, and whether pools grow stale, in this instance
  Modes,       \* what match.start may answer
  Faults,      \* calls that may fail in this instance
  MaxOps,      \* bound on syncs and lifecycle operations
  MaxCrashes   \* bound on crashes of a server process

MatchingAssumption ==
  /\ Kinds \subseteq {"create", "rerun", "edit", "saved"}
  /\ Events \subseteq {"close", "archive", "restore", "stale"}
  /\ Modes \subseteq {"async", "sync", "fallback"}
  /\ Faults \subseteq {"vance", "task", "insert", "throw"}
  /\ MaxOps \in Nat /\ MaxCrashes \in Nat

VARIABLES
  status, lastMatched,   \* the Project row
  pools,                 \* its ProjectPool rows
  matches,               \* its Match rows
  tasks,                 \* the asynchronous match tasks 8vance runs
  sync, hydration, sweep,\* the processes
  strays,                \* creations still running after their batch was rejected
  inserted, announced,   \* rows ever stored, rows named in notifications
  ops, crashes, epoch    \* counters; epoch numbers the edits

row == <<status, lastMatched, pools, matches>>
tallies == <<inserted, announced>>
counters == <<ops, crashes, epoch>>
vars == <<status, lastMatched, pools, matches, tasks, sync, hydration, sweep,
          strays, inserted, announced, ops, crashes, epoch>>

ProjectStatus == {"DRAFT", "MATCHING", "READY", "FAILED", "CLOSED", "ARCHIVED"}
PoolStatus == {"DRAFT", "MATCHING", "READY", "FAILED"}

\* Task 0 is a null task id; the sentinels are not tasks at 8vance.
NoTask == [kind |-> "none", id |-> 0]
Task(kind, id) == [kind |-> kind, id |-> id]
NoPool == [id |-> 0, status |-> "DRAFT", job |-> FALSE, task |-> NoTask, stale |-> FALSE]
NewPool(id) == [NoPool EXCEPT !.id = id]
Exists(t, id) == id > 0 /\ pools[t].id = id

Stored(t) == {m.talent : m \in {r \in matches : r.tenant = t}}
ActivelyMatching(p) ==
  p.id > 0 /\ (p.status = "MATCHING" \/ (p.status = "DRAFT" /\ p.task # NoTask))

NoSync == [pc |-> "idle", kind |-> "rerun", snap |-> [t \in Tenants |-> NoPool],
           rest |-> {}, cur |-> "none", task |-> NoTask,
           cached |-> FALSE, out |-> [t \in Tenants |-> "none"], before |-> 0]
NoHydration == [pc |-> "idle", status |-> "DRAFT", snap |-> [t \in Tenants |-> NoPool],
                before |-> 0, rest |-> {}, cur |-> "none",
                fetched |-> {}, todo |-> {}, mine |-> {}, left |-> {},
                res |-> [t \in Tenants |-> "none"]]
NoSweep == [pc |-> "idle", rest |-> {}, cached |-> FALSE, next |-> "READY",
            cur |-> "none", id |-> 0]

MatchingInit ==
  /\ status = "DRAFT" /\ lastMatched = FALSE
  /\ \E P \in SUBSET Tenants \ {{}} :
       pools = [t \in Tenants |-> IF t \in P THEN NewPool(1) ELSE NoPool]
  /\ matches = {} /\ tasks = <<>>
  /\ sync = [s \in Syncs |-> NoSync]
  /\ hydration = [h \in Hydrators |-> NoHydration]
  /\ sweep = NoSweep /\ strays = {}
  /\ inserted = 0 /\ announced = 0
  /\ ops = 0 /\ crashes = 0 /\ epoch = 1

---------------------------------------------------------------------------
(* syncProjectToVance *)

At(s, pc) == sync[s].pc = pc
GoTo(s, pc) == sync' = [sync EXCEPT ![s].pc = pc]
SyncKeeps == UNCHANGED <<hydration, sweep, strays, tallies, counters>>

\* createProjectAction, rerunMatch: the sync is called at once.
BeginSync(s, kind) ==
  /\ At(s, "idle") /\ ops < MaxOps /\ kind \in Kinds \ {"edit", "saved"}
  /\ kind = "create" => ops = 0
  /\ sync' = [sync EXCEPT ![s] = [NoSync EXCEPT !.pc = "load", !.kind = kind]]
  /\ ops' = ops + 1
  /\ UNCHANGED <<row, tasks, hydration, sweep, strays, tallies, crashes, epoch>>

\* updateProjectAction: one transaction sets DRAFT, adds rows for added pools,
\* drops removed ones with their matches, and clears job and task of kept ones.
BeginEdit(s) ==
  /\ At(s, "idle") /\ ops < MaxOps /\ "edit" \in Kinds
  /\ \E P \in SUBSET Tenants \ {{}} :
       /\ pools' = [t \in Tenants |->
            IF t \notin P THEN NoPool
            ELSE NewPool(IF pools[t].id > 0 THEN pools[t].id ELSE epoch + 1)]
       /\ matches' = {m \in matches : m.tenant \in P \/ pools[m.tenant].id = 0}
  /\ status' = "DRAFT"
  /\ epoch' = epoch + 1 /\ ops' = ops + 1
  /\ sync' = [sync EXCEPT ![s] = [NoSync EXCEPT !.pc = "load", !.kind = "edit"]]
  /\ UNCHANGED <<lastMatched, tasks, hydration, sweep, strays, tallies, crashes>>

\* runSavedSearch skips a CLOSED project and remembers the matches it had.
BeginSaved(s) ==
  /\ At(s, "idle") /\ ops < MaxOps /\ "saved" \in Kinds
  /\ status # "CLOSED"
  /\ sync' = [sync EXCEPT ![s] =
       [NoSync EXCEPT !.pc = "reset", !.kind = "saved", !.before = Cardinality(matches)]]
  /\ ops' = ops + 1
  /\ UNCHANGED <<row, tasks, hydration, sweep, strays, tallies, crashes, epoch>>

\* ... then clears the task of every pool.
SavedReset(s) ==
  /\ At(s, "reset") /\ GoTo(s, "load")
  /\ pools' = [t \in Tenants |-> IF pools[t].id = 0 THEN NoPool
                 ELSE [pools[t] EXCEPT !.task = NoTask, !.status = "DRAFT"]]
  /\ UNCHANGED <<status, lastMatched, matches, tasks>> /\ SyncKeeps

\* The caller's catch: create and edit write FAILED, the others report an error.
Throw(s) == sync' = [sync EXCEPT ![s] =
  IF sync[s].kind \in {"create", "edit"} THEN [sync[s] EXCEPT !.pc = "failed"] ELSE NoSync]

SyncLoad(s) ==
  /\ At(s, "load")
  /\ \/ sync' = [sync EXCEPT ![s].pc = "next", ![s].snap = pools,
                   ![s].rest = {t \in Tenants : pools[t].id > 0}]
     \/ "throw" \in Faults /\ Throw(s)
  /\ UNCHANGED <<row, tasks>> /\ SyncKeeps

SyncFailed(s) ==
  /\ At(s, "failed")
  /\ status' = "FAILED" /\ sync' = [sync EXCEPT ![s] = NoSync]
  /\ UNCHANGED <<lastMatched, pools, matches, tasks>> /\ SyncKeeps

\* The next pool of the loop; job.create only when the snapshot has no job.
SyncPool(s, t) ==
  /\ At(s, "next") /\ t \in sync[s].rest
  /\ sync' = [sync EXCEPT ![s].cur = t, ![s].rest = @ \ {t},
                ![s].pc = IF sync[s].snap[t].job THEN "start" ELSE "job"]
  /\ UNCHANGED <<row, tasks>> /\ SyncKeeps

SyncCall(s) ==
  /\ At(s, "job")
  /\ GoTo(s, "saveJob") \/ ("vance" \in Faults /\ GoTo(s, "error"))
  /\ UNCHANGED <<row, tasks>> /\ SyncKeeps

SyncSaveJob(s) ==
  LET t == sync[s].cur IN
  /\ At(s, "saveJob")
  /\ IF Exists(t, sync[s].snap[t].id)
     THEN pools' = [pools EXCEPT ![t].job = TRUE] /\ GoTo(s, "start")
     ELSE GoTo(s, "error") /\ UNCHANGED pools
  /\ UNCHANGED <<status, lastMatched, matches, tasks>> /\ SyncKeeps

SyncStart(s) ==
  /\ At(s, "start")
  /\ \/ /\ "vance" \in Faults /\ GoTo(s, "error") /\ UNCHANGED tasks
     \/ /\ "async" \in Modes
        /\ tasks' = Append(tasks, [state |-> "queued", results |-> {}])
        /\ sync' = [sync EXCEPT ![s].pc = "saveTask", ![s].task = Task("async", Len(tasks) + 1)]
     \/ \E m \in Modes \ {"async"} :
          /\ sync' = [sync EXCEPT ![s].pc = "saveTask", ![s].task = Task(m, 0)]
          /\ UNCHANGED tasks
  /\ UNCHANGED row /\ SyncKeeps

SyncSaveTask(s) ==
  LET t == sync[s].cur IN
  /\ At(s, "saveTask")
  /\ IF Exists(t, sync[s].snap[t].id)
     THEN /\ pools' = [pools EXCEPT ![t].task = sync[s].task,
                         ![t].status = "MATCHING", ![t].stale = FALSE]
          /\ sync' = [sync EXCEPT ![s].pc = "next", ![s].out[t] = "MATCHING"]
     ELSE GoTo(s, "error") /\ UNCHANGED pools
  /\ UNCHANGED <<status, lastMatched, matches, tasks>> /\ SyncKeeps

\* The catch of one pool counts the cached matches, then keeps or fails the pool.
SyncCount(s) ==
  /\ At(s, "error")
  /\ sync' = [sync EXCEPT ![s].pc = "preserve", ![s].cached = Stored(sync[s].cur) # {}]
  /\ UNCHANGED <<row, tasks>> /\ SyncKeeps

SyncPreserve(s) ==
  LET t == sync[s].cur
      kept == IF sync[s].cached THEN "READY" ELSE "FAILED"
  IN
  /\ At(s, "preserve")
  /\ pools' = IF Exists(t, sync[s].snap[t].id)
              THEN [pools EXCEPT ![t].status = kept] ELSE pools
  /\ sync' = [sync EXCEPT ![s].pc = "next", ![s].out[t] = kept]
  /\ UNCHANGED <<status, lastMatched, matches, tasks>> /\ SyncKeeps

SyncRollup(s) ==
  LET outs == {sync[s].out[t] : t \in Tenants} IN
  /\ At(s, "next") /\ sync[s].rest = {}
  /\ status' = IF "MATCHING" \in outs THEN "MATCHING"
               ELSE IF "READY" \in outs THEN "READY" ELSE "FAILED"
  /\ IF sync[s].kind = "saved" THEN GoTo(s, "hydrate")
     ELSE sync' = [sync EXCEPT ![s] = NoSync]
  /\ UNCHANGED <<lastMatched, pools, matches, tasks>> /\ SyncKeeps

---------------------------------------------------------------------------
(* hydrateMatchesForProject and runHydrate *)

Runs(h, pc) == hydration[h].pc = pc
Step(h, pc) == hydration' = [hydration EXCEPT ![h].pc = pc]
HydrateKeeps == UNCHANGED <<tasks, sync, sweep, counters>>
HydrateOnly == HydrateKeeps /\ UNCHANGED <<row, strays, tallies>>

\* The inflight map: one hydration of the project per server process.
InFlight(v) == \E k \in Hydrators : ServerOf[k] = v /\ hydration[k].pc # "idle"

\* The shortlist page and the status route drive a hydration while a pool matches.
HydrateBegin(h) ==
  /\ Runs(h, "idle") /\ ~InFlight(ServerOf[h])
  /\ \E t \in Tenants : ActivelyMatching(pools[t])
  /\ Step(h, "load") /\ HydrateOnly

HydrateLoad(h) ==
  /\ Runs(h, "load")
  /\ hydration' = [hydration EXCEPT ![h].pc = "count", ![h].status = status,
       ![h].snap = pools, ![h].rest = {t \in Tenants : pools[t].id > 0}]
  /\ HydrateOnly

HydrateCount(h) ==
  /\ Runs(h, "count")
  /\ hydration' = [hydration EXCEPT ![h].pc = "next", ![h].before = Cardinality(matches)]
  /\ HydrateOnly

\* The next pool: settled and waiting ones keep their status, by the snapshot.
HydratePool(h, t) ==
  LET p == hydration[h].snap[t]
      kept == CASE p.status = "READY" -> "ready"
                [] p.status = "FAILED" -> "failed"
                [] OTHER -> "matching"
  IN
  /\ Runs(h, "next") /\ t \in hydration[h].rest
  /\ hydration' = [hydration EXCEPT ![h].cur = t, ![h].rest = @ \ {t},
       ![h].pc = IF p.status = "MATCHING" /\ p.task # NoTask /\ p.job THEN "fetch" ELSE "next",
       ![h].res[t] = kept]
  /\ HydrateOnly

Fetches(h, R) == hydration' = [hydration EXCEPT ![h].pc = "rows", ![h].fetched = R]

\* An asynchronous task is polled; a failed one is retried as a sync match;
\* the sentinels match inline. The pages of the results are one set: the code stores
\* each page before it reads the next.
HydrateFetch(h) ==
  LET task == hydration[h].snap[hydration[h].cur].task
      state == IF task.kind = "async" THEN tasks[task.id].state ELSE "inline"
  IN
  /\ Runs(h, "fetch")
  /\ \/ state = "queued" /\ Step(h, "next")
     \/ state \in {"failed", "inline"} /\ \E R \in SUBSET Talents : Fetches(h, R)
     \/ state = "done" /\ Fetches(h, tasks[task.id].results)
     \/ "vance" \in Faults /\ Step(h, "broken")
  /\ HydrateOnly

\* hydrateResultRows skips the talents that have a row.
HydrateRows(h) ==
  LET todo == hydration[h].fetched \ Stored(hydration[h].cur) IN
  /\ Runs(h, "rows")
  /\ hydration' = [hydration EXCEPT ![h].pc = "insert", ![h].todo = todo,
                     ![h].left = todo, ![h].mine = {}]
  /\ HydrateOnly

Row(t, x) == [tenant |-> t, talent |-> x, epoch |-> epoch]

\* Minimal rows one by one; a violation of the unique key is skipped, another
\* error is left to the enrichment.
HydrateInsert(h, x) ==
  LET t == hydration[h].cur IN
  /\ Runs(h, "insert") /\ x \in hydration[h].left
  /\ \/ /\ x \notin Stored(t)
        /\ matches' = matches \cup {Row(t, x)} /\ inserted' = inserted + 1
        /\ hydration' = [hydration EXCEPT ![h].left = @ \ {x}, ![h].mine = @ \cup {Row(t, x)}]
     \/ /\ x \in Stored(t) \/ "insert" \in Faults
        /\ hydration' = [hydration EXCEPT ![h].left = @ \ {x}]
        /\ UNCHANGED <<matches, inserted>>
  /\ UNCHANGED <<status, lastMatched, pools, strays, announced>> /\ HydrateKeeps

HydrateInserted(h) ==
  /\ Runs(h, "insert") /\ hydration[h].left = {}
  /\ hydration' = [hydration EXCEPT ![h].pc = "enrich", ![h].left = hydration[h].todo]
  /\ HydrateOnly

Mine(h, x) == {m \in hydration[h].mine : m.talent = x}
IsFallback(h) == hydration[h].snap[hydration[h].cur].task.kind = "fallback"

\* Enrichment updates the own row, which throws when that row is gone ...
EnrichOwn(h, x) ==
  /\ Mine(h, x) # {} /\ Mine(h, x) \subseteq matches
  /\ hydration' = [hydration EXCEPT ![h].left = @ \ {x}]
  /\ UNCHANGED <<matches, inserted, strays>>

\* ... or creates the missing one, where a unique violation is ignored.
EnrichCreate(h, x) ==
  LET t == hydration[h].cur IN
  /\ Mine(h, x) = {}
  /\ IF x \in Stored(t) THEN UNCHANGED <<matches, inserted>>
     ELSE matches' = matches \cup {Row(t, x)} /\ inserted' = inserted + 1
  /\ hydration' = [hydration EXCEPT ![h].left = @ \ {x}]
  /\ UNCHANGED strays

EnrichGivesUp(h, x) ==
  /\ ~ Mine(h, x) \subseteq matches \/ "insert" \in Faults
  /\ hydration' = [hydration EXCEPT ![h].left = @ \ {x}]
  /\ UNCHANGED <<matches, inserted, strays>>

\* A throw, of the fetch or of the write, rejects the batch; the enrichments under way go on by themselves.
\* The fallback's scan swallows the error of its sink.
EnrichThrows(h, x) ==
  /\ ~ Mine(h, x) \subseteq matches \/ "insert" \in Faults
  /\ strays' = strays \cup {[tenant |-> hydration[h].cur, talent |-> y, server |-> ServerOf[h]] :
                              y \in {z \in hydration[h].left \ {x} : Mine(h, z) = {}}}
  /\ Step(h, IF IsFallback(h) THEN "settle" ELSE "broken")
  /\ UNCHANGED <<matches, inserted>>

HydrateEnrich(h, x) ==
  /\ Runs(h, "enrich") /\ x \in hydration[h].left
  /\ EnrichOwn(h, x) \/ EnrichCreate(h, x) \/ EnrichThrows(h, x)
  /\ UNCHANGED <<status, lastMatched, pools, announced>> /\ HydrateKeeps

HydrateEnriched(h) ==
  /\ Runs(h, "enrich") /\ hydration[h].left = {}
  /\ Step(h, "settle") /\ HydrateOnly

\* The pool row becomes READY, by id; a row that is gone throws.
HydrateSettle(h) ==
  LET t == hydration[h].cur IN
  /\ Runs(h, "settle")
  /\ IF Exists(t, hydration[h].snap[t].id)
     THEN /\ pools' = [pools EXCEPT ![t].status = "READY"]
          /\ hydration' = [hydration EXCEPT ![h].pc = "next", ![h].res[t] = "ready"]
     ELSE Step(h, "broken") /\ UNCHANGED pools
  /\ UNCHANGED <<status, lastMatched, matches, strays, tallies>> /\ HydrateKeeps

HydrateBroken(h) ==
  LET t == hydration[h].cur IN
  /\ Runs(h, "broken")
  /\ pools' = IF Exists(t, hydration[h].snap[t].id)
              THEN [pools EXCEPT ![t].status = "FAILED"] ELSE pools
  /\ hydration' = [hydration EXCEPT ![h].pc = "next", ![h].res[t] = "failed"]
  /\ UNCHANGED <<status, lastMatched, matches, strays, tallies>> /\ HydrateKeeps

\* rollupStatus; partial counts as READY.
Rollup(results) ==
  IF "matching" \in results THEN "MATCHING"
  ELSE IF "ready" \in results THEN "READY" ELSE "FAILED"

Outcome(h) == Rollup({hydration[h].res[t] : t \in Tenants})

HydrateRollup(h) ==
  /\ Runs(h, "next") /\ hydration[h].rest = {}
  /\ status' = Outcome(h)
  /\ lastMatched' = (lastMatched \/ Outcome(h) = "READY")
  /\ Step(h, "tally")
  /\ UNCHANGED <<pools, matches, strays, tallies>> /\ HydrateKeeps

\* The owner is told how many rows this hydration saw appear.
HydrateTally(h) ==
  LET new == Cardinality(matches) - hydration[h].before IN
  /\ Runs(h, "tally")
  /\ announced' = IF hydration[h].status # "READY" /\ Outcome(h) = "READY"
                     /\ Cardinality(matches) > hydration[h].before
                  THEN announced + new ELSE announced
  /\ hydration' = [hydration EXCEPT ![h] = NoHydration]
  /\ UNCHANGED <<row, strays, inserted>> /\ HydrateKeeps

Stray(y) ==
  /\ y \in strays /\ strays' = strays \ {y}
  /\ \/ /\ y.talent \notin Stored(y.tenant)
        /\ matches' = matches \cup {Row(y.tenant, y.talent)} /\ inserted' = inserted + 1
     \/ UNCHANGED <<matches, inserted>>
  /\ UNCHANGED <<status, lastMatched, pools, tasks, sync, hydration, sweep, announced, counters>>

---------------------------------------------------------------------------
(* The saved-search run awaits a hydration: the one in flight, or its own. *)

SavedHydrate(s) ==
  /\ At(s, "hydrate") /\ GoTo(s, "await")
  /\ IF InFlight(ServerOf[s]) THEN UNCHANGED hydration
     ELSE \E h \in Hydrators : /\ ServerOf[h] = ServerOf[s] /\ Runs(h, "idle")
                               /\ Step(h, "load")
  /\ UNCHANGED <<row, tasks, sweep, strays, tallies, counters>>

\* ... and announces the matches that are new since it began.
SavedNotify(s) ==
  /\ At(s, "await") /\ ~InFlight(ServerOf[s])
  /\ announced' = IF Cardinality(matches) > sync[s].before
                  THEN announced + (Cardinality(matches) - sync[s].before) ELSE announced
  /\ sync' = [sync EXCEPT ![s] = NoSync]
  /\ UNCHANGED <<row, tasks, hydration, sweep, strays, inserted, counters>>

---------------------------------------------------------------------------
(* sweepStaleProjectPools and rollUpProjectStatus *)

SweepKeeps == UNCHANGED <<tasks, sync, hydration, strays, tallies, counters>>

\* A MATCHING pool passes PROJECT_POOL_STALE_MINUTES.
GrowStale(t) ==
  /\ "stale" \in Events /\ pools[t].status = "MATCHING" /\ ~pools[t].stale
  /\ pools' = [pools EXCEPT ![t].stale = TRUE]
  /\ UNCHANGED <<status, lastMatched, matches, sweep>> /\ SweepKeeps

StaleOfMatching(t) ==
  status = "MATCHING" /\ pools[t].status = "MATCHING" /\ pools[t].stale

Stale(t) == pools[t].id > 0 /\ pools[t].status = "MATCHING" /\ pools[t].stale

SweepFind ==
  /\ sweep.pc = "idle" /\ \E t \in Tenants : Stale(t)
  /\ sweep' = [sweep EXCEPT !.pc = "next",
                 !.rest = {[tenant |-> t, id |-> pools[t].id] : t \in {u \in Tenants : Stale(u)}}]
  /\ UNCHANGED row /\ SweepKeeps

SweepCount(p) ==
  /\ sweep.pc = "next" /\ p \in sweep.rest
  /\ sweep' = [sweep EXCEPT !.pc = "write", !.rest = @ \ {p}, !.cur = p.tenant,
                 !.id = p.id, !.cached = Stored(p.tenant) # {}]
  /\ UNCHANGED row /\ SweepKeeps

SweepWrite ==
  /\ sweep.pc = "write" /\ sweep' = [sweep EXCEPT !.pc = "next"]
  /\ pools' = IF Exists(sweep.cur, sweep.id)
              THEN [pools EXCEPT ![sweep.cur].status =
                      IF sweep.cached THEN "READY" ELSE "FAILED"]
              ELSE pools
  /\ UNCHANGED <<status, lastMatched, matches>> /\ SweepKeeps

PoolStatuses == {pools[t].status : t \in {u \in Tenants : pools[u].id > 0}}

\* The roll-up reads the project, and leaves it alone unless it is MATCHING.
SweepRead ==
  /\ sweep.pc = "next" /\ sweep.rest = {}
  /\ sweep' = IF status # "MATCHING" \/ "MATCHING" \in PoolStatuses THEN NoSweep
              ELSE [NoSweep EXCEPT !.pc = "rollup",
                      !.next = IF "READY" \in PoolStatuses THEN "READY" ELSE "FAILED"]
  /\ UNCHANGED row /\ SweepKeeps

SweepRollup ==
  /\ sweep.pc = "rollup" /\ sweep' = NoSweep
  /\ status' = sweep.next
  /\ UNCHANGED <<lastMatched, pools, matches>> /\ SweepKeeps

---------------------------------------------------------------------------
(* The owner's lifecycle operations, 8vance, and crashes *)

\* archiveProject, closeProject, unarchiveProject and reopenProject.
Change(op) ==
  /\ op \in Events \ {"stale"} /\ ops < MaxOps /\ ops' = ops + 1
  /\ status' = CASE op = "close" -> "CLOSED"
                 [] op = "archive" -> "ARCHIVED"
                 [] OTHER -> IF lastMatched THEN "READY" ELSE "DRAFT"
  /\ UNCHANGED <<lastMatched, pools, matches, tasks, sync, hydration, sweep, strays,
                 tallies, crashes, epoch>>

TaskEnds(i) ==
  /\ i \in DOMAIN tasks /\ tasks[i].state = "queued"
  /\ \/ \E R \in SUBSET Talents : tasks' = [tasks EXCEPT ![i] = [state |-> "done", results |-> R]]
     \/ "task" \in Faults /\ tasks' = [tasks EXCEPT ![i].state = "failed"]
  /\ UNCHANGED <<row, sync, hydration, sweep, strays, tallies, counters>>

Crash(v) ==
  /\ crashes < MaxCrashes /\ crashes' = crashes + 1
  /\ sync' = [s \in Syncs |-> IF ServerOf[s] = v THEN NoSync ELSE sync[s]]
  /\ hydration' = [h \in Hydrators |-> IF ServerOf[h] = v THEN NoHydration ELSE hydration[h]]
  /\ sweep' = IF ServerOf["sweep"] = v THEN NoSweep ELSE sweep
  /\ strays' = {y \in strays : y.server # v}
  /\ UNCHANGED <<row, tasks, tallies, ops, epoch>>

SyncNext(s) ==
  \/ \E k \in Kinds : BeginSync(s, k)
  \/ BeginEdit(s) \/ BeginSaved(s)
  \/ SavedReset(s) \/ SyncLoad(s) \/ SyncFailed(s)
  \/ \E t \in Tenants : SyncPool(s, t)
  \/ SyncCall(s) \/ SyncSaveJob(s) \/ SyncStart(s) \/ SyncSaveTask(s)
  \/ SyncCount(s) \/ SyncPreserve(s) \/ SyncRollup(s)
  \/ SavedHydrate(s) \/ SavedNotify(s)

HydrateNext(h) ==
  \/ HydrateBegin(h) \/ HydrateLoad(h) \/ HydrateCount(h)
  \/ \E t \in Tenants : HydratePool(h, t)
  \/ HydrateFetch(h) \/ HydrateRows(h)
  \/ \E x \in Talents : HydrateInsert(h, x) \/ HydrateEnrich(h, x)
  \/ HydrateInserted(h) \/ HydrateEnriched(h)
  \/ HydrateSettle(h) \/ HydrateBroken(h) \/ HydrateRollup(h) \/ HydrateTally(h)

SweepNext ==
  \/ SweepFind \/ (\E p \in sweep.rest : SweepCount(p))
  \/ SweepWrite \/ SweepRead \/ SweepRollup

Servers == {ServerOf[p] : p \in DOMAIN ServerOf}

MatchingNext ==
  \/ \E s \in Syncs : SyncNext(s)
  \/ \E h \in Hydrators : HydrateNext(h)
  \/ SweepNext
  \/ \E y \in strays : Stray(y)
  \/ \E t \in Tenants : GrowStale(t)
  \/ \E op \in Events : Change(op)
  \/ \E i \in DOMAIN tasks : TaskEnds(i)
  \/ \E v \in Servers : Crash(v)

MatchingSpec == MatchingInit /\ [][MatchingNext]_vars

\* The cron tick and the status polls keep sweeping; what was called goes on.
LiveMatchingSpec ==
  /\ MatchingSpec
  /\ WF_vars(SweepNext)
  /\ \A t \in Tenants : WF_vars(GrowStale(t))
---------------------------------------------------------------------------
(* Properties *)

PoolRows == [id : Nat, status : PoolStatus, job : BOOLEAN, stale : BOOLEAN,
             task : [kind : {"none", "async", "sync", "fallback"}, id : 0 .. Len(tasks)]]

\* The rows and the processes have their types, a task id names a task that was
\* started, and there is at most one Match row per pool and talent.
MatchingTypeOK ==
  /\ status \in ProjectStatus /\ lastMatched \in BOOLEAN
  /\ pools \in [Tenants -> PoolRows]
  /\ matches \subseteq [tenant : Tenants, talent : Talents, epoch : 1 .. epoch]
  /\ \A m, n \in matches : m.tenant = n.tenant /\ m.talent = n.talent => m = n
  /\ \A i \in DOMAIN tasks : tasks[i].state \in {"queued", "done", "failed"}
                             /\ tasks[i].results \subseteq Talents
  /\ \A h \in Hydrators : hydration[h].fetched \subseteq Talents
  /\ inserted \in Nat /\ announced \in Nat /\ ops \in 0 .. MaxOps

\* A hydration (hydrate.ts, hydrateResultRows) marks a pool READY only when every
\* result it fetched from 8vance has a Match row, whatever other hydrations,
\* edits of the pools and failed inserts did meanwhile.  (The fallback ranker
\* swallows the errors of its sink and is excepted.)
NothingLost ==
  \A h \in Hydrators :
    LET t == hydration[h].cur IN
    Runs(h, "settle") /\ ~IsFallback(h) /\ Exists(t, hydration[h].snap[t].id)
      => hydration[h].fetched \subseteq Stored(t)

\* While the owner's hydrations all run in one server process, no Match row is
\* counted in two notifications (hydrate.ts: "Notify the project owner ONCE").
AnnouncedOnce == announced <= inserted

\* A pool that is MATCHING does not stay so for ever, although hydrations and
\* syncs may crash between any two steps (sweepStaleProjectPools).
PoolMatching(t) == pools[t].status = "MATCHING"

\* lib/saved-search/runner.ts: "A CLOSED project's reveals are ended and its
\* shortlist hidden - never resurrect it with a fresh match."
SavedSearchKeepsClosed ==
  \A s \in Syncs : sync[s].kind = "saved" /\ SyncRollup(s) => status # "CLOSED"

\* rollUpProjectStatus: "ONLY touches a project that is currently MATCHING -
\* never clobbers a DRAFT/READY/ARCHIVED/CLOSED project".
SweepNeverClobbers == SweepRollup => status = "MATCHING"

\* updateProjectAction deletes the matches of a removed pool "so the shortlist
\* shows no orphaned cards".
NoOrphanedCards == \A m \in matches : pools[m.tenant].id > 0

Quiet == /\ \A s \in Syncs : At(s, "idle")
         /\ \A h \in Hydrators : Runs(h, "idle")
         /\ sweep.pc = "idle" /\ strays = {}

\* rerunMatch: "the project is never left MATCHING with no task to poll".
NeverMatchingWithoutTask ==
  Quiet /\ status = "MATCHING" =>
    \E t \in Tenants : pools[t].status = "MATCHING" /\ pools[t].task # NoTask

\* rerunMatch stamps "a fresh eightvanceTaskId" that the poller then drives
\* "exactly as on first match": a pool becomes READY with the results of the task
\* its row names.
ReadyFromCurrentTask ==
  \A h \in Hydrators :
    LET t == hydration[h].cur IN
    HydrateSettle(h) /\ pools[t].id = hydration[h].snap[t].id
      => pools[t].task = hydration[h].snap[t].task

\* "Notify the project owner ONCE, on the transition into a settled/ready state":
\* when a first match has settled, every row it stored has been announced.
AllAnnounced == Quiet /\ status = "READY" => announced = inserted
---------------------------------------------------------------------------
(* Proofs.  Ids of pool rows are never used again, so a pool that still has *)
(* the id of a snapshot has kept its Match rows since, whatever was edited. *)

PoolShape == [id : Nat, status : PoolStatus, job : BOOLEAN, stale : BOOLEAN,
              task : [kind : {"none", "async", "sync", "fallback"}, id : Nat]]
MatchRows == [tenant : Tenants, talent : Talents, epoch : Nat]

SyncShape ==
  [pc : {"idle", "reset", "load", "failed", "next", "job", "saveJob", "start", "saveTask",
         "error", "preserve", "hydrate", "await"},
   kind : {"create", "rerun", "edit", "saved"}, snap : [Tenants -> PoolShape],
   rest : SUBSET Tenants, cur : Tenants \cup {"none"},
   task : [kind : {"none", "async", "sync", "fallback"}, id : Nat], cached : BOOLEAN,
   out : [Tenants -> {"none", "MATCHING", "READY", "FAILED"}], before : Nat]

HydrationShape ==
  [pc : {"idle", "load", "count", "next", "fetch", "rows", "insert", "enrich", "settle",
         "broken", "tally"},
   status : ProjectStatus, snap : [Tenants -> PoolShape], before : Nat,
   rest : SUBSET Tenants, cur : Tenants \cup {"none"}, fetched : SUBSET Talents,
   todo : SUBSET Talents, mine : SUBSET MatchRows, left : SUBSET Talents,
   res : [Tenants -> {"none", "ready", "failed", "matching"}]]

SweepShape ==
  [pc : {"idle", "next", "write", "rollup"}, rest : SUBSET [tenant : Tenants, id : Nat],
   cached : BOOLEAN, next : {"READY", "FAILED"}, cur : Tenants \cup {"none"}, id : Nat]

\* One Match row per pool and talent ...
MatchesOK ==
  /\ matches \subseteq MatchRows /\ IsFiniteSet(matches)
  /\ \A m \in matches : m.epoch \in 1 .. epoch
  /\ \A m, n \in matches : m.tenant = n.tenant /\ m.talent = n.talent => m = n

\* ... and no pool with an id that was not handed out yet.
RowsOK ==
  /\ status \in ProjectStatus /\ lastMatched \in BOOLEAN
  /\ pools \in [Tenants -> PoolShape]
  /\ epoch \in Nat \ {0}
  /\ \A t \in Tenants : pools[t].id <= epoch
  /\ MatchesOK

\* A task id names a task that was started.
Started(k, n) == k.id \in 0 .. n /\ (k.kind = "async" => k.id > 0)
TasksOK ==
  /\ tasks \in Seq([state : {"queued", "done", "failed"}, results : SUBSET Talents])
  /\ \A t \in Tenants : Started(pools[t].task, Len(tasks))
SyncsOK ==
  /\ sync \in [Syncs -> SyncShape]
  /\ \A s \in Syncs : Started(sync[s].task, Len(tasks))
HydrationsOK ==
  /\ hydration \in [Hydrators -> HydrationShape]
  /\ \A h \in Hydrators : \A t \in Tenants : Started(hydration[h].snap[t].task, Len(tasks))

TalliesOK == inserted \in Nat /\ announced \in Nat /\ ops \in 0 .. MaxOps
SweepOK == sweep \in SweepShape
StraysOK == \A y \in strays : y.tenant \in Tenants /\ y.talent \in Talents

\* What a hydration fetched and is not about to store has a row, in the pool row that
\* its snapshot saw.
Has(h, R) ==
  LET t == hydration[h].cur IN
  Exists(t, hydration[h].snap[t].id) => R \subseteq Stored(t)
Hydrated(h) ==
  /\ \A t \in Tenants : hydration[h].snap[t].id <= epoch
  /\ hydration[h].pc \in {"fetch", "rows", "insert", "enrich", "settle", "broken"}
       => hydration[h].cur \in Tenants
  /\ hydration[h].pc \in {"insert", "enrich"}
       => \A m \in hydration[h].mine : m.tenant = hydration[h].cur
  /\ Runs(h, "insert") => Has(h, hydration[h].fetched \ hydration[h].todo)
  /\ Runs(h, "enrich") => Has(h, hydration[h].fetched \ hydration[h].left)
  /\ Runs(h, "settle") /\ ~IsFallback(h) => Has(h, hydration[h].fetched)

MatchingIInv ==
  /\ RowsOK /\ TasksOK /\ TalliesOK
  /\ SyncsOK /\ HydrationsOK /\ SweepOK /\ StraysOK
  /\ \A h \in Hydrators : Hydrated(h)

\* Which steps write the Project row, its pools and its matches.
RowWriters ==
  \/ \E s \in Syncs : \/ BeginEdit(s) \/ SavedReset(s) \/ SyncFailed(s) \/ SyncSaveJob(s)
                      \/ SyncSaveTask(s) \/ SyncPreserve(s) \/ SyncRollup(s)
  \/ \E h \in Hydrators : \/ \E x \in Talents : HydrateInsert(h, x) \/ HydrateEnrich(h, x)
                          \/ HydrateSettle(h) \/ HydrateBroken(h) \/ HydrateRollup(h)
  \/ \E y \in strays : Stray(y)
  \/ SweepWrite \/ SweepRollup
  \/ \E t \in Tenants : GrowStale(t)
  \/ \E op \in Events : Change(op)

LEMMA RowActions == [MatchingNext]_vars => RowWriters \/ UNCHANGED <<row, epoch>>
<1>1. ASSUME NEW s \in Syncs, SyncNext(s)
      PROVE  RowWriters \/ UNCHANGED <<row, epoch>>
  <2>1. CASE (\E k \in Kinds : BeginSync(s, k)) \/ BeginSaved(s) \/ SyncLoad(s)
    BY <2>1, ZenonT(60) DEF BeginSync, BeginSaved, SyncLoad, SyncKeeps, counters
  <2>2. CASE (\E t \in Tenants : SyncPool(s, t)) \/ SyncCall(s) \/ SyncStart(s)
    BY <2>2 DEF SyncPool, SyncCall, SyncStart, SyncKeeps, counters
  <2>3. CASE SyncCount(s) \/ SavedHydrate(s) \/ SavedNotify(s)
    BY <2>3 DEF SyncCount, SavedHydrate, SavedNotify, SyncKeeps, counters
  <2> QED
    BY <1>1, <2>1, <2>2, <2>3, Zenon DEF SyncNext, RowWriters
<1>2. ASSUME NEW h \in Hydrators, HydrateNext(h)
      PROVE  RowWriters \/ UNCHANGED <<row, epoch>>
  <2>1. CASE HydrateBegin(h) \/ HydrateLoad(h) \/ HydrateCount(h)
             \/ \E t \in Tenants : HydratePool(h, t)
    BY <2>1, ZenonT(60) DEF HydrateBegin, HydrateLoad, HydrateCount, HydratePool, HydrateOnly,
       HydrateKeeps, counters
  <2>2. CASE HydrateFetch(h) \/ HydrateRows(h) \/ HydrateInserted(h) \/ HydrateEnriched(h)
    BY <2>2 DEF HydrateFetch, HydrateRows, HydrateInserted, HydrateEnriched, HydrateOnly,
       HydrateKeeps, counters
  <2>3. CASE HydrateTally(h)
    BY <2>3 DEF HydrateTally, HydrateKeeps, counters
  <2> QED
    BY <1>2, <2>1, <2>2, <2>3, ZenonT(60) DEF HydrateNext, RowWriters
<1>3. CASE SweepNext
  BY <1>3, Zenon DEF SweepNext, SweepFind, SweepCount, SweepRead, SweepKeeps, counters,
     RowWriters
<1>4. ASSUME \/ \E i \in DOMAIN tasks : TaskEnds(i)
             \/ \E v \in Servers : Crash(v)
             \/ UNCHANGED vars
      PROVE  UNCHANGED <<row, epoch>>
  BY <1>4 DEF TaskEnds, Crash, counters, vars, row
<1> QED
  BY <1>1, <1>2, <1>3, <1>4, Zenon DEF MatchingNext, RowWriters

\* A pool row that was there before a step and is there after it has kept its matches.
PoolsKeep ==
  /\ epoch' \in Nat /\ epoch <= epoch'
  /\ \A t \in Tenants : pools'[t].id \in 1 .. epoch
       => pools'[t].id = pools[t].id /\ Stored(t) \subseteq Stored(t)'

LEMMA PoolsKeepStep == RowsOK /\ [MatchingNext]_vars => PoolsKeep
<1> SUFFICES ASSUME RowsOK, [MatchingNext]_vars
             PROVE  PoolsKeep
  OBVIOUS
<1>1. epoch \in Nat \ {0} /\ pools \in [Tenants -> PoolShape] /\ epoch <= epoch
      /\ \A t \in Tenants : pools[t].id \in Nat /\ pools[t].id <= epoch
  BY DEF RowsOK, PoolShape
<1>2. CASE UNCHANGED <<row, epoch>>
  BY <1>1, <1>2 DEF PoolsKeep, row, Stored
<1>3. CASE \E s \in Syncs : BeginEdit(s)
  <2>1. PICK P \in SUBSET Tenants :
          /\ pools' = [t \in Tenants |->
               IF t \notin P THEN NoPool
               ELSE NewPool(IF pools[t].id > 0 THEN pools[t].id ELSE epoch + 1)]
          /\ matches' = {m \in matches : m.tenant \in P \/ pools[m.tenant].id = 0}
          /\ epoch' = epoch + 1
    BY <1>3 DEF BeginEdit
  <2>2. ASSUME NEW t \in Tenants, pools'[t].id \in 1 .. epoch
        PROVE  t \in P /\ pools'[t].id = pools[t].id
    BY <1>1, <2>1, <2>2 DEF NewPool, NoPool
  <2>3. ASSUME NEW t \in P
        PROVE  Stored(t) \subseteq Stored(t)'
    BY <2>1 DEF Stored
  <2> QED
    BY <1>1, <2>1, <2>2, <2>3 DEF PoolsKeep
<1>4. ASSUME epoch' = epoch, matches \subseteq matches',
             \A t \in Tenants : pools'[t].id = pools[t].id
      PROVE  PoolsKeep
  BY <1>1, <1>4 DEF PoolsKeep, Stored
<1>5. ASSUME NEW s \in Syncs,
             \/ SavedReset(s) \/ SyncFailed(s) \/ SyncSaveJob(s)
             \/ SyncSaveTask(s) \/ SyncPreserve(s) \/ SyncRollup(s)
      PROVE  PoolsKeep
  <2>1. epoch' = epoch /\ matches' = matches
    BY <1>5 DEF SavedReset, SyncFailed, SyncSaveJob, SyncSaveTask, SyncPreserve, SyncRollup,
       SyncKeeps, counters
  <2>2. CASE SavedReset(s)
    BY <1>1, <1>4, <2>1, <2>2 DEF SavedReset, PoolShape, NoPool
  <2>3. CASE SyncSaveJob(s) \/ SyncPreserve(s)
    BY <1>1, <1>4, <2>1, <2>3 DEF SyncSaveJob, SyncPreserve, PoolShape
  <2>4. CASE SyncSaveTask(s)
    BY <1>1, <1>4, <2>1, <2>4 DEF SyncSaveTask, PoolShape
  <2>5. CASE SyncFailed(s) \/ SyncRollup(s)
    BY <1>1, <1>4, <2>1, <2>5 DEF SyncFailed, SyncRollup
  <2> QED
    BY <1>5, <2>2, <2>3, <2>4, <2>5
<1>6. ASSUME NEW h \in Hydrators,
             \/ \E x \in Talents : HydrateInsert(h, x) \/ HydrateEnrich(h, x)
             \/ HydrateSettle(h) \/ HydrateBroken(h) \/ HydrateRollup(h)
      PROVE  PoolsKeep
  <2>1. epoch' = epoch
    BY <1>6 DEF HydrateInsert, HydrateEnrich, HydrateSettle, HydrateBroken, HydrateRollup,
       HydrateKeeps, counters
  <2>2. CASE \E x \in Talents : HydrateInsert(h, x)
    BY <1>1, <1>4, <2>1, <2>2 DEF HydrateInsert
  <2>3. CASE \E x \in Talents : HydrateEnrich(h, x)
    BY <1>1, <1>4, <2>1, <2>3 DEF HydrateEnrich, EnrichOwn, EnrichCreate, EnrichThrows
  <2>4. CASE HydrateSettle(h) \/ HydrateBroken(h)
    BY <1>1, <1>4, <2>1, <2>4 DEF HydrateSettle, HydrateBroken, PoolShape
  <2>5. CASE HydrateRollup(h)
    BY <1>1, <1>4, <2>1, <2>5 DEF HydrateRollup
  <2> QED
    BY <1>6, <2>2, <2>3, <2>4, <2>5
<1>7. CASE \/ \E y \in strays : Stray(y)
           \/ SweepWrite \/ SweepRollup
           \/ \E t \in Tenants : GrowStale(t)
           \/ \E op \in Events : Change(op)
  BY <1>1, <1>4, <1>7 DEF Stray, SweepWrite, SweepRollup, GrowStale, Change, SweepKeeps,
     counters, PoolShape
<1> QED
  BY <1>2, <1>3, <1>5, <1>6, <1>7, RowActions, Zenon DEF RowWriters

\* A talent without a row gets one.
LEMMA AddRow ==
  ASSUME RowsOK, NEW t \in Tenants, NEW x \in Talents, x \notin Stored(t),
         matches' = matches \cup {Row(t, x)}, epoch' = epoch
  PROVE  MatchesOK'
<1>1. matches' \subseteq MatchRows /\ IsFiniteSet(matches')
  <2>1. Row(t, x) \in MatchRows /\ matches \subseteq MatchRows /\ IsFiniteSet(matches)
    BY DEF RowsOK, MatchesOK, MatchRows, Row
  <2>2. IsFiniteSet(matches \cup {Row(t, x)})
    BY <2>1, FS_AddElement, Zenon
  <2> QED
    BY <2>1, <2>2
<1>2. \A m \in matches' : m.epoch \in 1 .. epoch'
  BY DEF RowsOK, MatchesOK, Row
<1>3. \A m \in matches : ~(m.tenant = t /\ m.talent = x)
  BY DEF Stored
<1>4. \A m, n \in matches' : m.tenant = n.tenant /\ m.talent = n.talent => m = n
  BY <1>3 DEF RowsOK, MatchesOK, Row
<1> QED
  BY <1>1, <1>2, <1>4 DEF MatchesOK

\* A pool row stays one when a column of it is written.
LEMMA PoolShapes ==
  /\ NoPool \in PoolShape /\ \A n \in Nat : NewPool(n) \in PoolShape
  /\ \A p \in PoolShape :
       /\ [p EXCEPT !.job = TRUE] \in PoolShape /\ [p EXCEPT !.stale = TRUE] \in PoolShape
       /\ \A x \in PoolStatus : [p EXCEPT !.status = x] \in PoolShape
       /\ [p EXCEPT !.task = NoTask, !.status = "DRAFT"] \in PoolShape
  BY DEF PoolShape, PoolStatus, NoPool, NewPool, NoTask

LEMMA PoolWrites ==
  ASSUME NEW P \in [Tenants -> PoolShape], NEW t
  PROVE  /\ [P EXCEPT ![t].job = TRUE] \in [Tenants -> PoolShape]
         /\ \A x \in PoolStatus : [P EXCEPT ![t].status = x] \in [Tenants -> PoolShape]
<1>1. CASE t \in Tenants
  BY <1>1, ZenonT(60) DEF PoolShape, PoolStatus
<1>2. ASSUME t \notin Tenants, NEW e
      PROVE  [P EXCEPT ![t] = e] = P
  BY <1>2
<1> QED
  BY <1>1, <1>2, Zenon

LEMMA RowsStep == MatchingIInv /\ [MatchingNext]_vars => RowsOK'
<1> SUFFICES ASSUME MatchingIInv, [MatchingNext]_vars
             PROVE  RowsOK'
  OBVIOUS
<1>1. /\ RowsOK /\ MatchesOK /\ pools \in [Tenants -> PoolShape] /\ status \in ProjectStatus
      /\ \A t \in Tenants : pools[t].id \in Nat /\ pools[t].id <= epoch
  BY DEF MatchingIInv, RowsOK, PoolShape
<1>2. ASSUME UNCHANGED <<matches, epoch>>
      PROVE  MatchesOK'
  BY <1>1, <1>2 DEF MatchesOK
<1>3. ASSUME UNCHANGED <<epoch, lastMatched>>, MatchesOK', status' \in ProjectStatus,
             pools' \in [Tenants -> PoolShape], \A t \in Tenants : pools'[t].id = pools[t].id
      PROVE  RowsOK'
  BY <1>1, <1>3 DEF RowsOK
<1>4. CASE UNCHANGED <<row, epoch>>
  BY <1>1, <1>2, <1>3, <1>4 DEF row
<1>5. ASSUME NEW s \in Syncs, BeginEdit(s)
      PROVE  RowsOK'
  <2>1. PICK P \in SUBSET Tenants :
          /\ pools' = [t \in Tenants |->
               IF t \notin P THEN NoPool
               ELSE NewPool(IF pools[t].id > 0 THEN pools[t].id ELSE epoch + 1)]
          /\ matches' = {m \in matches : m.tenant \in P \/ pools[m.tenant].id = 0}
          /\ epoch' = epoch + 1 /\ status' = "DRAFT" /\ lastMatched' = lastMatched
    BY <1>5 DEF BeginEdit
  <2>2. pools' \in [Tenants -> PoolShape]
    <3>1. \A t \in Tenants : (IF pools[t].id > 0 THEN pools[t].id ELSE epoch + 1) \in Nat
      BY <1>1 DEF RowsOK
    <3> QED
      BY <2>1, <3>1, PoolShapes, Zenon
  <2>3. \A t \in Tenants : pools'[t].id <= epoch'
    BY <1>1, <2>1 DEF NewPool, NoPool, RowsOK
  <2>4. matches' \subseteq matches
    BY <2>1
  <2>5. IsFiniteSet(matches')
    BY <1>1, <2>4, FS_Subset DEF MatchesOK
  <2>6. MatchesOK'
    BY <1>1, <2>1, <2>4, <2>5 DEF MatchesOK, RowsOK
  <2> QED
    BY <1>1, <2>1, <2>2, <2>3, <2>6 DEF RowsOK, ProjectStatus
<1>6. ASSUME NEW s \in Syncs,
             \/ SavedReset(s) \/ SyncFailed(s) \/ SyncSaveJob(s)
             \/ SyncSaveTask(s) \/ SyncPreserve(s) \/ SyncRollup(s)
      PROVE  RowsOK'
  <2>1. UNCHANGED <<matches, epoch, lastMatched>> /\ sync[s] \in SyncShape
    BY <1>6 DEF SavedReset, SyncFailed, SyncSaveJob, SyncSaveTask, SyncPreserve, SyncRollup,
       SyncKeeps, counters, MatchingIInv, SyncsOK
  <2>2. CASE SavedReset(s)
    <3>1. pools' \in [Tenants -> PoolShape] /\ UNCHANGED status
      BY <1>1, <2>2, PoolShapes DEF SavedReset
    <3>2. \A t \in Tenants : pools'[t].id = pools[t].id
      BY <1>1, <2>2 DEF SavedReset, NoPool, PoolShape
    <3> QED
      BY <1>1, <1>2, <1>3, <2>1, <3>1, <3>2
  <2>3. CASE SyncSaveJob(s) \/ SyncPreserve(s)
    <3>1. pools' \in [Tenants -> PoolShape] /\ UNCHANGED status
      <4>1. CASE SyncSaveJob(s)
        <5>1. [pools EXCEPT ![sync[s].cur].job = TRUE] \in [Tenants -> PoolShape]
          BY <1>1, PoolWrites, Zenon
        <5>2. \/ pools' = [pools EXCEPT ![sync[s].cur].job = TRUE]
              \/ pools' = pools
          BY <4>1, Zenon DEF SyncSaveJob
        <5>3. UNCHANGED status
          BY <4>1 DEF SyncSaveJob
        <5> QED
          BY <1>1, <5>1, <5>2, <5>3, Zenon
      <4>2. CASE SyncPreserve(s)
        <5> DEFINE kept == IF sync[s].cached THEN "READY" ELSE "FAILED"
        <5>1. kept \in PoolStatus
          BY DEF PoolStatus
        <5>2. [pools EXCEPT ![sync[s].cur].status = kept] \in [Tenants -> PoolShape]
          BY <1>1, <5>1, PoolWrites, Zenon
        <5>3. \/ pools' = [pools EXCEPT ![sync[s].cur].status = kept]
              \/ pools' = pools
          BY <4>2, Zenon DEF SyncPreserve
        <5>4. UNCHANGED status
          BY <4>2 DEF SyncPreserve
        <5> HIDE DEF kept
        <5> QED
          BY <1>1, <5>3, <5>4, <5>2, Zenon
      <4> QED
        BY <2>3, <4>1, <4>2
    <3>2. \A t \in Tenants : pools'[t].id = pools[t].id
      BY <1>1, <2>3 DEF SyncSaveJob, SyncPreserve, PoolShape
    <3> QED
      BY <1>1, <1>2, <1>3, <2>1, <3>1, <3>2
  <2>4. CASE SyncSaveTask(s)
    <3>1. sync[s].task \in [kind : {"none", "async", "sync", "fallback"}, id : Nat]
      BY <2>1 DEF SyncShape
    <3> QED
      BY <1>1, <1>2, <1>3, <2>1, <2>4, <3>1 DEF SyncSaveTask, PoolShape, PoolStatus
  <2>5. CASE SyncFailed(s) \/ SyncRollup(s)
    BY <1>1, <1>2, <1>3, <2>1, <2>5 DEF SyncFailed, SyncRollup, ProjectStatus
  <2> QED
    BY <1>6, <2>2, <2>3, <2>4, <2>5
<1>7. ASSUME NEW h \in Hydrators,
             \/ \E x \in Talents : HydrateInsert(h, x) \/ HydrateEnrich(h, x)
             \/ HydrateSettle(h) \/ HydrateBroken(h) \/ HydrateRollup(h)
      PROVE  RowsOK'
  <2>1. epoch' = epoch /\ Hydrated(h)
    BY <1>7 DEF HydrateInsert, HydrateEnrich, HydrateSettle, HydrateBroken, HydrateRollup,
       HydrateKeeps, counters, MatchingIInv
  <2>2. ASSUME NEW x \in Talents, HydrateInsert(h, x)
        PROVE  RowsOK'
    <3>1. hydration[h].cur \in Tenants
      BY <2>1, <2>2 DEF Hydrated, HydrateInsert, Runs
    <3>2. MatchesOK'
      BY <1>1, <1>2, <2>1, <2>2, <3>1, AddRow DEF HydrateInsert
    <3> QED
      BY <1>1, <1>3, <2>1, <2>2, <3>2 DEF HydrateInsert
  <2>3. ASSUME NEW x \in Talents, HydrateEnrich(h, x)
        PROVE  RowsOK'
    <3>1. hydration[h].cur \in Tenants
      BY <2>1, <2>3 DEF Hydrated, HydrateEnrich, Runs
    <3>2. MatchesOK'
      BY <1>1, <1>2, <2>1, <2>3, <3>1, AddRow
      DEF HydrateEnrich, EnrichOwn, EnrichCreate, EnrichThrows
    <3> QED
      BY <1>1, <1>3, <2>1, <2>3, <3>2 DEF HydrateEnrich
  <2>4. CASE HydrateSettle(h) \/ HydrateBroken(h)
    BY <1>1, <1>2, <1>3, <2>1, <2>4 DEF HydrateSettle, HydrateBroken, PoolShape, PoolStatus
  <2>5. CASE HydrateRollup(h)
    <3>1. status' \in ProjectStatus /\ lastMatched' \in BOOLEAN
      BY <1>1, <2>5 DEF HydrateRollup, Outcome, Rollup, ProjectStatus, RowsOK
    <3>2. UNCHANGED <<pools, matches>>
      BY <2>5 DEF HydrateRollup
    <3> QED
      BY <1>1, <1>2, <2>1, <3>1, <3>2 DEF RowsOK
  <2> QED
    BY <1>7, <2>2, <2>3, <2>4, <2>5
<1>8. ASSUME NEW y \in strays, Stray(y)
      PROVE  RowsOK'
  <2>1. MatchesOK'
    BY <1>1, <1>2, <1>8, AddRow DEF Stray, counters, MatchingIInv, StraysOK
  <2> QED
    BY <1>1, <1>3, <1>8, <2>1 DEF Stray, counters
<1>9. CASE \/ SweepWrite \/ SweepRollup
           \/ \E t \in Tenants : GrowStale(t)
           \/ \E op \in Events : Change(op)
  <2>1. UNCHANGED <<matches, epoch, lastMatched>>
    BY <1>9 DEF SweepWrite, SweepRollup, GrowStale, Change, SweepKeeps, counters
  <2>2. CASE SweepWrite \/ \E t \in Tenants : GrowStale(t)
    <3>1. pools' \in [Tenants -> PoolShape] /\ UNCHANGED status
      <4>1. CASE \E t \in Tenants : GrowStale(t)
        BY <1>1, <4>1, ZenonT(60) DEF GrowStale, PoolShape
      <4>2. CASE SweepWrite
        <5> DEFINE kept == IF sweep.cached THEN "READY" ELSE "FAILED"
        <5>1. kept \in PoolStatus
          BY DEF PoolStatus
        <5>2. [pools EXCEPT ![sweep.cur].status = kept] \in [Tenants -> PoolShape]
          BY <1>1, <5>1, PoolWrites, Zenon
        <5>3. \/ pools' = [pools EXCEPT ![sweep.cur].status = kept]
              \/ pools' = pools
          BY <4>2, Zenon DEF SweepWrite
        <5>4. UNCHANGED status
          BY <4>2 DEF SweepWrite
        <5> HIDE DEF kept
        <5> QED
          BY <1>1, <5>3, <5>4, <5>2, Zenon
      <4> QED
        BY <2>2, <4>1, <4>2
    <3>2. \A t \in Tenants : pools'[t].id = pools[t].id
      BY <1>1, <2>2 DEF SweepWrite, GrowStale, PoolShape
    <3> QED
      BY <1>1, <1>2, <1>3, <2>1, <3>1, <3>2
  <2>3. CASE SweepRollup \/ \E op \in Events : Change(op)
    BY <1>1, <1>2, <1>3, <2>1, <2>3
    DEF SweepRollup, Change, ProjectStatus, MatchingIInv, SweepOK, SweepShape
  <2> QED
    BY <1>9, <2>2, <2>3
<1> QED
  BY <1>4, <1>5, <1>6, <1>7, <1>8, <1>9, RowActions, Zenon DEF RowWriters

\* What the processes other than the syncs leave alone.
LEMMA SyncsFrame ==
  ASSUME [MatchingNext]_vars, ~\E s \in Syncs : SyncNext(s), ~\E v \in Servers : Crash(v)
  PROVE  UNCHANGED sync
<1>1. ASSUME NEW h \in Hydrators, HydrateNext(h)
      PROVE  UNCHANGED sync
  BY <1>1, Zenon DEF HydrateNext, HydrateBegin, HydrateLoad, HydrateCount, HydratePool,
     HydrateFetch, HydrateRows, HydrateInserted, HydrateEnriched, HydrateInsert,
     HydrateEnrich, HydrateSettle, HydrateBroken, HydrateRollup, HydrateTally,
     HydrateOnly, HydrateKeeps
<1>2. CASE SweepNext
  BY <1>2, Zenon DEF SweepNext, SweepFind, SweepCount, SweepWrite, SweepRead, SweepRollup,
     SweepKeeps
<1>3. ASSUME \/ \E y \in strays : Stray(y)
             \/ \E t \in Tenants : GrowStale(t)
             \/ \E op \in Events : Change(op)
             \/ \E i \in DOMAIN tasks : TaskEnds(i)
             \/ UNCHANGED vars
      PROVE  UNCHANGED sync
  BY <1>3 DEF Stray, GrowStale, Change, TaskEnds, SweepKeeps, vars
<1> QED
  BY <1>1, <1>2, <1>3, Zenon DEF MatchingNext

\* Tasks stay started.
LEMMA TasksGrow ==
  ASSUME TasksOK, [MatchingNext]_vars
  PROVE  /\ tasks' \in Seq([state : {"queued", "done", "failed"}, results : SUBSET Talents])
         /\ Len(tasks) \in Nat /\ Len(tasks)' \in Nat /\ Len(tasks) <= Len(tasks)'
<1> DEFINE T == [state : {"queued", "done", "failed"}, results : SUBSET Talents]
<1> DEFINE Changed == tasks' \in Seq(T) /\ Len(tasks)' = Len(tasks)
<1>1. tasks \in Seq(T)
  BY DEF TasksOK
<1>2. ASSUME NEW s \in Syncs, SyncStart(s)
      PROVE  tasks' = tasks \/ tasks' = Append(tasks, [state |-> "queued", results |-> {}])
  BY <1>2, Zenon DEF SyncStart
<1>3. ASSUME NEW i \in DOMAIN tasks, TaskEnds(i)
      PROVE  Changed
  <2>1. i \in 1 .. Len(tasks)
    BY <1>1, <1>3
  <2>2. tasks[i] \in T
    BY <1>1, <2>1, ElementOfSeq, Zenon
  <2>3. \A R \in SUBSET Talents : [state |-> "done", results |-> R] \in T
    OBVIOUS
  <2>4. [tasks[i] EXCEPT !.state = "failed"] \in T
    BY <2>2
  <2>5. \E e \in T : tasks' = [tasks EXCEPT ![i] = e]
    BY <1>3, <2>3, <2>4, Zenon DEF TaskEnds
  <2> HIDE DEF T
  <2> QED
    BY <1>1, <1>3, <2>5
<1>4. ASSUME NEW s \in Syncs, SyncNext(s), ~SyncStart(s)
      PROVE  UNCHANGED tasks
  BY <1>4, Zenon DEF SyncNext, BeginSync, BeginEdit, BeginSaved, SavedReset, SyncLoad,
     SyncFailed, SyncPool, SyncCall, SyncSaveJob, SyncSaveTask, SyncCount,
     SyncPreserve, SyncRollup, SavedHydrate, SavedNotify
<1>5. ASSUME NEW h \in Hydrators, HydrateNext(h)
      PROVE  UNCHANGED tasks
  BY <1>5, Zenon DEF HydrateNext, HydrateBegin, HydrateLoad, HydrateCount, HydratePool,
     HydrateFetch, HydrateRows, HydrateInserted, HydrateEnriched, HydrateInsert,
     HydrateEnrich, HydrateSettle, HydrateBroken, HydrateRollup, HydrateTally,
     HydrateOnly, HydrateKeeps
<1>6. ASSUME SweepNext
      PROVE  UNCHANGED tasks
  BY <1>6, Zenon DEF SweepNext, SweepFind, SweepCount, SweepWrite, SweepRead, SweepRollup,
     SweepKeeps
<1>7. ASSUME \/ \E y \in strays : Stray(y)
             \/ \E t \in Tenants : GrowStale(t)
             \/ \E op \in Events : Change(op)
             \/ \E v \in Servers : Crash(v)
             \/ UNCHANGED vars
      PROVE  UNCHANGED tasks
  BY <1>7 DEF Stray, GrowStale, Change, Crash, SweepKeeps, vars
<1> HIDE DEF T, Changed
<1>8. tasks' = tasks \/ tasks' = Append(tasks, [state |-> "queued", results |-> {}])
      \/ Changed
  BY <1>2, <1>3, <1>4, <1>5, <1>6, <1>7, Zenon DEF MatchingNext
<1>9. [state |-> "queued", results |-> {}] \in T
  BY DEF T
<1>10. Changed
        \/ (tasks' \in Seq(T) /\ Len(tasks)' = Len(tasks) + 1) \/ UNCHANGED tasks
  BY <1>1, <1>8, <1>9, AppendProperties
<1>11. Len(tasks) \in Nat
  BY <1>1
<1>12. tasks' \in Seq(T) /\ Len(tasks)' \in Nat /\ Len(tasks) <= Len(tasks)'
  BY <1>1, <1>10, <1>11 DEF Changed
<1> QED
  BY <1>11, <1>12 DEF T

LEMMA SyncsStep ==
  ASSUME MatchingAssumption, MatchingIInv, [MatchingNext]_vars
  PROVE  SyncsOK'
<1>1. MatchingAssumption
  OBVIOUS
<1>2. /\ sync \in [Syncs -> SyncShape] /\ pools \in [Tenants -> PoolShape]
      /\ Cardinality(matches) \in Nat /\ \A s \in Syncs : Started(sync[s].task, Len(tasks))
      /\ Len(tasks) \in Nat /\ Len(tasks)' \in Nat /\ Len(tasks) <= Len(tasks)'
  BY FS_CardinalityType, TasksGrow DEF MatchingIInv, SyncsOK, RowsOK, MatchesOK
<1>3. NoSync \in SyncShape /\ NoSync.task = NoTask /\ Started(NoTask, Len(tasks)')
  BY <1>2 DEF Started, NoSync, SyncShape, NoTask, NoPool, PoolShape, PoolStatus
<1>4. ASSUME NEW s \in Syncs, SyncNext(s)
      PROVE  SyncsOK'
  <2> DEFINE q == sync[s]
  <2>1. q \in SyncShape
    BY <1>2
  <2> DEFINE Fits(e) == e \in SyncShape
                        /\ (e.task \in {q.task, NoTask} \/ Started(e.task, Len(tasks)'))
  <2>2. ASSUME NEW e, Fits(e), sync' = [sync EXCEPT ![s] = e]
        PROVE  SyncsOK'
    <3>1. Started(e.task, Len(tasks)') /\ \A r \in Syncs : Started(sync[r].task, Len(tasks)')
      BY <1>2, <1>3, <2>2 DEF Started
    <3> QED
      BY <1>2, <2>2, <3>1 DEF SyncsOK
  <2> HIDE DEF Fits
  <2>3. ASSUME NEW pc \in {"load", "error", "saveJob", "start", "hydrate", "await", "failed"},
               GoTo(s, pc)
        PROVE  SyncsOK'
    <3>1. Fits([q EXCEPT !.pc = pc])
      BY <2>1 DEF Fits, SyncShape
    <3> QED
      BY <2>2, <2>3, <3>1 DEF GoTo
  <2>4. ASSUME Throw(s)
        PROVE  SyncsOK'
    <3>1. Fits([q EXCEPT !.pc = "failed"]) /\ Fits(NoSync)
      BY <1>3, <2>1 DEF Fits, SyncShape
    <3>2. Fits(IF q.kind \in {"create", "edit"} THEN [q EXCEPT !.pc = "failed"] ELSE NoSync)
      BY <3>1, Zenon
    <3> QED
      BY <2>2, <2>4, <3>2, Zenon DEF Throw
  <2>5. Fits(NoSync)
    BY <1>3 DEF Fits
  <2>6. CASE \E k \in Kinds : BeginSync(s, k)
    <3>1. PICK k \in Kinds : BeginSync(s, k)
      BY <2>6
    <3>2. k \in {"create", "rerun", "edit", "saved"}
      BY <1>1 DEF MatchingAssumption
    <3>3. Fits([NoSync EXCEPT !.pc = "load", !.kind = k])
      BY <1>3, <3>2 DEF Fits, SyncShape
    <3> QED
      BY <2>2, <3>1, <3>3, Zenon DEF BeginSync
  <2>7. CASE BeginEdit(s)
    <3>1. Fits([NoSync EXCEPT !.pc = "load", !.kind = "edit"])
      BY <1>3 DEF Fits, SyncShape
    <3> QED
      BY <2>2, <2>7, <3>1, Zenon DEF BeginEdit
  <2>8. CASE BeginSaved(s)
    <3>1. Fits([NoSync EXCEPT !.pc = "reset", !.kind = "saved",
                              !.before = Cardinality(matches)])
      BY <1>2, <1>3 DEF Fits, SyncShape
    <3> QED
      BY <2>2, <2>8, <3>1, Zenon DEF BeginSaved
  <2>9. CASE SavedReset(s) \/ SyncCall(s) \/ SyncSaveJob(s) \/ SavedHydrate(s)
    BY <2>3, <2>9 DEF SavedReset, SyncCall, SyncSaveJob, SavedHydrate
  <2>10. CASE SyncLoad(s)
    <3> DEFINE found == {t \in Tenants : pools[t].id > 0}
    <3>1. Fits([q EXCEPT !.pc = "next", !.snap = pools, !.rest = found])
      <4>1. found \in SUBSET Tenants
        OBVIOUS
      <4> HIDE DEF found
      <4> QED
        BY <1>2, <2>1, <4>1 DEF Fits, SyncShape
    <3> QED
      BY <2>2, <2>4, <2>10, <3>1, Zenon DEF SyncLoad
  <2>11. CASE SyncFailed(s) \/ SavedNotify(s)
    BY <2>2, <2>5, <2>11, Zenon DEF SyncFailed, SavedNotify
  <2>12. CASE \E t \in Tenants : SyncPool(s, t)
    <3>1. PICK t \in Tenants : SyncPool(s, t)
      BY <2>12
    <3>2. Fits([q EXCEPT !.cur = t, !.rest = @ \ {t},
                         !.pc = IF q.snap[t].job THEN "start" ELSE "job"])
      BY <2>1 DEF Fits, SyncShape
    <3> QED
      BY <2>2, <3>1, <3>2, Zenon DEF SyncPool
  <2>13. CASE SyncStart(s)
    <3>1. ASSUME NEW m \in Modes, NEW n \in Nat, Started(Task(m, n), Len(tasks)')
          PROVE  Fits([q EXCEPT !.pc = "saveTask", !.task = Task(m, n)])
      BY <1>1, <2>1, <3>1 DEF Fits, SyncShape, Task, MatchingAssumption
    <3>2. ASSUME NEW m \in Modes, NEW n \in Nat, Started(Task(m, n), Len(tasks)'),
                 sync' = [sync EXCEPT ![s].pc = "saveTask", ![s].task = Task(m, n)]
          PROVE  SyncsOK'
      BY <2>2, <3>1, <3>2, Zenon
    <3>3. ASSUME "async" \in Modes,
                 tasks' = Append(tasks, [state |-> "queued", results |-> {}]),
                 sync' = [sync EXCEPT ![s].pc = "saveTask",
                                      ![s].task = Task("async", Len(tasks) + 1)]
          PROVE  SyncsOK'
      <4>1. Len(tasks)' = Len(tasks) + 1
        BY <3>3 DEF MatchingIInv, TasksOK
      <4>2. Len(tasks) + 1 \in Nat /\ Started(Task("async", Len(tasks) + 1), Len(tasks)')
        BY <1>2, <4>1 DEF Started, Task
      <4> QED
        BY <3>2, <3>3, <4>2, Zenon
    <3>4. ASSUME NEW m \in Modes \ {"async"},
                 sync' = [sync EXCEPT ![s].pc = "saveTask", ![s].task = Task(m, 0)]
          PROVE  SyncsOK'
      <4>1. 0 \in Nat /\ Started(Task(m, 0), Len(tasks)')
        BY <1>2 DEF Started, Task
      <4> QED
        BY <3>2, <3>4, <4>1, Zenon
    <3> QED
      BY <2>3, <2>13, <3>3, <3>4, Zenon DEF SyncStart
  <2>14. CASE SyncSaveTask(s)
    <3>1. Fits([q EXCEPT !.pc = "next", !.out[q.cur] = "MATCHING"])
      BY <2>1 DEF Fits, SyncShape
    <3>2. \/ GoTo(s, "error")
          \/ sync' = [sync EXCEPT ![s].pc = "next", ![s].out[q.cur] = "MATCHING"]
      BY <2>14, Zenon DEF SyncSaveTask
    <3> QED
      BY <2>2, <2>3, <3>1, <3>2, ZenonT(60)
  <2>15. CASE SyncCount(s)
    <3>1. \A c \in BOOLEAN : Fits([q EXCEPT !.pc = "preserve", !.cached = c])
      BY <2>1 DEF Fits, SyncShape
    <3> QED
      BY <2>2, <2>15, <3>1, Zenon DEF SyncCount
  <2>16. CASE SyncPreserve(s)
    <3>1. \A k \in {"READY", "FAILED"} :
            Fits([q EXCEPT !.pc = "next", !.out[q.cur] = k])
      BY <2>1 DEF Fits, SyncShape
    <3> QED
      BY <2>2, <2>16, <3>1, Zenon DEF SyncPreserve
  <2>17. CASE SyncRollup(s)
    BY <2>2, <2>3, <2>5, <2>17, Zenon DEF SyncRollup
  <2> QED
    BY <1>4, <2>6, <2>7, <2>8, <2>9, <2>10, <2>11, <2>12, <2>13, <2>14, <2>15, <2>16, <2>17,
       Zenon DEF SyncNext
<1>5. CASE \E v \in Servers : Crash(v)
  <2>1. \A s \in Syncs : sync'[s] \in {sync[s], NoSync}
    BY <1>5 DEF Crash
  <2>2. \A s \in Syncs : Started(sync'[s].task, Len(tasks)')
    BY <1>2, <1>3, <2>1 DEF Started
  <2>3. sync' \in [Syncs -> SyncShape]
    BY <1>2, <1>3, <1>5, Zenon DEF Crash
  <2> QED
    BY <2>2, <2>3 DEF SyncsOK
<1>6. ASSUME UNCHANGED sync
      PROVE  SyncsOK'
  BY <1>2, <1>6 DEF SyncsOK, Started
<1> QED
  BY <1>4, <1>5, <1>6, SyncsFrame

\* What the processes other than the hydrations leave alone.
LEMMA HydrationsFrame ==
  ASSUME [MatchingNext]_vars, ~\E h \in Hydrators : HydrateNext(h),
         ~\E v \in Servers : Crash(v), ~\E s \in Syncs : SavedHydrate(s)
  PROVE  UNCHANGED hydration
<1>1. ASSUME NEW s \in Syncs, SyncNext(s)
      PROVE  UNCHANGED hydration
  BY <1>1, Zenon DEF SyncNext, BeginSync, BeginEdit, BeginSaved, SavedReset, SyncLoad,
     SyncFailed, SyncPool, SyncCall, SyncSaveJob, SyncStart, SyncSaveTask, SyncCount,
     SyncPreserve, SyncRollup, SavedNotify, SyncKeeps
<1>2. CASE SweepNext
  BY <1>2, Zenon DEF SweepNext, SweepFind, SweepCount, SweepWrite, SweepRead, SweepRollup,
     SweepKeeps
<1>3. ASSUME \/ \E y \in strays : Stray(y)
             \/ \E t \in Tenants : GrowStale(t)
             \/ \E op \in Events : Change(op)
             \/ \E i \in DOMAIN tasks : TaskEnds(i)
             \/ UNCHANGED vars
      PROVE  UNCHANGED hydration
  BY <1>3 DEF Stray, GrowStale, Change, TaskEnds, SweepKeeps, vars
<1> QED
  BY <1>1, <1>2, <1>3, Zenon DEF MatchingNext

LEMMA HydrationsStep ==
  ASSUME MatchingIInv, [MatchingNext]_vars
  PROVE  HydrationsOK'
<1>1. /\ hydration \in [Hydrators -> HydrationShape] /\ pools \in [Tenants -> PoolShape]
      /\ status \in ProjectStatus /\ Cardinality(matches) \in Nat /\ epoch \in Nat
      /\ \A h \in Hydrators : \A t \in Tenants : Started(hydration[h].snap[t].task, Len(tasks))
      /\ \A t \in Tenants : Started(pools[t].task, Len(tasks))
      /\ Len(tasks) \in Nat /\ Len(tasks)' \in Nat /\ Len(tasks) <= Len(tasks)'
  BY FS_CardinalityType, TasksGrow
  DEF MatchingIInv, HydrationsOK, TasksOK, RowsOK, MatchesOK
<1> DEFINE Fits(e) ==
      e \in HydrationShape /\ \A t \in Tenants : Started(e.snap[t].task, Len(tasks))
<1>2. Fits(NoHydration)
  <2>1. NoHydration \in HydrationShape
    BY DEF NoHydration, HydrationShape, NoTask, NoPool, PoolShape, PoolStatus, ProjectStatus
  <2>2. \A t \in Tenants : NoHydration.snap[t].task = NoTask
    BY DEF NoHydration, NoPool
  <2>3. Started(NoTask, Len(tasks))
    BY <1>1 DEF NoTask, Started
  <2> QED
    BY <2>1, <2>2, <2>3, Zenon
<1>3. ASSUME hydration' \in [Hydrators -> HydrationShape],
             \A h \in Hydrators : Fits(hydration'[h])
      PROVE  HydrationsOK'
  BY <1>1, <1>3 DEF HydrationsOK, Started
<1>4. ASSUME NEW h \in Hydrators, NEW e, Fits(e), hydration' = [hydration EXCEPT ![h] = e]
      PROVE  HydrationsOK'
  <2>1. \A k \in Hydrators : hydration'[k] = IF k = h THEN e ELSE hydration[k]
    BY <1>1, <1>4
  <2>2. \A k \in Hydrators : Fits(hydration'[k])
    BY <1>1, <1>4, <2>1
  <2> QED
    BY <1>1, <1>3, <1>4, <2>2
<1>5. \A h \in Hydrators : Fits(hydration[h])
  BY <1>1
<1>6. ASSUME NEW h \in Hydrators, NEW e \in HydrationShape, e.snap = hydration[h].snap
      PROVE  Fits(e)
  BY <1>1, <1>6
<1>7. ASSUME NEW h \in Hydrators,
             NEW pc \in {"load", "next", "broken", "settle", "tally"}, Step(h, pc)
      PROVE  HydrationsOK'
  <2>1. [hydration[h] EXCEPT !.pc = pc] \in HydrationShape
        /\ [hydration[h] EXCEPT !.pc = pc].snap = hydration[h].snap
    <3> DEFINE x == hydration[h]
    <3>1. x \in HydrationShape
      BY <1>1
    <3> HIDE DEF x, Fits
    <3>2. [x EXCEPT !.pc = pc] \in HydrationShape
      BY <1>7, <3>1 DEF HydrationShape
    <3>3. [x EXCEPT !.pc = pc].snap = x.snap
      BY <3>1 DEF HydrationShape
    <3> QED
      BY <3>2, <3>3 DEF x
  <2> HIDE DEF Fits
  <2>2. Fits([hydration[h] EXCEPT !.pc = pc])
    BY <1>6, <2>1, Zenon
  <2> QED
    BY <1>4, <1>7, <2>2, Zenon DEF Step
<1> HIDE DEF Fits
<1>8. ASSUME NEW h \in Hydrators, HydrateNext(h)
      PROVE  HydrationsOK'
  <2> DEFINE y == hydration[h]
  <2>1. y \in HydrationShape /\ Hydrated(h)
    BY <1>1 DEF MatchingIInv
  <2>2. ASSUME NEW e, e \in HydrationShape /\ e.snap = y.snap,
               hydration' = [hydration EXCEPT ![h] = e]
        PROVE  HydrationsOK'
    BY <1>4, <1>6, <2>2, Zenon
  <2>3. CASE HydrateBegin(h) \/ HydrateEnriched(h) \/ HydrateRollup(h)
    BY <1>7, <2>3 DEF HydrateBegin, HydrateEnriched, HydrateRollup
  <2>4. CASE HydrateLoad(h)
    <3> DEFINE found == {t \in Tenants : pools[t].id > 0}
    <3> DEFINE e == [y EXCEPT !.pc = "count", !.status = status, !.snap = pools,
                              !.rest = found]
    <3>1. e \in HydrationShape
      <4>1. found \in SUBSET Tenants
        OBVIOUS
      <4> HIDE DEF found
      <4> QED
        BY <1>1, <2>1, <4>1 DEF HydrationShape
    <3>2. hydration' = [hydration EXCEPT ![h] = e]
      BY <2>4, Zenon DEF HydrateLoad
    <3>3. e.snap = pools
      BY <2>1 DEF HydrationShape
    <3> HIDE DEF e
    <3>4. Fits(e)
      BY <1>1, <3>1, <3>3 DEF Fits
    <3> QED
      BY <1>4, <3>2, <3>4, Zenon
  <2>5. CASE HydrateCount(h)
    <3>1. [y EXCEPT !.pc = "next", !.before = Cardinality(matches)] \in HydrationShape
          /\ [y EXCEPT !.pc = "next", !.before = Cardinality(matches)].snap = y.snap
      BY <1>1, <2>1 DEF HydrationShape
    <3> QED
      BY <2>2, <2>5, <3>1, Zenon DEF HydrateCount
  <2>6. CASE \E t \in Tenants : HydratePool(h, t)
    <3>1. PICK t \in Tenants : HydratePool(h, t)
      BY <2>6
    <3>2. PICK pc \in {"fetch", "next"}, kept \in {"ready", "failed", "matching"} :
            hydration' = [hydration EXCEPT ![h].cur = t, ![h].rest = @ \ {t},
                                           ![h].pc = pc, ![h].res[t] = kept]
      BY <3>1 DEF HydratePool
    <3> DEFINE e == [y EXCEPT !.cur = t, !.rest = @ \ {t}, !.pc = pc, !.res[t] = kept]
    <3>3. e \in HydrationShape /\ e.snap = y.snap
      BY <2>1 DEF HydrationShape
    <3>4. hydration' = [hydration EXCEPT ![h] = e]
      BY <3>2, ZenonT(60)
    <3> HIDE DEF e
    <3> QED
      BY <2>2, <3>3, <3>4, Zenon
  <2>7. CASE HydrateFetch(h)
    <3>1. ASSUME NEW R \in SUBSET Talents, Fetches(h, R)
          PROVE  HydrationsOK'
      <4>1. [y EXCEPT !.pc = "rows", !.fetched = R] \in HydrationShape
            /\ [y EXCEPT !.pc = "rows", !.fetched = R].snap = y.snap
        BY <2>1 DEF HydrationShape
      <4> QED
        BY <2>2, <3>1, <4>1, Zenon DEF Fetches
    <3> DEFINE task == y.snap[y.cur].task
    <3>2. task.kind = "async" => tasks[task.id].results \in SUBSET Talents
      <4>1. y.cur \in Tenants
        BY <2>1, <2>7 DEF Hydrated, HydrateFetch, Runs
      <4>2. Started(task, Len(tasks)) /\ task.id \in Nat
        BY <1>1, <2>1, <4>1 DEF HydrationShape, PoolShape
      <4>3. tasks \in Seq([state : {"queued", "done", "failed"}, results : SUBSET Talents])
        BY DEF MatchingIInv, TasksOK
      <4>4. ASSUME NEW i \in 1 .. Len(tasks)
            PROVE  tasks[i].results \in SUBSET Talents
        <5>1. tasks[i] \in [state : {"queued", "done", "failed"}, results : SUBSET Talents]
          BY <4>3, ElementOfSeq, Zenon
        <5> QED
          BY <5>1
      <4>5. task.kind = "async" => task.id \in 1 .. Len(tasks)
        BY <4>2, <4>3 DEF Started
      <4> QED
        BY <4>4, <4>5, Zenon
    <3> QED
      BY <1>7, <2>7, <3>1, <3>2 DEF HydrateFetch
  <2>8. CASE HydrateRows(h)
    <3> DEFINE R == y.fetched \ Stored(y.cur)
    <3> DEFINE e == [y EXCEPT !.pc = "insert", !.todo = R, !.left = R, !.mine = {}]
    <3>1. R \in SUBSET Talents
      BY <2>1 DEF HydrationShape
    <3>2. hydration' = [hydration EXCEPT ![h] = e]
      BY <2>8, Zenon DEF HydrateRows
    <3> HIDE DEF R
    <3>3. e \in HydrationShape /\ e.snap = y.snap
      BY <2>1, <3>1 DEF HydrationShape
    <3> HIDE DEF e
    <3> QED
      BY <2>2, <3>2, <3>3, Zenon
  <2>9. CASE \E x \in Talents : HydrateInsert(h, x)
    <3>1. PICK x \in Talents : HydrateInsert(h, x)
      BY <2>9
    <3>2. Row(y.cur, x) \in MatchRows
      BY <1>1, <2>1, <3>1 DEF Row, MatchRows, Hydrated, HydrateInsert, Runs
    <3> DEFINE e == [y EXCEPT !.left = @ \ {x}, !.mine = @ \cup {Row(y.cur, x)}]
    <3> DEFINE d == [y EXCEPT !.left = @ \ {x}]
    <3>3. /\ e \in HydrationShape /\ e.snap = y.snap
          /\ d \in HydrationShape /\ d.snap = y.snap
      BY <2>1, <3>2 DEF HydrationShape
    <3>4. \/ hydration' = [hydration EXCEPT ![h] = e]
          \/ hydration' = [hydration EXCEPT ![h] = d]
      BY <3>1, Zenon DEF HydrateInsert
    <3> HIDE DEF e, d
    <3> QED
      BY <2>2, <3>3, <3>4, Zenon
  <2>10. CASE HydrateInserted(h)
    <3>1. [y EXCEPT !.pc = "enrich", !.left = y.todo] \in HydrationShape
          /\ [y EXCEPT !.pc = "enrich", !.left = y.todo].snap = y.snap
      BY <2>1 DEF HydrationShape
    <3> QED
      BY <2>2, <2>10, <3>1, Zenon DEF HydrateInserted
  <2>11. CASE \E x \in Talents : HydrateEnrich(h, x)
    <3>1. PICK x \in Talents : HydrateEnrich(h, x)
      BY <2>11
    <3>2. [y EXCEPT !.left = @ \ {x}] \in HydrationShape
          /\ [y EXCEPT !.left = @ \ {x}].snap = y.snap
      BY <2>1 DEF HydrationShape
    <3>3. CASE EnrichThrows(h, x)
      BY <1>7, <3>3 DEF EnrichThrows
    <3> QED
      BY <2>2, <3>1, <3>2, <3>3, Zenon DEF HydrateEnrich, EnrichOwn, EnrichCreate
  <2>12. CASE HydrateSettle(h)
    <3> DEFINE e == [y EXCEPT !.pc = "next", !.res[y.cur] = "ready"]
    <3>1. e \in HydrationShape /\ e.snap = y.snap
      BY <2>1 DEF HydrationShape
    <3>2. \/ Step(h, "broken")
          \/ hydration' = [hydration EXCEPT ![h] = e]
      BY <2>12, Zenon DEF HydrateSettle
    <3> HIDE DEF e
    <3> QED
      BY <1>7, <2>2, <3>1, <3>2
  <2>13. CASE HydrateBroken(h)
    <3> DEFINE e == [y EXCEPT !.pc = "next", !.res[y.cur] = "failed"]
    <3>1. e \in HydrationShape /\ e.snap = y.snap
      BY <2>1 DEF HydrationShape
    <3>2. hydration' = [hydration EXCEPT ![h] = e]
      BY <2>13, Zenon DEF HydrateBroken
    <3> HIDE DEF e
    <3> QED
      BY <2>2, <3>1, <3>2, Zenon
  <2>14. CASE HydrateTally(h)
    BY <1>2, <1>4, <2>14, Zenon DEF HydrateTally
  <2> QED
    BY <1>8, <2>3, <2>4, <2>5, <2>6, <2>7, <2>8, <2>9, <2>10, <2>11, <2>12, <2>13, <2>14,
       Zenon DEF HydrateNext
<1>9. CASE \E s \in Syncs : SavedHydrate(s)
  BY <1>1, <1>5, <1>3, <1>7, <1>9 DEF SavedHydrate
<1>10. CASE \E v \in Servers : Crash(v)
  <2>1. \A h \in Hydrators : Fits(hydration'[h])
    BY <1>2, <1>5, <1>10 DEF Crash
  <2>2. hydration' \in [Hydrators -> HydrationShape]
    BY <1>1, <1>2, <1>10, Zenon DEF Crash, Fits
  <2> QED
    BY <1>3, <2>1, <2>2
<1>11. ASSUME UNCHANGED hydration
       PROVE  HydrationsOK'
  BY <1>1, <1>3, <1>5, <1>11
<1> QED
  BY <1>8, <1>9, <1>10, <1>11, HydrationsFrame


LEMMA SweepStep ==
  ASSUME MatchingIInv, [MatchingNext]_vars
  PROVE  SweepOK'
<1>1. sweep \in SweepShape /\ pools \in [Tenants -> PoolShape]
  BY DEF MatchingIInv, SweepOK, RowsOK
<1>2. NoSweep \in SweepShape
  BY DEF NoSweep, SweepShape
<1>3. CASE SweepFind
  <2> DEFINE found == {[tenant |-> t, id |-> pools[t].id] : t \in {u \in Tenants : Stale(u)}}
  <2>1. found \in SUBSET [tenant : Tenants, id : Nat]
    BY <1>1 DEF PoolShape
  <2>2. sweep' = [sweep EXCEPT !.pc = "next", !.rest = found]
    BY <1>3, Zenon DEF SweepFind
  <2> HIDE DEF found
  <2> QED
    BY <1>1, <2>1, <2>2 DEF SweepOK, SweepShape
<1>4. CASE \E p \in sweep.rest : SweepCount(p)
  <2>1. PICK p \in sweep.rest : SweepCount(p)
    BY <1>4
  <2>2. p \in [tenant : Tenants, id : Nat]
    BY <1>1 DEF SweepShape
  <2> QED
    BY <1>1, <2>1, <2>2 DEF SweepCount, SweepOK, SweepShape
<1>5. CASE SweepWrite
  BY <1>1, <1>5 DEF SweepWrite, SweepOK, SweepShape
<1>6. CASE SweepRead
  BY <1>1, <1>2, <1>6 DEF SweepRead, SweepOK, NoSweep, SweepShape
<1>7. CASE SweepRollup
  BY <1>2, <1>7 DEF SweepRollup, SweepOK
<1>8. CASE \E v \in Servers : Crash(v)
  BY <1>1, <1>2, <1>8 DEF Crash, SweepOK
<1>9. ASSUME NEW s \in Syncs, SyncNext(s)
      PROVE  UNCHANGED sweep
  BY <1>9, Zenon DEF SyncNext, BeginSync, BeginEdit, BeginSaved, SavedReset, SyncLoad,
     SyncFailed, SyncPool, SyncCall, SyncSaveJob, SyncStart, SyncSaveTask, SyncCount,
     SyncPreserve, SyncRollup, SavedHydrate, SavedNotify, SyncKeeps
<1>10. ASSUME NEW h \in Hydrators, HydrateNext(h)
       PROVE  UNCHANGED sweep
  BY <1>10, Zenon DEF HydrateNext, HydrateBegin, HydrateLoad, HydrateCount, HydratePool,
     HydrateFetch, HydrateRows, HydrateInserted, HydrateEnriched, HydrateInsert,
     HydrateEnrich, HydrateSettle, HydrateBroken, HydrateRollup, HydrateTally,
     HydrateOnly, HydrateKeeps
<1>11. ASSUME \/ \E y \in strays : Stray(y)
              \/ \E t \in Tenants : GrowStale(t)
              \/ \E op \in Events : Change(op)
              \/ \E i \in DOMAIN tasks : TaskEnds(i)
              \/ UNCHANGED vars
       PROVE  UNCHANGED sweep
  BY <1>11 DEF Stray, GrowStale, Change, TaskEnds, vars
<1>12. UNCHANGED sweep => SweepOK'
  BY <1>1 DEF SweepOK
<1> QED
  BY <1>3, <1>4, <1>5, <1>6, <1>7, <1>8, <1>9, <1>10, <1>11, <1>12, Zenon
  DEF MatchingNext, SweepNext

LEMMA StraysStep ==
  ASSUME MatchingIInv, [MatchingNext]_vars
  PROVE  StraysOK'
<1>1. StraysOK
  BY DEF MatchingIInv
<1>2. ASSUME NEW h \in Hydrators, NEW x \in Talents, HydrateEnrich(h, x)
      PROVE  StraysOK'
  <2>1. hydration[h].cur \in Tenants /\ hydration[h].left \in SUBSET Talents
    BY <1>2 DEF HydrateEnrich, Runs, MatchingIInv, Hydrated, HydrationsOK, HydrationShape
  <2> QED
    BY <1>1, <1>2, <2>1
    DEF HydrateEnrich, EnrichOwn, EnrichCreate, EnrichThrows, StraysOK
<1>3. strays' \subseteq strays => StraysOK'
  BY <1>1 DEF StraysOK
<1>4. ASSUME NEW h \in Hydrators, HydrateNext(h), ~\E x \in Talents : HydrateEnrich(h, x)
      PROVE  UNCHANGED strays
  BY <1>4, Zenon DEF HydrateNext, HydrateBegin, HydrateLoad, HydrateCount, HydratePool,
     HydrateFetch, HydrateRows, HydrateInserted, HydrateEnriched, HydrateInsert,
     HydrateSettle, HydrateBroken, HydrateRollup, HydrateTally, HydrateOnly
<1>5. ASSUME NEW s \in Syncs, SyncNext(s)
      PROVE  UNCHANGED strays
  BY <1>5, Zenon DEF SyncNext, BeginSync, BeginEdit, BeginSaved, SavedReset, SyncLoad,
     SyncFailed, SyncPool, SyncCall, SyncSaveJob, SyncStart, SyncSaveTask, SyncCount,
     SyncPreserve, SyncRollup, SavedHydrate, SavedNotify, SyncKeeps
<1>6. CASE SweepNext
  BY <1>3, <1>6, Zenon DEF SweepNext, SweepFind, SweepCount, SweepWrite, SweepRead,
     SweepRollup, SweepKeeps
<1>7. ASSUME \/ \E y \in strays : Stray(y)
             \/ \E t \in Tenants : GrowStale(t)
             \/ \E op \in Events : Change(op)
             \/ \E i \in DOMAIN tasks : TaskEnds(i)
             \/ \E v \in Servers : Crash(v)
             \/ UNCHANGED vars
      PROVE  strays' \subseteq strays
  BY <1>7 DEF Stray, GrowStale, Change, TaskEnds, Crash, SweepKeeps, vars
<1> QED
  BY <1>2, <1>3, <1>4, <1>5, <1>6, <1>7, Zenon DEF MatchingNext

\* Only a started match, a reset and an edit change the task of a pool.
LEMMA PoolTasks ==
  ASSUME NEW P \in [Tenants -> PoolShape], NEW t \in Tenants, NEW u, NEW x
  PROVE  /\ [P EXCEPT ![u].job = x][t].task = P[t].task
         /\ [P EXCEPT ![u].status = x][t].task = P[t].task
         /\ [P EXCEPT ![u].stale = x][t].task = P[t].task
  BY DEF PoolShape

LEMMA TasksStep ==
  ASSUME MatchingIInv, [MatchingNext]_vars
  PROVE  TasksOK'
<1>1. /\ pools \in [Tenants -> PoolShape] /\ sync \in [Syncs -> SyncShape]
      /\ \A t \in Tenants : Started(pools[t].task, Len(tasks))
      /\ \A s \in Syncs : Started(sync[s].task, Len(tasks))
      /\ Len(tasks) \in Nat /\ Len(tasks)' \in Nat /\ Len(tasks) <= Len(tasks)'
      /\ tasks' \in Seq([state : {"queued", "done", "failed"}, results : SUBSET Talents])
  BY TasksGrow DEF MatchingIInv, RowsOK, TasksOK, SyncsOK
<1>2. ASSUME NEW k, k = NoTask \/ Started(k, Len(tasks))
      PROVE  Started(k, Len(tasks)')
  BY <1>1, <1>2 DEF Started, NoTask
<1>3. ASSUME \A t \in Tenants : pools'[t].task \in {pools[t].task, NoTask}
      PROVE  TasksOK'
  <2>1. \A t \in Tenants : Started(pools'[t].task, Len(tasks)')
    BY <1>1, <1>2, <1>3, Zenon
  <2> QED
    BY <1>1, <2>1, Zenon DEF TasksOK
<1>4. ASSUME NEW u, NEW x,
             \/ pools' = pools
             \/ pools' = [pools EXCEPT ![u].job = x]
             \/ pools' = [pools EXCEPT ![u].status = x]
             \/ pools' = [pools EXCEPT ![u].stale = x]
      PROVE  TasksOK'
  <2>1. ASSUME NEW t \in Tenants
        PROVE  pools'[t].task = pools[t].task
    <3>1. pools \in [Tenants -> PoolShape]
      BY <1>1
    <3>2. /\ [pools EXCEPT ![u].job = x][t].task = pools[t].task
          /\ [pools EXCEPT ![u].status = x][t].task = pools[t].task
          /\ [pools EXCEPT ![u].stale = x][t].task = pools[t].task
      BY <3>1, PoolTasks
    <3> QED
      BY <1>4, <3>2, Zenon
  <2> QED
    BY <1>3, <2>1
<1>5. CASE UNCHANGED <<row, epoch>>
  BY <1>4, <1>5, Zenon DEF row
<1>6. ASSUME NEW s \in Syncs, BeginEdit(s) \/ SavedReset(s)
      PROVE  TasksOK'
  <2>1. \A t \in Tenants : pools'[t].task \in {pools[t].task, NoTask}
    <3>1. NoPool.task = NoTask /\ \A n : NewPool(n).task = NoTask
      BY DEF NewPool, NoPool
    <3>2. CASE BeginEdit(s)
      BY <3>1, <3>2, Zenon DEF BeginEdit
    <3>3. CASE SavedReset(s)
      <4>1. \A p \in PoolShape : [p EXCEPT !.task = NoTask, !.status = "DRAFT"].task = NoTask
        BY DEF PoolShape
      <4> QED
        BY <1>1, <3>1, <3>3, <4>1, Zenon DEF SavedReset
    <3> QED
      BY <1>6, <3>2, <3>3
  <2> QED
    BY <1>3, <2>1
<1>7. ASSUME NEW s \in Syncs, SyncSaveJob(s) \/ SyncPreserve(s) \/ SyncFailed(s) \/ SyncRollup(s)
      PROVE  TasksOK'
  BY <1>4, <1>7, Zenon DEF SyncSaveJob, SyncPreserve, SyncFailed, SyncRollup
<1>8. ASSUME NEW s \in Syncs, SyncSaveTask(s)
      PROVE  TasksOK'
  <2>1. \A t \in Tenants : pools'[t].task \in {pools[t].task, sync[s].task}
    <3>1. ASSUME NEW u, NEW k, NEW t \in Tenants
          PROVE  [pools EXCEPT ![u].task = k, ![u].status = "MATCHING", ![u].stale = FALSE][t].task
                   \in {pools[t].task, k}
      BY <1>1 DEF PoolShape
    <3> QED
      BY <1>8, <3>1, Zenon DEF SyncSaveTask
  <2>2. \A t \in Tenants : Started(pools'[t].task, Len(tasks)')
    BY <1>1, <1>2, <2>1, Zenon
  <2> QED
    BY <1>1, <2>2, Zenon DEF TasksOK
<1>9. ASSUME NEW h \in Hydrators,
             \/ \E x \in Talents : HydrateInsert(h, x) \/ HydrateEnrich(h, x)
             \/ HydrateSettle(h) \/ HydrateBroken(h) \/ HydrateRollup(h)
      PROVE  TasksOK'
  BY <1>4, <1>9, Zenon DEF HydrateInsert, HydrateEnrich, HydrateSettle, HydrateBroken,
     HydrateRollup
<1>10. CASE \/ \E y \in strays : Stray(y)
            \/ SweepWrite \/ SweepRollup
            \/ \E t \in Tenants : GrowStale(t)
            \/ \E op \in Events : Change(op)
  BY <1>4, <1>10, Zenon DEF Stray, SweepWrite, SweepRollup, GrowStale, Change
<1> QED
  BY <1>5, <1>6, <1>7, <1>8, <1>9, <1>10, RowActions, Zenon DEF RowWriters

LEMMA TalliesStep ==
  ASSUME MatchingAssumption, MatchingIInv, [MatchingNext]_vars
  PROVE  TalliesOK'
<1>1. /\ TalliesOK /\ inserted \in Nat /\ announced \in Nat /\ ops \in Nat /\ MaxOps \in Nat
      /\ Cardinality(matches) \in Nat
  BY FS_CardinalityType DEF MatchingIInv, TalliesOK, RowsOK, MatchesOK, MatchingAssumption
<1>2. ASSUME inserted' \in {inserted, inserted + 1}, UNCHANGED <<announced, ops>>
      PROVE  TalliesOK'
  BY <1>1, <1>2 DEF TalliesOK
<1>3. ASSUME ops < MaxOps, ops' = ops + 1, UNCHANGED tallies
      PROVE  TalliesOK'
  BY <1>1, <1>3 DEF TalliesOK, tallies
<1>4. ASSUME NEW n \in Nat, announced' \in {announced, announced + (Cardinality(matches) - n)},
             announced' # announced => Cardinality(matches) > n, UNCHANGED <<inserted, ops>>
      PROVE  TalliesOK'
  BY <1>1, <1>4 DEF TalliesOK
<1>5. ASSUME NEW s \in Syncs, SyncNext(s)
      PROVE  TalliesOK'
  <2>1. CASE (\E k \in Kinds : BeginSync(s, k)) \/ BeginEdit(s) \/ BeginSaved(s)
    BY <1>3, <2>1 DEF BeginSync, BeginEdit, BeginSaved
  <2>2. CASE SavedNotify(s)
    <3>1. sync[s].before \in Nat
      BY DEF MatchingIInv, SyncsOK, SyncShape
    <3> QED
      BY <1>4, <2>2, <3>1 DEF SavedNotify, counters
  <2>3. ASSUME ~\E k \in Kinds : BeginSync(s, k), ~BeginEdit(s), ~BeginSaved(s), ~SavedNotify(s)
        PROVE  UNCHANGED <<inserted, announced, ops>>
    BY <1>5, <2>3, Zenon DEF SyncNext, SavedReset, SyncLoad, SyncFailed, SyncPool, SyncCall,
       SyncSaveJob, SyncStart, SyncSaveTask, SyncCount, SyncPreserve, SyncRollup,
       SavedHydrate, SyncKeeps, tallies, counters
  <2> QED
    BY <1>2, <2>1, <2>2, <2>3
<1>6. ASSUME NEW h \in Hydrators, HydrateNext(h)
      PROVE  TalliesOK'
  <2>1. CASE HydrateTally(h)
    <3>1. hydration[h].before \in Nat
      BY DEF MatchingIInv, HydrationsOK, HydrationShape
    <3> QED
      BY <1>4, <2>1, <3>1 DEF HydrateTally, HydrateKeeps, counters
  <2>2. CASE \E x \in Talents : HydrateInsert(h, x) \/ HydrateEnrich(h, x)
    BY <1>2, <2>2, Zenon DEF HydrateInsert, HydrateEnrich, EnrichOwn, EnrichCreate, EnrichThrows,
       HydrateKeeps, counters
  <2>3. ASSUME ~HydrateTally(h), ~\E x \in Talents : HydrateInsert(h, x) \/ HydrateEnrich(h, x)
        PROVE  UNCHANGED <<inserted, announced, ops>>
    BY <1>6, <2>3, Zenon DEF HydrateNext, HydrateBegin, HydrateLoad, HydrateCount, HydratePool,
       HydrateFetch, HydrateRows, HydrateInserted, HydrateEnriched, HydrateSettle,
       HydrateBroken, HydrateRollup, HydrateOnly, HydrateKeeps, tallies, counters
  <2> QED
    BY <1>2, <2>1, <2>2, <2>3
<1>7. ASSUME SweepNext
      PROVE  UNCHANGED <<inserted, announced, ops>>
  BY <1>7, Zenon DEF SweepNext, SweepFind, SweepCount, SweepWrite, SweepRead, SweepRollup,
     SweepKeeps, tallies, counters
<1>8. ASSUME NEW y \in strays, Stray(y)
      PROVE  TalliesOK'
  BY <1>2, <1>8, Zenon DEF Stray, counters
<1>9. ASSUME NEW op \in Events, Change(op)
      PROVE  TalliesOK'
  BY <1>3, <1>9 DEF Change
<1>10. ASSUME \/ \E t \in Tenants : GrowStale(t)
              \/ \E i \in DOMAIN tasks : TaskEnds(i)
              \/ \E v \in Servers : Crash(v)
              \/ UNCHANGED vars
       PROVE  UNCHANGED <<inserted, announced, ops>>
  BY <1>10, Zenon DEF GrowStale, TaskEnds, Crash, SweepKeeps, tallies, counters, vars
<1> QED
  BY <1>2, <1>5, <1>6, <1>7, <1>8, <1>9, <1>10, Zenon DEF MatchingNext

\* The heart of the argument: each step keeps what a hydration has stored so far.
LEMMA HydratedStep ==
  ASSUME MatchingIInv, [MatchingNext]_vars
  PROVE  \A h \in Hydrators : Hydrated(h)'
<1>1. /\ hydration \in [Hydrators -> HydrationShape] /\ epoch \in Nat /\ epoch' \in Nat
      /\ epoch <= epoch' /\ RowsOK /\ PoolsKeep
      /\ \A t \in Tenants : pools[t].id \in Nat /\ pools[t].id <= epoch
      /\ \A h \in Hydrators : Hydrated(h)
  BY PoolsKeepStep DEF MatchingIInv, HydrationsOK, RowsOK, PoolsKeep, PoolShape
<1> DEFINE Later(t) == {m.talent : m \in {r \in matches' : r.tenant = t}}
<1> DEFINE After(e, R) ==
      LET t == e.cur IN
      e.snap[t].id > 0 /\ pools'[t].id = e.snap[t].id => R \subseteq Later(t)
<1> DEFINE Good(e) ==
      /\ \A t \in Tenants : e.snap[t].id <= epoch'
      /\ e.pc \in {"fetch", "rows", "insert", "enrich", "settle", "broken"} => e.cur \in Tenants
      /\ e.pc \in {"insert", "enrich"} => \A m \in e.mine : m.tenant = e.cur
      /\ e.pc = "insert" => After(e, e.fetched \ e.todo)
      /\ e.pc = "enrich" => After(e, e.fetched \ e.left)
      /\ e.pc = "settle" /\ e.snap[e.cur].task.kind # "fallback" => After(e, e.fetched)
<1>2. ASSUME NEW h \in Hydrators, NEW e, Good(e), hydration'[h] = e
      PROVE  Hydrated(h)'
  BY <1>2 DEF Hydrated, Has, Exists, Runs, IsFallback, Stored
<1>3. ASSUME NEW h \in Hydrators, NEW R, hydration[h].cur \in Tenants, Has(h, R)
      PROVE  After(hydration[h], R)
  <2>1. PICK t \in Tenants : t = hydration[h].cur
    BY <1>3
  <2>2. hydration[h].snap[t].id \in Nat /\ hydration[h].snap[t].id <= epoch
    <3>1. hydration[h] \in HydrationShape
      BY <1>1
    <3>2. hydration[h].snap[t] \in PoolShape
      BY <3>1 DEF HydrationShape
    <3>3. hydration[h].snap[t].id \in Nat
      BY <3>2 DEF PoolShape
    <3> QED
      BY <1>1, <3>3 DEF Hydrated
  <2>3. ASSUME hydration[h].snap[t].id > 0, pools'[t].id = hydration[h].snap[t].id
        PROVE  R \subseteq Later(t)
    <3>1. pools'[t].id \in 1 .. epoch
      BY <1>1, <2>2, <2>3
    <3>2. pools[t].id = hydration[h].snap[t].id
      BY <1>1, <2>3, <3>1 DEF PoolsKeep
    <3>3. R \subseteq Stored(t)
      BY <1>3, <2>1, <2>3, <3>2 DEF Has, Exists
    <3>4. Stored(t) \subseteq Later(t)
      BY <1>1, <3>1 DEF PoolsKeep, Stored
    <3> QED
      BY <3>3, <3>4
  <2> HIDE DEF Later
  <2> QED
    BY <2>1, <2>3
<1>4. ASSUME NEW h \in Hydrators
      PROVE  Good(hydration[h])
  <2>1. /\ hydration[h] \in HydrationShape /\ Hydrated(h)
        /\ \A t \in Tenants : hydration[h].snap[t].id \in Nat
    BY <1>1 DEF HydrationShape, PoolShape
  <2>2. \A t \in Tenants : hydration[h].snap[t].id <= epoch'
    BY <1>1, <2>1 DEF Hydrated
  <2> HIDE DEF After
  <2> QED
    BY <1>3, <2>1, <2>2 DEF Hydrated, Runs, IsFallback
<1>5. Good(NoHydration)
  BY <1>1 DEF NoHydration, NoPool
<1> HIDE DEF Good, After, Later
<1>6. ASSUME NEW h \in Hydrators, NEW e, Good(e), hydration' = [hydration EXCEPT ![h] = e]
      PROVE  \A k \in Hydrators : Hydrated(k)'
  <2>1. \A k \in Hydrators : hydration'[k] = IF k = h THEN e ELSE hydration[k]
    BY <1>1, <1>6
  <2> QED
    BY <1>2, <1>4, <1>6, <2>1
<1>7. ASSUME UNCHANGED hydration
      PROVE  \A k \in Hydrators : Hydrated(k)'
  <2> QED
    BY <1>2, <1>4, <1>7
<1>8. ASSUME NEW h \in Hydrators, NEW pc \in {"load", "next", "tally", "broken", "settle"},
             Step(h, pc), pc \in {"broken", "settle"} => hydration[h].cur \in Tenants,
             pc = "settle" /\ ~IsFallback(h) => After(hydration[h], hydration[h].fetched)
      PROVE  \A k \in Hydrators : Hydrated(k)'
  <2> DEFINE e == [hydration[h] EXCEPT !.pc = pc]
  <2>1. /\ e.pc = pc /\ e.snap = hydration[h].snap /\ e.cur = hydration[h].cur
        /\ e.fetched = hydration[h].fetched
    BY <1>1 DEF HydrationShape
  <2>2. hydration' = [hydration EXCEPT ![h] = e]
    BY <1>8, Zenon DEF Step
  <2> HIDE DEF e
  <2>3. Good(e)
    <3>1. \A t \in Tenants : e.snap[t].id <= epoch'
      BY <1>4, <2>1 DEF Good
    <3> QED
      BY <1>8, <2>1, <3>1 DEF Good, After, IsFallback
  <2> QED
    BY <1>6, <2>2, <2>3, Zenon
<1>9. ASSUME NEW h \in Hydrators, HydrateNext(h)
      PROVE  \A k \in Hydrators : Hydrated(k)'
  <2> DEFINE y == hydration[h]
  <2>1. y \in HydrationShape /\ Hydrated(h) /\ \A t \in Tenants : y.snap[t].id <= epoch'
    BY <1>1, <1>4 DEF Good
  <2>2. CASE HydrateBegin(h) \/ HydrateRollup(h)
    BY <1>8, <2>2 DEF HydrateBegin, HydrateRollup
  <2>3. CASE HydrateEnriched(h)
    <3>1. y.left = {} /\ y.cur \in Tenants /\ Has(h, y.fetched \ y.left)
      BY <2>1, <2>3 DEF HydrateEnriched, Hydrated, Runs
    <3>2. y.fetched \ y.left = y.fetched
      BY <2>1, <3>1 DEF HydrationShape
    <3>3. After(y, y.fetched)
      BY <1>3, <3>1, <3>2
    <3> QED
      BY <1>8, <2>3, <3>1, <3>3 DEF HydrateEnriched
  <2>4. CASE HydrateLoad(h)
    <3> DEFINE e == [y EXCEPT !.pc = "count", !.status = status, !.snap = pools,
                              !.rest = {t \in Tenants : pools[t].id > 0}]
    <3>1. e.pc = "count" /\ e.snap = pools
      BY <2>1 DEF HydrationShape
    <3>2. hydration' = [hydration EXCEPT ![h] = e]
      BY <2>4, Zenon DEF HydrateLoad
    <3> HIDE DEF e
    <3>3. Good(e)
      BY <1>1, <3>1 DEF Good, After
    <3> QED
      BY <1>6, <3>2, <3>3, Zenon
  <2>5. CASE HydrateCount(h)
    <3> DEFINE e == [y EXCEPT !.pc = "next", !.before = Cardinality(matches)]
    <3>1. e.pc = "next" /\ e.snap = y.snap
      BY <2>1 DEF HydrationShape
    <3>2. hydration' = [hydration EXCEPT ![h] = e]
      BY <2>5, Zenon DEF HydrateCount
    <3> HIDE DEF e
    <3>3. Good(e)
      BY <2>1, <3>1 DEF Good, After
    <3> QED
      BY <1>6, <3>2, <3>3, Zenon
  <2>6. CASE \E t \in Tenants : HydratePool(h, t)
    <3>1. PICK t \in Tenants : HydratePool(h, t)
      BY <2>6
    <3>2. PICK pc \in {"fetch", "next"}, kept \in {"ready", "failed", "matching"} :
            hydration' = [hydration EXCEPT ![h].cur = t, ![h].rest = @ \ {t},
                                           ![h].pc = pc, ![h].res[t] = kept]
      BY <3>1 DEF HydratePool
    <3> DEFINE e == [y EXCEPT !.cur = t, !.rest = @ \ {t}, !.pc = pc, !.res[t] = kept]
    <3>3. e.pc = pc /\ e.snap = y.snap /\ e.cur = t
      BY <2>1 DEF HydrationShape
    <3>4. hydration' = [hydration EXCEPT ![h] = e]
      BY <3>2, Zenon
    <3> HIDE DEF e
    <3>5. Good(e)
      BY <2>1, <3>2, <3>3 DEF Good, After
    <3> QED
      BY <1>6, <3>4, <3>5, Zenon
  <2>7. CASE HydrateFetch(h)
    <3>1. y.cur \in Tenants
      BY <2>1, <2>7 DEF HydrateFetch, Hydrated, Runs
    <3>2. ASSUME NEW R, Fetches(h, R)
          PROVE  \A k \in Hydrators : Hydrated(k)'
      <4> DEFINE e == [y EXCEPT !.pc = "rows", !.fetched = R]
      <4>1. e.pc = "rows" /\ e.snap = y.snap /\ e.cur = y.cur
        BY <2>1 DEF HydrationShape
      <4>2. hydration' = [hydration EXCEPT ![h] = e]
        BY <3>2, Zenon DEF Fetches
      <4> HIDE DEF e
      <4>3. Good(e)
        BY <2>1, <3>1, <4>1 DEF Good, After
      <4> QED
        BY <1>6, <4>2, <4>3, Zenon
    <3>3. (\E R : Fetches(h, R)) \/ Step(h, "next") \/ Step(h, "broken")
      BY <2>7, ZenonT(60) DEF HydrateFetch
    <3>4. ASSUME Step(h, "next") \/ Step(h, "broken")
          PROVE  \A k \in Hydrators : Hydrated(k)'
      BY <1>8, <3>1, <3>4
    <3> QED
      BY <3>2, <3>3, <3>4
  <2>8. CASE HydrateRows(h)
    <3> DEFINE R == y.fetched \ Stored(y.cur)
    <3> DEFINE e == [y EXCEPT !.pc = "insert", !.todo = R, !.left = R, !.mine = {}]
    <3>1. y.cur \in Tenants /\ matches' = matches
      BY <2>1, <2>8 DEF HydrateRows, Hydrated, Runs, HydrateOnly, row
    <3>2. hydration' = [hydration EXCEPT ![h] = e]
      BY <2>8, Zenon DEF HydrateRows
    <3>3. y.fetched \ R \subseteq Later(y.cur)
      BY <3>1 DEF Stored, Later
    <3> HIDE DEF R
    <3>4. /\ e.pc = "insert" /\ e.snap = y.snap /\ e.cur = y.cur /\ e.mine = {}
          /\ e.fetched = y.fetched /\ e.todo = R
      BY <2>1 DEF HydrationShape
    <3> HIDE DEF e
    <3>5. Good(e)
      BY <2>1, <3>1, <3>3, <3>4 DEF Good, After
    <3> QED
      BY <1>6, <3>2, <3>5, Zenon
  <2>9. CASE \E x \in Talents : HydrateInsert(h, x)
    <3>1. PICK x \in Talents : HydrateInsert(h, x)
      BY <2>9
    <3>2. /\ y.pc = "insert" /\ y.cur \in Tenants /\ \A m \in y.mine : m.tenant = y.cur
          /\ Has(h, y.fetched \ y.todo)
      BY <2>1, <3>1 DEF HydrateInsert, Hydrated, Runs
    <3>3. After(y, y.fetched \ y.todo)
      BY <1>3, <3>2
    <3> DEFINE e == [y EXCEPT !.left = @ \ {x}, !.mine = @ \cup {Row(y.cur, x)}]
    <3> DEFINE d == [y EXCEPT !.left = @ \ {x}]
    <3>4. /\ e.pc = "insert" /\ e.snap = y.snap /\ e.cur = y.cur
          /\ e.mine = y.mine \cup {Row(y.cur, x)} /\ e.fetched = y.fetched /\ e.todo = y.todo
          /\ d.pc = "insert" /\ d.snap = y.snap /\ d.cur = y.cur
          /\ d.mine = y.mine /\ d.fetched = y.fetched /\ d.todo = y.todo
      BY <2>1, <3>2 DEF HydrationShape
    <3>5. \/ hydration' = [hydration EXCEPT ![h] = e]
          \/ hydration' = [hydration EXCEPT ![h] = d]
      BY <3>1, Zenon DEF HydrateInsert
    <3> HIDE DEF e, d
    <3>6. Good(e) /\ Good(d)
      BY <2>1, <3>2, <3>3, <3>4 DEF Row, Good, After
    <3> QED
      BY <1>6, <3>5, <3>6, Zenon
  <2>10. CASE HydrateInserted(h)
    <3>1. y.cur \in Tenants /\ (\A m \in y.mine : m.tenant = y.cur) /\ Has(h, y.fetched \ y.todo)
      BY <2>1, <2>10 DEF HydrateInserted, Hydrated, Runs
    <3>2. After(y, y.fetched \ y.todo)
      BY <1>3, <3>1
    <3> DEFINE e == [y EXCEPT !.pc = "enrich", !.left = y.todo]
    <3>3. /\ e.pc = "enrich" /\ e.snap = y.snap /\ e.cur = y.cur /\ e.mine = y.mine
          /\ e.fetched = y.fetched /\ e.left = y.todo
      BY <2>1 DEF HydrationShape
    <3>4. hydration' = [hydration EXCEPT ![h] = e]
      BY <2>10, Zenon DEF HydrateInserted
    <3> HIDE DEF e
    <3>5. Good(e)
      BY <2>1, <3>1, <3>2, <3>3 DEF Good, After
    <3> QED
      BY <1>6, <3>4, <3>5, Zenon
  <2>11. CASE \E x \in Talents : HydrateEnrich(h, x)
    <3>1. PICK x \in Talents : HydrateEnrich(h, x)
      BY <2>11
    <3>2. /\ y.pc = "enrich" /\ y.cur \in Tenants /\ (\A m \in y.mine : m.tenant = y.cur)
          /\ Has(h, y.fetched \ y.left)
      BY <2>1, <3>1 DEF HydrateEnrich, Hydrated, Runs
    <3>3. After(y, y.fetched \ y.left)
      BY <1>3, <3>2
    <3>4. CASE EnrichThrows(h, x)
      BY <1>8, <3>2, <3>4 DEF EnrichThrows
    <3>5. CASE EnrichOwn(h, x) \/ EnrichCreate(h, x)
      <4> DEFINE e == [y EXCEPT !.left = @ \ {x}]
      <4>1. /\ e.pc = "enrich" /\ e.snap = y.snap /\ e.cur = y.cur /\ e.mine = y.mine
            /\ e.fetched = y.fetched /\ e.left = y.left \ {x}
        BY <2>1, <3>2 DEF HydrationShape
      <4>2. hydration' = [hydration EXCEPT ![h] = e]
        BY <3>5, Zenon DEF EnrichOwn, EnrichCreate
      <4> HIDE DEF e
      <4>3. x \in Later(y.cur)
        <5>1. CASE EnrichOwn(h, x)
          <6>1. PICK m \in Mine(h, x) : m \in matches' /\ m.tenant = y.cur /\ m.talent = x
            BY <3>2, <5>1 DEF EnrichOwn, Mine
          <6> QED
            BY <6>1 DEF Later
        <5>2. CASE EnrichCreate(h, x)
          BY <5>2 DEF EnrichCreate, Stored, Row, Later
        <5> QED
          BY <3>5, <5>1, <5>2
      <4>4. Good(e)
        BY <2>1, <3>2, <3>3, <4>1, <4>3 DEF Good, After
      <4> QED
        BY <1>6, <4>2, <4>4, Zenon
    <3> QED
      BY <3>1, <3>4, <3>5, Zenon DEF HydrateEnrich
  <2>12. CASE HydrateSettle(h)
    <3> DEFINE e == [y EXCEPT !.pc = "next", !.res[y.cur] = "ready"]
    <3>1. e.pc = "next" /\ e.snap = y.snap
      BY <2>1 DEF HydrationShape
    <3>2. \/ Step(h, "broken")
          \/ hydration' = [hydration EXCEPT ![h] = e]
      BY <2>12, Zenon DEF HydrateSettle
    <3> HIDE DEF e
    <3>3. Good(e) /\ y.cur \in Tenants
      BY <2>1, <2>12, <3>1 DEF HydrateSettle, Hydrated, Runs, Good
    <3> QED
      BY <1>6, <1>8, <3>2, <3>3
  <2>13. CASE HydrateBroken(h)
    <3> DEFINE e == [y EXCEPT !.pc = "next", !.res[y.cur] = "failed"]
    <3>1. e.pc = "next" /\ e.snap = y.snap
      BY <2>1 DEF HydrationShape
    <3>2. hydration' = [hydration EXCEPT ![h] = e]
      BY <2>13, Zenon DEF HydrateBroken
    <3> HIDE DEF e
    <3>3. Good(e)
      BY <2>1, <3>1 DEF Good, After
    <3> QED
      BY <1>6, <3>2, <3>3, Zenon
  <2>14. CASE HydrateTally(h)
    BY <1>5, <1>6, <2>14, Zenon DEF HydrateTally
  <2> QED
    BY <1>9, <2>2, <2>3, <2>4, <2>5, <2>6, <2>7, <2>8, <2>9, <2>10, <2>11, <2>12, <2>13,
       <2>14, Zenon DEF HydrateNext
<1>10. CASE \E s \in Syncs : SavedHydrate(s)
  BY <1>7, <1>8, <1>10 DEF SavedHydrate
<1>11. CASE \E v \in Servers : Crash(v)
  <2>1. \A h \in Hydrators : hydration'[h] \in {hydration[h], NoHydration}
    BY <1>11 DEF Crash
  <2> QED
    BY <1>2, <1>4, <1>5, <2>1
<1> QED
  BY <1>7, <1>9, <1>10, <1>11, HydrationsFrame

LEMMA MatchingStarts ==
  ASSUME MatchingAssumption, MatchingInit
  PROVE  MatchingIInv
<1>1. epoch = 1 /\ matches = {} /\ tasks = <<>> /\ NoPool \in PoolShape /\ NewPool(1) \in PoolShape
      /\ NoPool.id = 0 /\ NewPool(1).id = 1 /\ NoPool.task = NoTask /\ NewPool(1).task = NoTask
  BY PoolShapes DEF MatchingInit, NoPool, NewPool
<1>2. PICK P \in SUBSET Tenants : pools = [t \in Tenants |-> IF t \in P THEN NewPool(1) ELSE NoPool]
  BY DEF MatchingInit
<1>3. RowsOK
  <2>1. IsFiniteSet(matches)
    BY <1>1, FS_EmptySet, Zenon
  <2>2. MatchesOK
    BY <1>1, <2>1 DEF MatchesOK
  <2>3. pools \in [Tenants -> PoolShape] /\ \A t \in Tenants : pools[t].id <= epoch
    BY <1>1, <1>2
  <2>4. status \in ProjectStatus /\ lastMatched \in BOOLEAN
    BY DEF MatchingInit, ProjectStatus
  <2> QED
    BY <1>1, <2>2, <2>3, <2>4 DEF RowsOK
<1>4. Started(NoTask, 0) /\ Len(tasks) = 0
  BY <1>1 DEF Started, NoTask
<1>5. TasksOK
  <2>1. \A t \in Tenants : pools[t].task = NoTask
    BY <1>1, <1>2
  <2>2. tasks \in Seq([state : {"queued", "done", "failed"}, results : SUBSET Talents])
    BY <1>1
  <2> QED
    BY <1>4, <2>1, <2>2, Zenon DEF TasksOK
<1>6. TalliesOK
  BY DEF MatchingInit, TalliesOK, MatchingAssumption
<1>7. SyncsOK
  <2>1. NoSync \in SyncShape /\ NoSync.task = NoTask
    BY DEF NoSync, SyncShape, NoTask, NoPool, PoolShape, PoolStatus
  <2>2. sync = [s \in Syncs |-> NoSync]
    BY DEF MatchingInit
  <2> HIDE DEF NoSync
  <2> QED
    BY <1>4, <2>1, <2>2 DEF SyncsOK
<1>8. hydration = [h \in Hydrators |-> NoHydration]
  BY DEF MatchingInit
<1>9. HydrationsOK
  <2>1. NoHydration \in HydrationShape
    BY DEF NoHydration, HydrationShape, NoTask, NoPool, PoolShape, PoolStatus, ProjectStatus
  <2>2. \A t \in Tenants : NoHydration.snap[t].task = NoTask
    BY DEF NoHydration, NoPool
  <2> QED
    BY <1>4, <1>8, <2>1, <2>2 DEF HydrationsOK
<1>10. \A h \in Hydrators : Hydrated(h)
  BY <1>1, <1>8 DEF Hydrated, NoHydration, NoPool, Runs
<1>11. SweepOK /\ StraysOK
  BY DEF MatchingInit, SweepOK, StraysOK, NoSweep, SweepShape
<1> QED
  BY <1>3, <1>5, <1>6, <1>7, <1>9, <1>10, <1>11 DEF MatchingIInv

LEMMA MatchingInvariance ==
  ASSUME MatchingAssumption
  PROVE  MatchingSpec => []MatchingIInv
<1>1. MatchingInit => MatchingIInv
  BY MatchingStarts
<1>2. MatchingIInv /\ [MatchingNext]_vars => MatchingIInv'
  <2> SUFFICES ASSUME MatchingIInv, [MatchingNext]_vars
               PROVE  MatchingIInv'
    OBVIOUS
  <2>1. RowsOK' /\ TasksOK' /\ TalliesOK' /\ SyncsOK'
    BY RowsStep, TasksStep, TalliesStep, SyncsStep
  <2>2. HydrationsOK' /\ SweepOK' /\ StraysOK' /\ \A h \in Hydrators : Hydrated(h)'
    BY HydrationsStep, SweepStep, StraysStep, HydratedStep
  <2> QED
    BY <2>1, <2>2 DEF MatchingIInv
<1> QED
  BY <1>1, <1>2, PTL DEF MatchingSpec

\* Whatever pools, talents, server processes, syncs and hydrations there are, the
\* project's rows and the processes keep their types, task ids name started tasks,
\* and there is at most one Match row per pool and talent (the unique key that
\* hydrateResultRows relies on).
THEOREM MatchingTypes ==
  ASSUME MatchingAssumption
  PROVE  MatchingSpec => []MatchingTypeOK
<1>1. ASSUME MatchingIInv
      PROVE  MatchingTypeOK
  <2>1. pools \in [Tenants -> PoolRows]
    <3>1. pools \in [Tenants -> PoolShape] /\ \A t \in Tenants : Started(pools[t].task, Len(tasks))
      BY <1>1 DEF MatchingIInv, RowsOK, TasksOK
    <3>2. ASSUME NEW t \in Tenants
          PROVE  pools[t] \in PoolRows
      <4>1. pools[t] \in PoolShape /\ pools[t].task.id \in 0 .. Len(tasks)
        BY <3>1 DEF Started
      <4> QED
        BY <4>1 DEF PoolShape, PoolRows
    <3> QED
      BY <3>1, <3>2
  <2>2. \A i \in DOMAIN tasks : tasks[i].state \in {"queued", "done", "failed"}
                                /\ tasks[i].results \subseteq Talents
    <3>1. tasks \in Seq([state : {"queued", "done", "failed"}, results : SUBSET Talents])
      BY <1>1 DEF MatchingIInv, TasksOK
    <3>2. ASSUME NEW i \in 1 .. Len(tasks)
          PROVE  tasks[i] \in [state : {"queued", "done", "failed"}, results : SUBSET Talents]
      BY <3>1, <3>2, ElementOfSeq, Zenon
    <3> QED
      BY <3>1, <3>2
  <2>3. matches \subseteq [tenant : Tenants, talent : Talents, epoch : 1 .. epoch]
    BY <1>1 DEF MatchingIInv, RowsOK, MatchesOK, MatchRows
  <2>4. \A h \in Hydrators : hydration[h].fetched \subseteq Talents
    BY <1>1 DEF MatchingIInv, HydrationsOK, HydrationShape
  <2> QED
    BY <1>1, <2>1, <2>2, <2>3, <2>4
    DEF MatchingTypeOK, MatchingIInv, RowsOK, MatchesOK, TalliesOK
<1> QED
  BY <1>1, MatchingInvariance, PTL

\* A pool is marked READY by a hydration only when all its results have a row.
THEOREM NothingIsLost ==
  ASSUME MatchingAssumption
  PROVE  MatchingSpec => []NothingLost
<1>1. MatchingIInv => NothingLost
  BY DEF MatchingIInv, Hydrated, Has, NothingLost
<1> QED
  BY <1>1, MatchingInvariance, PTL

-----------------------------------------------------------------------------
(* Notifications.  In one server process no two hydrations are under way, so *)
(* what was announced and what the one under way may announce are apart.     *)

OneServer == \A h, k \in Hydrators : ServerOf[h] = ServerOf[k]
NoneSaved ==
  \A s \in Syncs : sync[s].kind # "saved" /\ sync[s].pc \notin {"reset", "hydrate", "await"}
OneHydration ==
  \A h, k \in Hydrators : hydration[h].pc # "idle" /\ hydration[k].pc # "idle" => h = k

\* A hydration that has counted the rows before its own.
Counted(y) == y.pc \notin {"idle", "load", "count"}
Owing ==
  /\ announced <= inserted
  /\ \A h \in Hydrators : Counted(hydration[h]) =>
       announced + Cardinality(matches) <= inserted + hydration[h].before
ToldInv == NoneSaved /\ OneHydration /\ Owing

LEMMA NoneSavedStep ==
  ASSUME MatchingIInv, NoneSaved, "saved" \notin Kinds, [MatchingNext]_vars
  PROVE  NoneSaved'
<1>1. sync \in [Syncs -> SyncShape]
  BY DEF MatchingIInv, SyncsOK
<1> DEFINE Own(e) == e.kind # "saved" /\ e.pc \notin {"reset", "hydrate", "await"}
<1>2. Own(NoSync)
  BY DEF NoSync
<1>3. \A s \in Syncs : Own(sync[s])
  BY DEF NoneSaved
<1>4. ASSUME \A s \in Syncs : Own(sync'[s])
      PROVE  NoneSaved'
  BY <1>4 DEF NoneSaved
<1>5. ASSUME NEW s \in Syncs, NEW e, Own(e), sync' = [sync EXCEPT ![s] = e]
      PROVE  NoneSaved'
  <2>1. \A r \in Syncs : sync'[r] = IF r = s THEN e ELSE sync[r]
    BY <1>1, <1>5
  <2> HIDE DEF Own
  <2> QED
    BY <1>3, <1>4, <1>5, <2>1
<1>6. ASSUME NEW s \in Syncs, SyncNext(s)
      PROVE  NoneSaved'
  <2> DEFINE q == sync[s]
  <2>1. q \in SyncShape /\ Own(q)
    BY <1>1, <1>3
  <2>17. ASSUME NEW e, Own(e), sync' = [sync EXCEPT ![s] = e]
         PROVE  NoneSaved'
    <3> HIDE DEF Own
    <3> QED
      BY <1>5, <2>17
  <2>2. ASSUME NEW e \in SyncShape, e.kind = q.kind, NEW pc \in {"load", "next", "job", "start",
                 "saveJob", "saveTask", "error", "preserve", "failed"}
        PROVE  Own([e EXCEPT !.pc = pc])
    BY <2>1, <2>2 DEF SyncShape
  <2>3. ASSUME NEW pc \in {"load", "error", "saveJob", "start", "failed"}, GoTo(s, pc)
        PROVE  NoneSaved'
    <3>1. Own([q EXCEPT !.pc = pc])
      BY <2>1, <2>2, <2>3
    <3> HIDE DEF Own
    <3> QED
      BY <2>17, <2>3, <3>1 DEF GoTo
  <2>4. ASSUME Throw(s)
        PROVE  NoneSaved'
    <3>1. Own([q EXCEPT !.pc = "failed"])
      BY <2>1, <2>2
    <3> HIDE DEF Own
    <3>2. Own(IF q.kind \in {"create", "edit"} THEN [q EXCEPT !.pc = "failed"] ELSE NoSync)
      BY <1>2, <3>1
    <3> QED
      BY <2>17, <2>4, <3>2, Zenon DEF Throw
  <2>5. CASE \E k \in Kinds : BeginSync(s, k)
    <3>1. PICK k \in Kinds : BeginSync(s, k)
      BY <2>5
    <3>2. k # "saved"
      BY <3>1 DEF BeginSync
    <3>3. Own([NoSync EXCEPT !.pc = "load", !.kind = k])
      BY <3>2 DEF NoSync
    <3> HIDE DEF Own
    <3> QED
      BY <2>17, <3>1, <3>3, Zenon DEF BeginSync
  <2>6. CASE BeginEdit(s)
    <3>1. Own([NoSync EXCEPT !.pc = "load", !.kind = "edit"])
      BY DEF NoSync
    <3> HIDE DEF Own
    <3> QED
      BY <2>17, <2>6, <3>1, Zenon DEF BeginEdit
  <2>7. ~BeginSaved(s) /\ ~SavedReset(s) /\ ~SavedHydrate(s) /\ ~SavedNotify(s)
    BY <2>1 DEF BeginSaved, SavedReset, SavedHydrate, SavedNotify, At
  <2>8. CASE SyncCall(s) \/ SyncSaveJob(s)
    BY <2>3, <2>8 DEF SyncCall, SyncSaveJob
  <2>9. CASE SyncLoad(s)
    <3> DEFINE found == {t \in Tenants : pools[t].id > 0}
    <3>1. Own([q EXCEPT !.pc = "next", !.snap = pools, !.rest = found])
      <4> HIDE DEF found
      <4> QED
        BY <2>1 DEF SyncShape
    <3> HIDE DEF Own
    <3> QED
      BY <2>17, <2>4, <2>9, <3>1, ZenonT(60) DEF SyncLoad
  <2>10. CASE SyncFailed(s)
    <3> HIDE DEF Own
    <3> QED
      BY <1>2, <2>17, <2>10, Zenon DEF SyncFailed
  <2>11. CASE \E t \in Tenants : SyncPool(s, t)
    <3>1. PICK t \in Tenants : SyncPool(s, t)
      BY <2>11
    <3>2. Own([q EXCEPT !.cur = t, !.rest = @ \ {t}, !.pc = IF q.snap[t].job THEN "start" ELSE "job"])
      BY <2>1 DEF SyncShape
    <3> HIDE DEF Own
    <3> QED
      BY <2>17, <3>1, <3>2, Zenon DEF SyncPool
  <2>12. CASE SyncStart(s)
    <3>1. ASSUME NEW k
          PROVE  Own([q EXCEPT !.pc = "saveTask", !.task = k])
      BY <2>1 DEF SyncShape
    <3> HIDE DEF Own
    <3>2. ASSUME NEW k, sync' = [sync EXCEPT ![s].pc = "saveTask", ![s].task = k]
          PROVE  NoneSaved'
      BY <2>17, <3>1, <3>2, Zenon
    <3> QED
      BY <2>3, <2>12, <3>2, Zenon DEF SyncStart
  <2>13. CASE SyncSaveTask(s)
    <3>1. Own([q EXCEPT !.pc = "next", !.out[q.cur] = "MATCHING"])
      BY <2>1 DEF SyncShape
    <3>2. \/ GoTo(s, "error")
          \/ sync' = [sync EXCEPT ![s].pc = "next", ![s].out[q.cur] = "MATCHING"]
      BY <2>13, Zenon DEF SyncSaveTask
    <3> HIDE DEF Own
    <3> QED
      BY <2>17, <2>3, <3>1, <3>2, Zenon
  <2>14. CASE SyncCount(s)
    <3>1. \A c \in BOOLEAN : Own([q EXCEPT !.pc = "preserve", !.cached = c])
      BY <2>1 DEF SyncShape
    <3> HIDE DEF Own
    <3> QED
      BY <2>17, <2>14, <3>1, Zenon DEF SyncCount
  <2>15. CASE SyncPreserve(s)
    <3>1. \A k \in {"READY", "FAILED"} : Own([q EXCEPT !.pc = "next", !.out[q.cur] = k])
      BY <2>1 DEF SyncShape
    <3> HIDE DEF Own
    <3> QED
      BY <2>17, <2>15, <3>1, Zenon DEF SyncPreserve
  <2>16. CASE SyncRollup(s)
    <3>1. sync' = [sync EXCEPT ![s] = NoSync]
      BY <2>1, <2>16, Zenon DEF SyncRollup
    <3> HIDE DEF Own
    <3> QED
      BY <1>2, <2>17, <3>1, Zenon
  <2> QED
    BY <1>6, <2>5, <2>6, <2>7, <2>8, <2>9, <2>10, <2>11, <2>12, <2>13, <2>14, <2>15, <2>16,
       Zenon DEF SyncNext
<1>7. CASE \E v \in Servers : Crash(v)
  <2>1. \A s \in Syncs : sync'[s] \in {sync[s], NoSync}
    BY <1>7 DEF Crash
  <2> HIDE DEF Own
  <2> QED
    BY <1>2, <1>3, <1>4, <2>1
<1>8. CASE UNCHANGED sync
  BY <1>3, <1>4, <1>8
<1> QED
  BY <1>6, <1>7, <1>8, SyncsFrame


\* What a step of a hydration does to its own place and to what it counted.
Turns(h, e) ==
  \/ HydrateBegin(h) /\ e.pc = "load"
  \/ HydrateLoad(h) /\ e.pc = "count"
  \/ HydrateCount(h) /\ e.pc = "next" /\ e.before = Cardinality(matches)
  \/ HydrateTally(h) /\ e = NoHydration
  \/ /\ Counted(hydration[h]) /\ ~HydrateTally(h)
     /\ Counted(e) /\ e.before = hydration[h].before

LEMMA HydrationTurns ==
  ASSUME MatchingIInv, NEW h \in Hydrators, HydrateNext(h)
  PROVE  \E e : hydration' = [hydration EXCEPT ![h] = e] /\ Turns(h, e)
<1> DEFINE y == hydration[h]
<1>1. y \in HydrationShape
  BY DEF MatchingIInv, HydrationsOK
<1> DEFINE Goal == \E e : hydration' = [hydration EXCEPT ![h] = e] /\ Turns(h, e)
<1>2. ASSUME NEW e, hydration' = [hydration EXCEPT ![h] = e], Turns(h, e)
      PROVE  Goal
  BY <1>2
<1>3. ASSUME Counted(y), ~HydrateTally(h), NEW e, Counted(e), e.before = y.before,
             hydration' = [hydration EXCEPT ![h] = e]
      PROVE  Goal
  BY <1>2, <1>3 DEF Turns
<1>4. \A pc \in {"load", "count", "next", "fetch", "rows", "insert", "enrich", "settle", "broken", "tally"} :
        [y EXCEPT !.pc = pc].pc = pc /\ [y EXCEPT !.pc = pc].before = y.before
  BY <1>1 DEF HydrationShape
<1> SUFFICES Goal
  OBVIOUS
<1> HIDE DEF Goal
<1>5. ASSUME Counted(y), ~HydrateTally(h), NEW pc \in {"next", "broken", "settle", "tally"}, Step(h, pc)
      PROVE  Goal
  <2>1. Counted([y EXCEPT !.pc = pc]) /\ [y EXCEPT !.pc = pc].before = y.before
    BY <1>4 DEF Counted
  <2> QED
    BY <1>3, <1>5, <2>1, Zenon DEF Step
<1>6. CASE HydrateBegin(h)
  <2>1. Turns(h, [y EXCEPT !.pc = "load"])
    BY <1>4, <1>6 DEF Turns
  <2> QED
    BY <1>2, <1>6, <2>1, Zenon DEF HydrateBegin, Step
<1>7. CASE HydrateLoad(h)
  <2> DEFINE found == {t \in Tenants : pools[t].id > 0}
             e == [y EXCEPT !.pc = "count", !.status = status, !.snap = pools, !.rest = found]
  <2>1. hydration' = [hydration EXCEPT ![h] = e]
    BY <1>7, Zenon DEF HydrateLoad
  <2>2. e.pc = "count"
    <3> HIDE DEF found
    <3> QED
      BY <1>1 DEF HydrationShape
  <2> HIDE DEF e
  <2> QED
    BY <1>2, <1>7, <2>1, <2>2 DEF Turns
<1>8. CASE HydrateCount(h)
  <2> DEFINE e == [y EXCEPT !.pc = "next", !.before = Cardinality(matches)]
  <2>1. hydration' = [hydration EXCEPT ![h] = e]
    BY <1>8, Zenon DEF HydrateCount
  <2>2. e.pc = "next" /\ e.before = Cardinality(matches)
    BY <1>1 DEF HydrationShape
  <2> HIDE DEF e
  <2> QED
    BY <1>2, <1>8, <2>1, <2>2 DEF Turns
<1>9. CASE HydrateTally(h)
  <2>1. hydration' = [hydration EXCEPT ![h] = NoHydration]
    BY <1>9, Zenon DEF HydrateTally
  <2> QED
    BY <1>2, <1>9, <2>1 DEF Turns
<1>10. CASE (\E t \in Tenants : HydratePool(h, t)) \/ HydrateRollup(h)
  <2>0. Counted(y) /\ ~HydrateTally(h)
    BY <1>10 DEF HydratePool, HydrateRollup, HydrateTally, Runs, Counted
  <2>1. CASE HydrateRollup(h)
    BY <1>5, <2>0, <2>1 DEF HydrateRollup
  <2>2. CASE \E t \in Tenants : HydratePool(h, t)
    <3>1. PICK t \in Tenants : HydratePool(h, t)
      BY <2>2
    <3>2. PICK pc \in {"fetch", "next"}, kept \in {"ready", "failed", "matching"} :
            hydration' = [hydration EXCEPT ![h].cur = t, ![h].rest = @ \ {t},
                                           ![h].pc = pc, ![h].res[t] = kept]
      BY <3>1 DEF HydratePool
    <3> DEFINE e == [y EXCEPT !.cur = t, !.rest = @ \ {t}, !.pc = pc, !.res[t] = kept]
    <3>3. Counted(e) /\ e.before = y.before
      BY <1>1 DEF HydrationShape, Counted
    <3>4. hydration' = [hydration EXCEPT ![h] = e]
      BY <3>2, ZenonT(60)
    <3> HIDE DEF e
    <3> QED
      BY <1>3, <2>0, <3>3, <3>4
  <2> QED
    BY <1>10, <2>1, <2>2
<1>11. CASE HydrateFetch(h)
  <2>0. Counted(y) /\ ~HydrateTally(h)
    BY <1>11 DEF HydrateFetch, HydrateTally, Runs, Counted
  <2>1. ASSUME NEW R, Fetches(h, R)
        PROVE  Goal
    <3>1. Counted([y EXCEPT !.pc = "rows", !.fetched = R])
          /\ [y EXCEPT !.pc = "rows", !.fetched = R].before = y.before
      BY <1>1 DEF HydrationShape, Counted
    <3> QED
      BY <1>3, <2>0, <2>1, <3>1, Zenon DEF Fetches
  <2> QED
    BY <1>5, <1>11, <2>0, <2>1 DEF HydrateFetch
<1>12. CASE HydrateRows(h) \/ HydrateInserted(h) \/ HydrateEnriched(h)
  <2>0. Counted(y) /\ ~HydrateTally(h)
    BY <1>12 DEF HydrateRows, HydrateInserted, HydrateEnriched, HydrateTally, Runs, Counted
  <2>1. \A R : /\ Counted([y EXCEPT !.pc = "insert", !.todo = R, !.left = R, !.mine = {}])
               /\ [y EXCEPT !.pc = "insert", !.todo = R, !.left = R, !.mine = {}].before = y.before
               /\ Counted([y EXCEPT !.pc = "enrich", !.left = R])
               /\ [y EXCEPT !.pc = "enrich", !.left = R].before = y.before
    BY <1>1 DEF HydrationShape, Counted
  <2>2. CASE HydrateRows(h)
    <3> DEFINE R == y.fetched \ Stored(y.cur)
    <3>1. hydration' = [hydration EXCEPT ![h] =
                          [y EXCEPT !.pc = "insert", !.todo = R, !.left = R, !.mine = {}]]
      BY <2>2, Zenon DEF HydrateRows
    <3> HIDE DEF R
    <3> QED
      BY <1>3, <2>0, <2>1, <3>1, Zenon
  <2>3. CASE HydrateInserted(h)
    BY <1>3, <2>0, <2>1, <2>3, ZenonT(60) DEF HydrateInserted
  <2>4. CASE HydrateEnriched(h)
    BY <1>5, <2>0, <2>4 DEF HydrateEnriched
  <2> QED
    BY <1>12, <2>2, <2>3, <2>4
<1>13. CASE \E x \in Talents : HydrateInsert(h, x) \/ HydrateEnrich(h, x)
  <2>1. PICK x \in Talents : HydrateInsert(h, x) \/ HydrateEnrich(h, x)
    BY <1>13
  <2>0. Counted(y) /\ ~HydrateTally(h)
    BY <2>1 DEF HydrateInsert, HydrateEnrich, HydrateTally, Runs, Counted
  <2> DEFINE d == [y EXCEPT !.left = @ \ {x}]
             e == [y EXCEPT !.left = @ \ {x}, !.mine = @ \cup {Row(y.cur, x)}]
  <2>2. /\ Counted(d) /\ d.before = y.before
        /\ Counted(e) /\ e.before = y.before
    BY <1>1, <2>0 DEF HydrationShape, Counted
  <2>3. CASE HydrateInsert(h, x)
    <3>1. \/ hydration' = [hydration EXCEPT ![h] = e]
          \/ hydration' = [hydration EXCEPT ![h] = d]
      BY <2>3, Zenon DEF HydrateInsert
    <3> HIDE DEF e, d
    <3> QED
      BY <1>3, <2>0, <2>2, <3>1, Zenon
  <2>4. CASE EnrichOwn(h, x) \/ EnrichCreate(h, x)
    <3>1. hydration' = [hydration EXCEPT ![h] = d]
      BY <2>4, Zenon DEF EnrichOwn, EnrichCreate
    <3> HIDE DEF d
    <3> QED
      BY <1>3, <2>0, <2>2, <3>1, Zenon
  <2>5. CASE EnrichThrows(h, x)
    BY <1>5, <2>0, <2>5 DEF EnrichThrows
  <2> QED
    BY <2>1, <2>3, <2>4, <2>5 DEF HydrateEnrich
<1>14. CASE HydrateSettle(h) \/ HydrateBroken(h)
  <2>0. Counted(y) /\ ~HydrateTally(h)
    BY <1>14 DEF HydrateSettle, HydrateBroken, HydrateTally, Runs, Counted
  <2>1. ASSUME NEW k \in {"ready", "failed"},
               hydration' = [hydration EXCEPT ![h] = [y EXCEPT !.pc = "next", !.res[y.cur] = k]]
        PROVE  Goal
    <3> DEFINE e == [y EXCEPT !.pc = "next", !.res[y.cur] = k]
    <3>1. Counted(e) /\ e.before = y.before
      BY <1>1 DEF HydrationShape, Counted
    <3>2. hydration' = [hydration EXCEPT ![h] = e]
      BY <2>1
    <3> HIDE DEF e
    <3> QED
      BY <1>3, <2>0, <3>1, <3>2
  <2>2. CASE HydrateSettle(h)
    <3>1. \/ Step(h, "broken")
          \/ hydration' = [hydration EXCEPT ![h] = [y EXCEPT !.pc = "next", !.res[y.cur] = "ready"]]
      BY <2>2, Zenon DEF HydrateSettle
    <3> QED
      BY <1>5, <2>0, <2>1, <3>1
  <2>3. CASE HydrateBroken(h)
    <3>1. hydration' = [hydration EXCEPT ![h] = [y EXCEPT !.pc = "next", !.res[y.cur] = "failed"]]
      BY <2>3, Zenon DEF HydrateBroken
    <3> QED
      BY <2>1, <3>1
  <2> QED
    BY <1>14, <2>2, <2>3
<1> QED
  BY <1>6, <1>7, <1>8, <1>9, <1>10, <1>11, <1>12, <1>13, <1>14, Zenon DEF HydrateNext


\* Every row that appears was stored by the step, and edits only take rows away.
LEMMA MatchesMove ==
  ASSUME MatchingIInv, NoneSaved, [MatchingNext]_vars
  PROVE  /\ Cardinality(matches) \in Nat /\ Cardinality(matches') \in Nat
         /\ \/ inserted' = inserted /\ Cardinality(matches') <= Cardinality(matches)
            \/ inserted' = inserted + 1 /\ Cardinality(matches') = Cardinality(matches) + 1
         /\ (~\E h \in Hydrators : HydrateTally(h)) => announced' = announced
<1>1. IsFiniteSet(matches) /\ Cardinality(matches) \in Nat
  BY FS_CardinalityType DEF MatchingIInv, RowsOK, MatchesOK
<1> DEFINE Moves ==
      /\ Cardinality(matches') \in Nat
      /\ \/ inserted' = inserted /\ Cardinality(matches') <= Cardinality(matches)
         \/ inserted' = inserted + 1 /\ Cardinality(matches') = Cardinality(matches) + 1
<1>2. ASSUME matches' \subseteq matches, inserted' = inserted
      PROVE  Moves
  BY <1>1, <1>2, FS_Subset, FS_CardinalityType
<1>3. ASSUME NEW t, NEW x, x \notin Stored(t), matches' = matches \cup {Row(t, x)}, inserted' = inserted + 1
      PROVE  Moves
  <2>1. Row(t, x) \notin matches
    BY <1>3 DEF Stored, Row
  <2> HIDE DEF Moves
  <2>2. Cardinality(matches') = Cardinality(matches) + 1
    BY <1>1, <1>3, <2>1, FS_AddElement
  <2> QED
    BY <1>1, <1>3, <2>2 DEF Moves
<1> HIDE DEF Moves
<1>4. ASSUME NEW s \in Syncs, SyncNext(s)
      PROVE  Moves /\ announced' = announced
  <2>1. ~BeginSaved(s) \/ UNCHANGED <<matches, inserted, announced>>
    BY DEF BeginSaved, row, tallies
  <2>2. ~SavedNotify(s)
    BY DEF NoneSaved, SavedNotify, At
  <2>3. CASE BeginEdit(s)
    <3>1. matches' \subseteq matches
      BY <2>3 DEF BeginEdit
    <3> QED
      BY <1>2, <2>3, <3>1 DEF BeginEdit, tallies
  <2>4. CASE ~BeginEdit(s)
    <3>1. UNCHANGED <<matches, inserted, announced>>
      BY <1>4, <2>1, <2>2, <2>4, Zenon DEF SyncNext, BeginSync, SavedReset, SyncLoad, SyncFailed, SyncPool, SyncCall,
         SyncSaveJob, SyncStart, SyncSaveTask, SyncCount, SyncPreserve, SyncRollup,
         SavedHydrate, SyncKeeps, tallies, row
    <3> QED
      BY <1>2, <3>1
  <2> QED
    BY <2>3, <2>4
<1>5. ASSUME NEW h \in Hydrators, HydrateNext(h)
      PROVE  Moves /\ (~HydrateTally(h) => announced' = announced)
  <2>1. CASE \E x \in Talents : HydrateInsert(h, x) \/ HydrateEnrich(h, x)
    <3>1. PICK x \in Talents : HydrateInsert(h, x) \/ HydrateEnrich(h, x)
      BY <2>1
    <3> DEFINE t == hydration[h].cur
    <3>2. announced' = announced
      BY <3>1 DEF HydrateInsert, HydrateEnrich
    <3>3. \/ UNCHANGED <<matches, inserted>>
          \/ x \notin Stored(t) /\ matches' = matches \cup {Row(t, x)} /\ inserted' = inserted + 1
      BY <3>1, Zenon DEF HydrateInsert, HydrateEnrich, EnrichOwn, EnrichCreate, EnrichThrows
    <3> QED
      BY <1>2, <1>3, <3>2, <3>3
  <2>2. CASE HydrateTally(h)
    <3>1. UNCHANGED <<matches, inserted>>
      BY <2>2 DEF HydrateTally, row
    <3> QED
      BY <1>2, <2>2, <3>1
  <2>3. CASE ~HydrateTally(h) /\ ~\E x \in Talents : HydrateInsert(h, x) \/ HydrateEnrich(h, x)
    <3>1. UNCHANGED <<matches, inserted, announced>>
      BY <1>5, <2>3, Zenon DEF HydrateNext, HydrateBegin, HydrateLoad, HydrateCount, HydratePool,
         HydrateFetch, HydrateRows, HydrateInserted, HydrateEnriched, HydrateSettle,
         HydrateBroken, HydrateRollup, HydrateOnly, tallies, row
    <3> QED
      BY <1>2, <3>1
  <2> QED
    BY <2>1, <2>2, <2>3
<1>6. ASSUME NEW y \in strays, Stray(y)
      PROVE  Moves /\ announced' = announced
  <2>1. \/ UNCHANGED <<matches, inserted>>
        \/ /\ y.talent \notin Stored(y.tenant) /\ matches' = matches \cup {Row(y.tenant, y.talent)}
           /\ inserted' = inserted + 1
    BY <1>6, Zenon DEF Stray
  <2> QED
    BY <1>2, <1>3, <1>6, <2>1 DEF Stray
<1>7. ASSUME SweepNext
      PROVE  UNCHANGED <<matches, inserted, announced>>
  BY <1>7, Zenon DEF SweepNext, SweepFind, SweepCount, SweepWrite, SweepRead, SweepRollup,
     SweepKeeps, tallies, row
<1>8. ASSUME \/ \E t \in Tenants : GrowStale(t)
             \/ \E op \in Events : Change(op)
             \/ \E i \in DOMAIN tasks : TaskEnds(i)
             \/ \E v \in Servers : Crash(v)
             \/ UNCHANGED vars
      PROVE  UNCHANGED <<matches, inserted, announced>>
  BY <1>8, Zenon DEF GrowStale, Change, TaskEnds, Crash, SweepKeeps, tallies, row, vars
<1>9. Moves /\ ((~\E h \in Hydrators : HydrateTally(h)) => announced' = announced)
  <2>1. ASSUME UNCHANGED <<matches, inserted, announced>>
        PROVE  Moves /\ announced' = announced
    BY <1>2, <2>1
  <2> QED
    BY <1>4, <1>5, <1>6, <1>7, <1>8, <2>1, Zenon DEF MatchingNext
<1> QED
  BY <1>1, <1>9 DEF Moves


\* Where a hydration begins, no other one of the server is under way.
LEMMA OneHydrationStep ==
  ASSUME MatchingIInv, OneServer, NoneSaved, OneHydration, [MatchingNext]_vars
  PROVE  OneHydration'
<1>1. hydration \in [Hydrators -> HydrationShape]
  BY DEF MatchingIInv, HydrationsOK
<1>2. ASSUME \A k \in Hydrators : hydration'[k].pc # "idle" => hydration[k].pc # "idle"
      PROVE  OneHydration'
  BY <1>2 DEF OneHydration
<1>3. ASSUME NEW h \in Hydrators, HydrateNext(h)
      PROVE  OneHydration'
  <2>1. PICK e : hydration' = [hydration EXCEPT ![h] = e] /\ Turns(h, e)
    BY <1>3, HydrationTurns
  <2>2. \A k \in Hydrators : hydration'[k] = IF k = h THEN e ELSE hydration[k]
    BY <1>1, <2>1
  <2>3. CASE HydrateBegin(h)
    <3>1. \A k \in Hydrators : hydration[k].pc = "idle"
      BY <2>3 DEF HydrateBegin, InFlight, OneServer
    <3> QED
      BY <2>2, <3>1 DEF OneHydration
  <2>4. CASE ~HydrateBegin(h)
    <3>1. e.pc # "idle" => hydration[h].pc # "idle"
      BY <2>1, <2>4 DEF Turns, HydrateLoad, HydrateCount, HydrateTally, Runs, Counted
    <3> QED
      BY <1>2, <2>2, <3>1
  <2> QED
    BY <2>3, <2>4
<1>4. CASE \E v \in Servers : Crash(v)
  <2>1. \A k \in Hydrators : hydration'[k] \in {hydration[k], NoHydration}
    BY <1>4 DEF Crash
  <2>2. NoHydration.pc = "idle"
    BY DEF NoHydration
  <2> QED
    BY <1>2, <2>1, <2>2
<1>5. ASSUME NEW s \in Syncs, SavedHydrate(s)
      PROVE  FALSE
  BY <1>5 DEF NoneSaved, SavedHydrate, At
<1>6. CASE UNCHANGED hydration
  BY <1>2, <1>6
<1> QED
  BY <1>3, <1>4, <1>5, <1>6, HydrationsFrame


LEMMA OwingStep ==
  ASSUME MatchingIInv, ToldInv, [MatchingNext]_vars
  PROVE  Owing'
<1> DEFINE n == Cardinality(matches)
           m == Cardinality(matches')
           Due(y, a, i, c) == Counted(y) => a + c <= i + y.before
<1>1. /\ hydration \in [Hydrators -> HydrationShape] /\ inserted \in Nat /\ announced \in Nat
      /\ \A h \in Hydrators : hydration[h].before \in Nat
  BY DEF MatchingIInv, HydrationsOK, TalliesOK, HydrationShape
<1>2. /\ n \in Nat /\ m \in Nat
      /\ \/ inserted' = inserted /\ m <= n
         \/ inserted' = inserted + 1 /\ m = n + 1
      /\ (~\E h \in Hydrators : HydrateTally(h)) => announced' = announced
  BY MatchesMove DEF ToldInv
<1>3. announced <= inserted /\ \A h \in Hydrators : Due(hydration[h], announced, inserted, n)
  BY DEF ToldInv, Owing
<1>4. ASSUME announced' <= inserted', \A h \in Hydrators : Due(hydration'[h], announced', inserted', m)
      PROVE  Owing'
  BY <1>4 DEF Owing, Counted
<1> HIDE DEF n, m
\* A hydration keeps what it counted, or counts now, or is no longer under way.
<1>5. ASSUME NEW y, y.before \in Nat, Due(y, announced, inserted, n)
      PROVE  Due(y, announced, inserted', m)
  BY <1>1, <1>2, <1>5
<1>6. CASE \E h \in Hydrators : HydrateTally(h)
  <2>1. PICK h \in Hydrators : HydrateTally(h)
    BY <1>6
  <2>2. UNCHANGED <<matches, inserted>>
    BY <2>1 DEF HydrateTally, row
  <2>3. m = n
    BY <2>2 DEF m, n
  <2>4. Counted(hydration[h])
    BY <2>1 DEF HydrateTally, Runs, Counted
  <2>5. announced' \in {announced, announced + (n - hydration[h].before)}
    BY <2>1, Zenon DEF HydrateTally, n
  <2>6. announced' <= inserted
    BY <1>1, <1>2, <1>3, <2>4, <2>5
  <2>7. \A k \in Hydrators : ~Counted(hydration'[k])
    <3>1. hydration' = [hydration EXCEPT ![h] = NoHydration] /\ ~Counted(NoHydration)
      BY <2>1 DEF HydrateTally, Counted, NoHydration
    <3>2. \A k \in Hydrators : k # h => hydration[k].pc = "idle"
      BY <2>4 DEF ToldInv, OneHydration, Counted
    <3> QED
      BY <1>1, <3>1, <3>2 DEF Counted
  <2> QED
    BY <1>4, <2>2, <2>6, <2>7
<1>7. CASE ~\E h \in Hydrators : HydrateTally(h)
  <2>1. announced' = announced /\ announced <= inserted'
    BY <1>1, <1>2, <1>3, <1>7
  <2>2. ASSUME \A k \in Hydrators : \/ hydration'[k] = hydration[k]
                                    \/ ~Counted(hydration'[k])
                                    \/ Counted(hydration[k]) /\ hydration'[k].before = hydration[k].before
                                    \/ hydration'[k].before = n /\ n = m /\ inserted' = inserted
        PROVE  Owing'
    <3>1. ASSUME NEW k \in Hydrators
          PROVE  Due(hydration'[k], announced', inserted', m)
      BY <1>1, <1>2, <1>3, <2>1, <2>2, <3>1
    <3> QED
      BY <1>4, <2>1, <3>1
  <2>3. ASSUME NEW h \in Hydrators, HydrateNext(h)
        PROVE  Owing'
    <3>1. PICK e : hydration' = [hydration EXCEPT ![h] = e] /\ Turns(h, e)
      BY <2>3, HydrationTurns
    <3>2. \A k \in Hydrators : hydration'[k] = IF k = h THEN e ELSE hydration[k]
      BY <1>1, <3>1
    <3>3. CASE HydrateCount(h) /\ e.before = Cardinality(matches)
      <4>1. UNCHANGED <<matches, inserted>>
        BY <3>3 DEF HydrateCount, HydrateOnly, row, tallies
      <4>2. n = m /\ e.before = n
        BY <3>3, <4>1 DEF n, m
      <4> QED
        BY <2>2, <3>2, <4>1, <4>2
    <3>4. CASE ~Counted(e)
      BY <2>2, <3>2, <3>4
    <3>5. CASE Counted(hydration[h]) /\ e.before = hydration[h].before
      BY <2>2, <3>2, <3>5
    <3> QED
      BY <1>7, <3>1, <3>3, <3>4, <3>5 DEF Turns, Counted
  <2>4. CASE \E v \in Servers : Crash(v)
    <3>1. \A k \in Hydrators : hydration'[k] \in {hydration[k], NoHydration}
      BY <2>4 DEF Crash
    <3>2. ~Counted(NoHydration)
      BY DEF NoHydration, Counted
    <3> QED
      BY <2>2, <3>1, <3>2
  <2>5. ASSUME NEW s \in Syncs, SavedHydrate(s)
        PROVE  FALSE
    BY <2>5 DEF ToldInv, NoneSaved, SavedHydrate, At
  <2>6. CASE UNCHANGED hydration
    BY <2>2, <2>6
  <2> QED
    BY <2>3, <2>4, <2>5, <2>6, HydrationsFrame
<1> QED
  BY <1>6, <1>7

\* Where all hydrations of the project run in one server process, and no saved
\* search runs, no stored row is counted in two notifications, whatever edits drop
\* rows, crashes cut a hydration short and stray inserts land late (hydrate.ts,
\* the inflight map and "Notify the project owner ONCE").
THEOREM AlwaysAnnouncedOnce ==
  ASSUME MatchingAssumption, OneServer, "saved" \notin Kinds
  PROVE  MatchingSpec => []AnnouncedOnce
<1>1. MatchingInit => ToldInv
  <2> SUFFICES ASSUME MatchingInit
               PROVE  ToldInv
    OBVIOUS
  <2>1. NoneSaved /\ OneHydration /\ announced = 0 /\ inserted = 0
    BY DEF MatchingInit, NoneSaved, OneHydration, NoSync, NoHydration
  <2>2. \A h \in Hydrators : ~Counted(hydration[h])
    BY DEF MatchingInit, NoHydration, Counted
  <2> QED
    BY <2>1, <2>2 DEF ToldInv, Owing
<1>2. MatchingIInv /\ ToldInv /\ [MatchingNext]_vars => ToldInv'
  <2> SUFFICES ASSUME MatchingIInv, ToldInv, [MatchingNext]_vars
               PROVE  ToldInv'
    OBVIOUS
  <2>1. NoneSaved' /\ OneHydration' /\ Owing'
    BY NoneSavedStep, OneHydrationStep, OwingStep DEF ToldInv
  <2> QED
    BY <2>1 DEF ToldInv
<1>3. ToldInv => AnnouncedOnce
  BY DEF ToldInv, Owing, AnnouncedOnce
<1> QED
  BY <1>1, <1>2, <1>3, MatchingInvariance, PTL DEF MatchingSpec
=============================================================================
