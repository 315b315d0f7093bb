------------------------------- MODULE Reveal -------------------------------
(***************************************************************************)
(* Revealing a candidate: the 14-day exclusive lock (src/lib/reveal/       *)
(* lock.ts), the server action behind the Reveal button (projects/[id]/    *)
(* talent/[opaqueId]/actions.ts) and everything that takes away what a     *)
(* reveal reads or wrote: closing a project, the clean-up cron, account    *)
(* deletion and GDPR erasure. Free reveals of applicants come from         *)
(* src/lib/applications/ingest.ts.                                         *)
(*                                                                         *)
(* A database transaction is one step; every other awaited query is a step *)
(* of its own, so that requests, cron runs and webhooks interleave between *)
(* them. A request process is one call of a server action, which keeps in  *)
(* its local variables what it has read.                                   *)
(***************************************************************************)
EXTENDS Credits

CONSTANTS
  Projects, Tenants, Talents,
  Requests,      \* slots of concurrent calls of revealAction
  Ingesters,     \* slots of concurrent runs of ingestApplicationsForProject
  Cleaners,      \* slots of concurrent runs of the clean-up cron
  BillingStates, \* values of User.subscriptionStatus
  Owner,         \* Project.userId
  Org,           \* the primary organization of each user
  TTL,           \* REVEAL_TTL_MS
  FreeTTL,       \* APPLICATION_REVEAL_TTL_MS
  MatchTTL,      \* MATCH_TTL_MS
  Grace,         \* REVEAL_LOCK_GRACE_DAYS
  MaxTime,       \* bound of the model on the clock
  MaxReveals,    \* bound of the model on the Reveal rows ever created
  NoLock, NoReveal, \* no row
  Idle           \* no process in the slot

Profiles == Tenants \X Talents     \* a talent of a pool
MatchKeys == Projects \X Profiles
RevealIds == 1..MaxReveals
NoId == 0
NoMatch == 0
Times == 0..(MaxTime + TTL + FreeTTL + MatchTTL)

ASSUME RevealAssumption ==
  /\ Owner \in [Projects -> Users]
  /\ TTL \in Nat \ {0} /\ FreeTTL \in Nat \ {0} /\ MatchTTL \in Nat \ {0}
  /\ Grace \in Nat /\ MaxTime \in Nat /\ MaxReveals \in Nat

RevealRow == [project: Projects, user: Users, profile: Profiles,
              expiresAt: Times, paid: BOOLEAN]
LockRow == [user: Users, revealId: RevealIds \cup {NoId}, expiresAt: Times]

\* The local variables of a running server action or cron job; at is the
\* query it awaits next.
RequestState == [at: {"gate", "lock", "shared", "acquire"}, user: Users,
                 project: Projects, profile: Profiles, lockedByOther: BOOLEAN]
IngestState == [at: {"match", "find", "create", "entry"},
                project: Projects, profile: Profiles]
CleanupState == [todo: SUBSET {"matches", "locks"}, now: 0..MaxTime,
                 protected: SUBSET MatchKeys]

ASSUME RowAssumption ==
  /\ NoLock \notin LockRow \cup Users
  /\ NoReveal \notin RevealRow
  /\ Idle \notin RequestState \cup IngestState \cup CleanupState

VARIABLES
  now,
  status,             \* Project.status: CLOSED or not, or the row is deleted
  subscriptionStatus, \* User.subscriptionStatus
  matches,            \* Match.expiresAt
  shortlisted,        \* the matches with a ShortlistEntry
  candidates,         \* the profiles with a Candidate row
  reveals,            \* Reveal rows by id
  nextReveal,         \* the next Reveal id
  revealLocks,        \* RevealLock rows, unique per (tenant, talent)
  request,            \* the running calls of revealAction
  ingest,             \* the running ingests, one applicant each
  cleanup,            \* the running clean-up crons
  ended               \* history: reveals whose lock closeProject expired

rowVars == <<matches, shortlisted, candidates, reveals, nextReveal, revealLocks>>
tableVars == <<now, status, subscriptionStatus, rowVars, ended>>
processVars == <<request, ingest, cleanup>>
vars == <<creditVars, tableVars, processVars>>

RevealTypeOK ==
  /\ CreditTypeOK
  /\ now \in 0..MaxTime
  /\ status \in [Projects -> {"OPEN", "CLOSED", "deleted"}]
  /\ subscriptionStatus \in [Users -> BillingStates]
  /\ matches \in [MatchKeys -> Times]
  /\ shortlisted \subseteq MatchKeys
  /\ candidates \subseteq Profiles
  /\ reveals \in [RevealIds -> RevealRow \cup {NoReveal}]
  /\ nextReveal \in 1..(MaxReveals + 1)
  /\ revealLocks \in [Profiles -> LockRow \cup {NoLock}]
  /\ request \in [Requests -> RequestState \cup {Idle}]
  /\ ingest \in [Ingesters -> IngestState \cup {Idle}]
  /\ cleanup \in [Cleaners -> CleanupState \cup {Idle}]
  /\ ended \subseteq RevealIds

RevealInit ==
  /\ CreditInit
  /\ now = 0
  /\ status = [p \in Projects |-> "OPEN"]
  /\ subscriptionStatus \in [Users -> BillingStates]
  /\ matches = [m \in MatchKeys |-> MatchTTL]
  /\ shortlisted = {}
  /\ candidates = Profiles
  /\ reveals = [i \in RevealIds |-> NoReveal]
  /\ nextReveal = 1
  /\ revealLocks = [f \in Profiles |-> NoLock]
  /\ request = [q \in Requests |-> Idle]
  /\ ingest = [i \in Ingesters |-> Idle]
  /\ cleanup = [c \in Cleaners |-> Idle]
  /\ ended = {}

-----------------------------------------------------------------------------
(* Reading the tables.                                                     *)

Exists(i) == i \in RevealIds /\ reveals[i] # NoReveal
Live(i) == Exists(i) /\ reveals[i].expiresAt > now

\* findActiveLock: the row, as long as it has not expired.
ActiveLock(f) == revealLocks[f] # NoLock /\ revealLocks[f].expiresAt > now

HeldBy(f, u) == ActiveLock(f) /\ revealLocks[f].user = u

\* The locks linked to a reveal of one of the given ids.
LinkedTo(f, ids) == revealLocks[f] # NoLock /\ revealLocks[f].revealId \in ids

CanAccess(u, p) ==
  /\ u \in users
  /\ status[p] # "deleted"
  /\ Owner[p] = u \/ Org[Owner[p]] = Org[u]

\* The non-expired reveals of this person on this project, of any pool.
SharedReveals(p, f) ==
  {i \in RevealIds : /\ Live(i)
                     /\ reveals[i].project = p
                     /\ reveals[i].profile[2] = f[2]}

-----------------------------------------------------------------------------
(* revealAction: the request reads the match, the billing flag, the lock   *)
(* and the shared reveals one after another, fetches the profile from      *)
(* 8vance, and only then runs the acquire transaction.                     *)

Start(q, u, p, f) ==
  /\ request[q] = Idle
  /\ matches[<<p, f>>] # NoMatch
  /\ CanAccess(u, p)
  /\ request' = [request EXCEPT ![q] =
       [at |-> "gate", user |-> u, project |-> p, profile |-> f, lockedByOther |-> FALSE]]
  /\ UNCHANGED <<creditVars, tableVars, ingest, cleanup>>

Awaits(q, query) == request[q] # Idle /\ request[q].at = query

\* The action returns its result; nothing of the request is left.
Answer(q) ==
  /\ request' = [request EXCEPT ![q] = Idle]
  /\ UNCHANGED <<ingest, cleanup>>

Proceed(q, query) ==
  /\ request' = [request EXCEPT ![q].at = query]
  /\ UNCHANGED <<ingest, cleanup>>

\* Result past_due, or on to the lock.
CheckBilling(q) ==
  LET u == request[q].user
      pastDue == u \in users /\ subscriptionStatus[u] = "past_due"
  IN  /\ Awaits(q, "gate")
      /\ IF pastDue THEN Answer(q) ELSE Proceed(q, "lock")
      /\ UNCHANGED <<creditVars, tableVars>>

\* Result alreadyOwned, or remember whether somebody else holds the lock.
CheckLock(q) ==
  LET f == request[q].profile
      u == request[q].user
  IN  /\ Awaits(q, "lock")
      /\ IF HeldBy(f, u) /\ revealLocks[f].revealId # NoId
         THEN Answer(q)
         ELSE /\ request' = [request EXCEPT
                   ![q].lockedByOther = ActiveLock(f) /\ ~ HeldBy(f, u),
                   ![q].at = "shared"]
              /\ UNCHANGED <<ingest, cleanup>>
      /\ UNCHANGED <<creditVars, tableVars>>

\* A colleague's reveal on this project is reused for free (alreadyShared);
\* otherwise the lock read one query earlier decides.
FindShared(q) ==
  /\ Awaits(q, "shared")
  /\ IF \/ SharedReveals(request[q].project, request[q].profile) # {}
        \/ request[q].lockedByOther
     THEN Answer(q) ELSE Proceed(q, "acquire")
  /\ UNCHANGED <<creditVars, tableVars>>

\* getProfile rejects: revealAction throws before its try block.
FetchFails(q) ==
  /\ Awaits(q, "acquire")
  /\ Answer(q)
  /\ UNCHANGED <<creditVars, tableVars>>

\* The user's own active lock, whose reveal still exists.
OwnsReveal(u, f) == HeldBy(f, u) /\ Exists(revealLocks[f].revealId)

\* As if a row of anybody else were taken over, expired or not.
ClaimableUnchecked(u, f) == ~ OwnsReveal(u, f)

\* No row, an expired row, or the user's own row without a reveal.
Claimable(u, f) == ~ ActiveLock(f) \/ (HeldBy(f, u) /\ ~ OwnsReveal(u, f))

\* acquireReveal gives up (LockExistsError), returns the reveal the user paid
\* for before, or rolls back because the spend or the insert fails.
AcquireNothing(q) ==
  LET u == request[q].user
      f == request[q].profile
  IN  /\ Awaits(q, "acquire")
      /\ \/ ~ Claimable(u, f)
         \/ ~ CanSpend(u)
         \/ status[request[q].project] = "deleted"
      /\ Answer(q)
      /\ UNCHANGED <<creditVars, tableVars>>

\* As if the lock were never linked to the reveal.
UnlinkedLock(u, i) == [user |-> u, revealId |-> NoId, expiresAt |-> now + TTL]

\* The lock row, linked to the reveal it protects.
NewLock(u, i) == [user |-> u, revealId |-> i, expiresAt |-> now + TTL]

\* Lock, credit and reveal in one transaction.
AcquireReveal(q) ==
  LET u == request[q].user
      f == request[q].profile
      i == nextReveal
  IN  /\ Awaits(q, "acquire")
      /\ Claimable(u, f)
      /\ status[request[q].project] # "deleted"
      /\ i \in RevealIds
      /\ SpendCreditOn(u)
      /\ reveals' = [reveals EXCEPT ![i] =
           [project |-> request[q].project, user |-> u, profile |-> f,
            expiresAt |-> now + TTL, paid |-> TRUE]]
      /\ nextReveal' = i + 1
      /\ revealLocks' = [revealLocks EXCEPT ![f] = NewLock(u, i)]
      /\ Answer(q)
      /\ UNCHANGED <<now, status, subscriptionStatus, matches, shortlisted,
                     candidates, ended>>

RequestStep(q) ==
  \/ CheckBilling(q) \/ CheckLock(q) \/ FindShared(q)
  \/ FetchFails(q) \/ AcquireNothing(q) \/ AcquireReveal(q)

-----------------------------------------------------------------------------
(* ingestApplicant: an applicant's Match, a free reveal without a lock, an *)
(* Inflow entry; each written by a query of its own.                       *)

IngestStart(i, p, f) ==
  /\ ingest[i] = Idle
  /\ status[p] = "OPEN"
  /\ ingest' = [ingest EXCEPT ![i] = [at |-> "match", project |-> p, profile |-> f]]
  /\ UNCHANGED <<creditVars, tableVars, request, cleanup>>

IngestAwaits(i, query) == ingest[i] # Idle /\ ingest[i].at = query

IngestKey(i) == <<ingest[i].project, ingest[i].profile>>

IngestFrame ==
  UNCHANGED <<creditVars, now, status, subscriptionStatus, candidates, revealLocks,
              ended, request, cleanup>>

IngestMatch(i) ==
  /\ IngestAwaits(i, "match")
  /\ status[ingest[i].project] # "deleted"
  /\ matches' = [matches EXCEPT ![IngestKey(i)] =
                   IF @ = NoMatch THEN now + MatchTTL ELSE @]
  /\ ingest' = [ingest EXCEPT ![i].at = "find"]
  /\ UNCHANGED <<shortlisted, reveals, nextReveal>>
  /\ IngestFrame

\* Any application reveal counts, an expired one too.
HasApplicationReveal(p, f) ==
  \E r \in RevealIds : /\ Exists(r) /\ ~ reveals[r].paid
                       /\ reveals[r].project = p /\ reveals[r].profile = f

IngestFind(i) ==
  /\ IngestAwaits(i, "find")
  /\ ingest' = [ingest EXCEPT ![i].at =
       IF HasApplicationReveal(ingest[i].project, ingest[i].profile)
       THEN "entry" ELSE "create"]
  /\ UNCHANGED <<matches, shortlisted, reveals, nextReveal>>
  /\ IngestFrame

\* creditCost 0, source application, in the name of the project's owner.
FreeReveal(p, f) ==
  [project |-> p, user |-> Owner[p], profile |-> f, expiresAt |-> now + FreeTTL,
   paid |-> FALSE]

IngestReveal(i) ==
  LET p == ingest[i].project
  IN  /\ IngestAwaits(i, "create")
      /\ status[p] # "deleted"
      /\ nextReveal \in RevealIds
      /\ reveals' = [reveals EXCEPT ![nextReveal] = FreeReveal(p, ingest[i].profile)]
      /\ nextReveal' = nextReveal + 1
      /\ ingest' = [ingest EXCEPT ![i].at = "entry"]
      /\ UNCHANGED <<matches, shortlisted>>
      /\ IngestFrame

IngestEntry(i) ==
  /\ IngestAwaits(i, "entry")
  /\ matches[IngestKey(i)] # NoMatch
  /\ shortlisted' = shortlisted \cup {IngestKey(i)}
  /\ ingest' = [ingest EXCEPT ![i] = Idle]
  /\ UNCHANGED <<matches, reveals, nextReveal>>
  /\ IngestFrame

\* A query fails (the project is gone, 8vance is down): the loop moves on.
IngestFails(i) ==
  /\ ingest[i] # Idle
  /\ ingest' = [ingest EXCEPT ![i] = Idle]
  /\ UNCHANGED <<matches, shortlisted, reveals, nextReveal>>
  /\ IngestFrame

IngestStep(i) ==
  \/ IngestMatch(i) \/ IngestFind(i) \/ IngestReveal(i)
  \/ IngestEntry(i) \/ IngestFails(i)

-----------------------------------------------------------------------------
(* What takes reveals, locks and matches away.                             *)

\* A deleted Reveal row leaves its locks behind with revealId null.
Unlink(lock, gone) ==
  IF lock # NoLock /\ lock.revealId \in gone
  THEN [lock EXCEPT !.revealId = NoId] ELSE lock

RevealsOn(p) == {i \in RevealIds : Exists(i) /\ reveals[i].project = p}

CloseProject(u, p) ==
  /\ CanAccess(u, p)
  /\ status' = [status EXCEPT ![p] = "CLOSED"]
  /\ revealLocks' = [f \in Profiles |->
       IF LinkedTo(f, RevealsOn(p)) THEN [revealLocks[f] EXCEPT !.expiresAt = now]
       ELSE revealLocks[f]]
  /\ ended' = ended \cup {i \in RevealsOn(p) : \E f \in Profiles : LinkedTo(f, {i})}
  /\ UNCHANGED <<creditVars, now, subscriptionStatus, matches, shortlisted,
                 candidates, reveals, nextReveal, processVars>>

\* No look at the old status; the reveals are left as they are.
ReopenProject(u, p) ==
  /\ CanAccess(u, p)
  /\ status' = [status EXCEPT ![p] = "OPEN"]
  /\ UNCHANGED <<creditVars, now, subscriptionStatus, rowVars, ended,
                 processVars>>

\* As if the foreign key did it: RevealLock.userId has none, so the locks stay.
LocksLeftBehind(u, gone) == [f \in Profiles |-> Unlink(revealLocks[f], gone)]

\* The user's locks are deleted by hand, the other links set null by cascade.
LocksWithout(u, gone) ==
  [f \in Profiles |-> IF revealLocks[f] # NoLock /\ revealLocks[f].user = u THEN NoLock
                      ELSE Unlink(revealLocks[f], gone)]

DeleteAccount(u) ==
  LET owned == {p \in Projects : Owner[p] = u}
      gone == {i \in RevealIds : Exists(i) /\ (\/ reveals[i].user = u
                                               \/ reveals[i].project \in owned)}
  IN  /\ u \in users
      /\ DropAccount(u)
      /\ revealLocks' = LocksWithout(u, gone)
      /\ reveals' = [i \in RevealIds |-> IF i \in gone THEN NoReveal ELSE reveals[i]]
      /\ status' = [p \in Projects |-> IF p \in owned THEN "deleted" ELSE status[p]]
      /\ matches' = [m \in MatchKeys |-> IF m[1] \in owned THEN NoMatch ELSE matches[m]]
      /\ shortlisted' = {m \in shortlisted : m[1] \notin owned}
      /\ UNCHANGED <<now, subscriptionStatus, candidates, nextReveal, ended,
                     processVars>>

\* GDPR erasure reaches the projects of the caller's organization only.
EraseCandidate(u, f) ==
  LET scope == {p \in Projects : CanAccess(u, p)}
      gone == {i \in RevealIds : /\ Exists(i) /\ reveals[i].profile = f
                                 /\ reveals[i].project \in scope}
  IN  /\ u \in users
      /\ f \in candidates
      /\ candidates' = candidates \ {f}
      /\ shortlisted' = shortlisted \ (scope \X {f})
      /\ matches' = [m \in MatchKeys |-> IF m \in scope \X {f} THEN NoMatch ELSE matches[m]]
      /\ reveals' = [i \in RevealIds |-> IF i \in gone THEN NoReveal ELSE reveals[i]]
      /\ revealLocks' = [g \in Profiles |-> Unlink(revealLocks[g], gone)]
      /\ UNCHANGED <<creditVars, now, status, subscriptionStatus, nextReveal, ended,
                     processVars>>

\* The cron reads which matches back a live reveal and deletes afterwards,
\* matches and locks concurrently, with the time it has read at the start.
CleanupRead(c) ==
  /\ cleanup[c] = Idle
  /\ cleanup' = [cleanup EXCEPT ![c] =
       [todo |-> {"matches", "locks"}, now |-> now,
        protected |-> {<<reveals[i].project, reveals[i].profile>> :
                         i \in {j \in RevealIds : Live(j)}}]]
  /\ UNCHANGED <<creditVars, tableVars, request, ingest>>

CleanupDone(c, query) ==
  LET left == cleanup[c].todo \ {query}
  IN  /\ cleanup[c] # Idle
      /\ query \in cleanup[c].todo
      /\ cleanup' = [cleanup EXCEPT ![c] =
           IF left = {} THEN Idle ELSE [cleanup[c] EXCEPT !.todo = left]]
      /\ UNCHANGED <<creditVars, now, status, subscriptionStatus, shortlisted, candidates,
                     reveals, nextReveal, ended, request, ingest>>

CleanupMatches(c) ==
  /\ CleanupDone(c, "matches")
  /\ matches' = [m \in MatchKeys |->
       IF /\ matches[m] < cleanup[c].now
          /\ m \notin shortlisted \cup cleanup[c].protected
       THEN NoMatch ELSE matches[m]]
  /\ UNCHANGED revealLocks

\* As if locks without a reveal were taken for orphans.
CleanupOrphanLocks(c) ==
  /\ CleanupDone(c, "locks")
  /\ revealLocks' = [f \in Profiles |->
       IF LinkedTo(f, {NoId}) \/ ~ ActiveLock(f) THEN NoLock ELSE revealLocks[f]]
  /\ UNCHANGED matches

CleanupLocks(c) ==
  /\ CleanupDone(c, "locks")
  /\ revealLocks' = [f \in Profiles |->
       IF revealLocks[f] # NoLock /\ revealLocks[f].expiresAt < cleanup[c].now - Grace
       THEN NoLock ELSE revealLocks[f]]
  /\ UNCHANGED matches

CleanupStep(c) == CleanupRead(c) \/ CleanupMatches(c) \/ CleanupLocks(c)

-----------------------------------------------------------------------------
(* What the rest of the program does to the rows a reveal depends on.      *)

\* A webhook mirrors the billing state (module StripeWebhook).
BillingChanges(u, s) ==
  /\ u \in users
  /\ subscriptionStatus' = [subscriptionStatus EXCEPT ![u] = s]
  /\ UNCHANGED <<creditVars, now, status, rowVars, ended, processVars>>

\* Hydration inserts a match again that is no longer there.
MatchFound(p, f) ==
  /\ status[p] # "deleted"
  /\ matches[<<p, f>>] = NoMatch
  /\ matches' = [matches EXCEPT ![<<p, f>>] = now + MatchTTL]
  /\ UNCHANGED <<creditVars, now, status, subscriptionStatus, shortlisted, candidates,
                 reveals, nextReveal, revealLocks, ended, processVars>>

Tick ==
  /\ now < MaxTime
  /\ now' = now + 1
  /\ UNCHANGED <<creditVars, status, subscriptionStatus, rowVars, ended, processVars>>

-----------------------------------------------------------------------------
RevealNext ==
  \/ \E q \in Requests :
       \/ \E u \in users, p \in Projects, f \in Profiles : Start(q, u, p, f)
       \/ RequestStep(q)
  \/ \E i \in Ingesters :
       \/ \E p \in Projects, f \in Profiles : IngestStart(i, p, f)
       \/ IngestStep(i)
  \/ \E u \in users :
       \/ \E p \in Projects : CloseProject(u, p) \/ ReopenProject(u, p)
       \/ \E f \in Profiles : EraseCandidate(u, f)
       \/ \E s \in BillingStates : BillingChanges(u, s)
       \/ DeleteAccount(u)
  \/ \E p \in Projects, f \in Profiles : MatchFound(p, f)
  \/ \E c \in Cleaners : CleanupStep(c)
  \/ Tick

RevealSpec == RevealInit /\ [][RevealNext]_vars

-----------------------------------------------------------------------------
(* Safety.                                                                 *)

\* A paid reveal is in force until it expires or its project is closed.
InForce(i) == Live(i) /\ reveals[i].paid /\ i \notin ended

\* A candidate of a pool is sold once at a time: two paid reveals in force of
\* the same talent and pool are one reveal. So no two recruiters own the
\* talent together (lock.ts:4-7), and no interleaving of double clicks,
\* takeovers, cascades and clean-ups charges a recruiter a second credit
\* while the first reveal is in force (lock.ts:9-10).
SoldOnce ==
  \A i, j \in RevealIds :
    InForce(i) /\ InForce(j) /\ reveals[i].profile = reveals[j].profile => i = j

\* What a customer paid for stays reachable: a reveal in force is the one its
\* lock points to, for its buyer, until exactly the same moment. The talent
\* page and outreach find a reveal only through the lock (page.tsx:94-98,
\* actions.ts:317-331).
RevealHoldsLock ==
  \A i \in RevealIds : InForce(i) =>
    revealLocks[reveals[i].profile] =
      [user |-> reveals[i].user, revealId |-> i, expiresAt |-> reveals[i].expiresAt]

\* A lock never shows its holder somebody else's candidate: the reveal it
\* points to was bought by the holder, for that talent of that pool
\* (actions.ts:97-99 and 328-331 return it without looking at its owner).
LockLinksOwnReveal ==
  \A f \in Profiles : LinkedTo(f, RevealIds) =>
    LET i == revealLocks[f].revealId
    IN  /\ Exists(i) /\ reveals[i].paid
        /\ reveals[i].user = revealLocks[f].user
        /\ reveals[i].profile = f

\* A deleted recruiter strands no lock that would block the others, not even
\* when a request of theirs is still running (delete-account/actions.ts:115-120).
NoStrandedLock ==
  \A f \in Profiles : revealLocks[f] # NoLock => revealLocks[f].user \in users

(* Steps.                                                                  *)

\* An active lock changes hands only through its holder's own account
\* deletion or the closing of the project its reveal belongs to: no request,
\* no clean-up and no erasure takes it away (lock.ts:118-148, route.ts:101-103).
LockIsKept ==
  [][\A f \in Profiles : ActiveLock(f) =>
       LET l == revealLocks[f]
       IN  \/ l.user \notin users'
           \/ revealLocks'[f] # NoLock /\ revealLocks'[f].user = l.user
              /\ \/ revealLocks'[f].expiresAt >= l.expiresAt
                 \/ l.revealId \in ended']_vars

(* Refinement: the lock rows implement exclusive access. No lock passes     *)
(* from one recruiter to another in one step: it expires or is released    *)
(* first, whatever request, cron or deletion is running.                   *)
Holder == [f \in Profiles |-> IF ActiveLock(f) THEN revealLocks[f].user ELSE NoLock]
Exclusive == INSTANCE ExclusiveAccess WITH Nobody <- NoLock, holder <- Holder
ImplementsExclusiveAccess == Exclusive!Spec

-----------------------------------------------------------------------------
(* What comments of the code say and the code does not do.                 *)

\* The talent page: the viewer's own lock first, the latest shared reveal of
\* the project otherwise.
PageReveals(u, p, f) ==
  IF status[p] = "CLOSED" THEN {}
  ELSE IF OwnsReveal(u, f) THEN {revealLocks[f].revealId}
  ELSE {i \in SharedReveals(p, f) : \A j \in SharedReveals(p, f) : j <= i}

\* "the ended reveals stay ended (re-reveal costs a new credit)",
\* projects/[id]/actions.ts:91-93 and 128-132: after a reopen nobody is shown
\* a reveal that closing the project has ended.
EndedStaysEnded ==
  \A u \in users, p \in Projects, f \in Profiles :
    CanAccess(u, p) => PageReveals(u, p, f) \cap ended = {}

\* "closing also ENDS the project's reveals so the revealed talents are
\* released back to the pool", actions.ts:87-89: a closed project holds no lock.
ClosedHoldsNoLock ==
  \A p \in Projects, f \in Profiles :
    status[p] = "CLOSED" => ~ (ActiveLock(f) /\ LinkedTo(f, RevealsOn(p)))

\* "we must not drop the Match that backs a live reveal", cleanup/route.ts:53-61.
CleanupKeepsLiveMatches ==
  [][\A i \in RevealIds :
       LET m == <<reveals[i].project, reveals[i].profile>>
       IN  Live(i) /\ cleanup' # cleanup /\ matches[m] # NoMatch => matches'[m] # NoMatch]_vars
=============================================================================
