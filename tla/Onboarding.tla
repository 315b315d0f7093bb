------------------------------ MODULE Onboarding ------------------------------
(* How one candidate row gets its talent in the 8vance pool: the self-onboard  *)
(* link, the sync that claims the row and creates the talent, and the visits   *)
(* of the match page that repair a dead link and retry a missed sync.          *)
(*                                                                             *)
(* syncCandidateToVance coalesces its callers within one server process, so a  *)
(* process runs at most one sync of the row; across processes the claim column *)
(* syncStartedAt keeps them apart until it is three minutes old. Talents are   *)
(* numbered in the order in which 8vance creates them, links in the order in   *)
(* which they are minted.                                                      *)
EXTENDS Naturals, FiniteSets, FiniteSetTheorems, TLAPS

CONSTANTS Procs,        \* server processes
          Visits,       \* match page visits in flight at once
          Submits,      \* portal requests in flight at once
          Origins,      \* how the row came to be, see OnboardingInit
          MaxTalents,   \* talents 8vance creates for this candidate
          MaxLinks,     \* portal links minted
          MaxPrunes,    \* talents deleted at 8vance
          MaxFaults     \* crashes, refusals, lost answers and failed reads

VARIABLES row,          \* the Candidate row
          pool,         \* talent -> "absent", "live" or "gone" at 8vance
          sync,         \* process -> its sync in flight
          visit,        \* visit -> the after() work of the match page
          submit,       \* portal request -> the link it came with
          uses,         \* link -> times it was used up, replaced or expired
          slips,        \* history: what has happened that the claim cannot help
          faults

vars == <<row, pool, sync, visit, submit, uses, slips, faults>>

Talents == 1..MaxTalents
Links == 1..MaxLinks
None == 0

Idle == [pc |-> "idle", talent |-> None]
NoRequest == [pc |-> "idle", link |-> None]

\* A draft waits behind its link; a recruiter's own row has consent and skills;
\* an imported row mirrors a talent; a legacy row was synced without consent.
Row(origin) ==
    LET linked == origin \in {"imported", "legacy"}
    IN  [exists |-> TRUE,
         consent |-> origin = "created",
         skills |-> origin \in {"created", "legacy"},
         status |-> IF linked THEN "READY" ELSE IF origin = "draft" THEN "DRAFT" ELSE "ONBOARDING",
         talent |-> IF linked THEN 1 ELSE None,
         claim |-> "none",
         link |-> IF origin = "draft" THEN 1 ELSE None]

OnboardingInit ==
    /\ row \in {Row(origin) : origin \in Origins}
    /\ pool = [t \in Talents |-> IF t = row.talent THEN "live" ELSE "absent"]
    /\ sync = [p \in Procs |-> Idle]
    /\ visit = [v \in Visits |-> Idle]
    /\ submit = [s \in Submits |-> NoRequest]
    /\ uses = [l \in Links |-> 0]
    /\ slips = {}
    /\ faults = 0

Fault == faults < MaxFaults /\ faults' = faults + 1

Minted == {l \in Links : l = row.link \/ uses[l] > 0}

\* Every way in which a link ends is counted.
Ended(l) == uses' = IF l = None THEN uses ELSE [uses EXCEPT ![l] = @ + 1]

\* A sync past its claim.
Working(p) == sync[p].pc \in {"prepare", "create", "release", "attach"}

\* The events that may leave a second talent are remembered: a create whose answer was
\* "lost", a process "cut" off before it stored the talent, a claim that was "outlived"
\* by its sync, a link or a claim that a visit "unlinked" for an earlier talent's sake.
Slip(happens, kind) == slips' = IF happens THEN slips \union {kind} ELSE slips

-----------------------------------------------------------------------------
(* The sync. *)

\* A call of syncCandidateToVance in a process: it joins the sync in flight.
Coalesced(p) ==
    sync' = [sync EXCEPT ![p] = IF @.pc = "idle" THEN [Idle EXCEPT !.pc = "read"] ELSE @]

Syncable(r) == r.exists /\ r.talent = None /\ r.consent /\ r.skills

SyncRead(p) ==
    /\ sync[p].pc = "read"
    /\ sync' = [sync EXCEPT ![p].pc = IF Syncable(row) THEN "claim" ELSE "idle"]
    /\ UNCHANGED <<row, pool, visit, submit, uses, slips, faults>>

ClaimableAlways(r) == r.exists /\ r.talent = None
ClaimableOnce(r) == r.exists /\ r.talent = None /\ r.claim = "none"
Claimable(r) == r.exists /\ r.talent = None /\ r.claim # "fresh"

\* The guarded updateMany on syncStartedAt; who loses it leaves without a talent.
Claim(p) ==
    /\ sync[p].pc = "claim"
    /\ IF Claimable(row)
       THEN /\ row' = [row EXCEPT !.claim = "fresh"]
            /\ sync' = [sync EXCEPT ![p].pc = "prepare"]
       ELSE /\ sync' = [sync EXCEPT ![p].pc = "idle"]
            /\ UNCHANGED row
    /\ UNCHANGED <<pool, visit, submit, uses, slips, faults>>

\* Building the client and reading the tenant: a failure leaves the claim behind.
Prepare(p) ==
    /\ sync[p].pc = "prepare"
    /\ \/ /\ sync' = [sync EXCEPT ![p].pc = "create"]
          /\ UNCHANGED faults
       \/ /\ Fault
          /\ sync' = [sync EXCEPT ![p] = Idle]
    /\ UNCHANGED <<row, pool, visit, submit, uses, slips>>

Fresh(t) == pool[t] = "absent" /\ \A u \in Talents : u < t => pool[u] # "absent"

Created(p) ==
    /\ sync[p].pc = "create"
    /\ \E t \in Talents :
         /\ Fresh(t)
         /\ pool' = [pool EXCEPT ![t] = "live"]
         /\ sync' = [sync EXCEPT ![p] = [pc |-> "attach", talent |-> t]]
    /\ UNCHANGED <<row, visit, submit, uses, slips, faults>>

\* The POST lands and its answer is lost: the client sends it again.
AnswerLost(p) ==
    /\ sync[p].pc = "create"
    /\ Fault
    /\ \E t \in Talents : Fresh(t) /\ pool' = [pool EXCEPT ![t] = "live"]
    /\ Slip(TRUE, "lost")
    /\ UNCHANGED <<row, sync, visit, submit, uses>>

\* 8vance refuses the talent, or the client has run out of retries.
CreateFails(p) ==
    /\ sync[p].pc = "create"
    /\ Fault
    /\ sync' = [sync EXCEPT ![p].pc = "release"]
    /\ UNCHANGED <<row, pool, visit, submit, uses, slips>>

Release(p) ==
    /\ sync[p].pc = "release"
    /\ row' = IF row.exists THEN [row EXCEPT !.claim = "none"] ELSE row
    /\ sync' = [sync EXCEPT ![p] = Idle]
    /\ UNCHANGED <<pool, visit, submit, uses, slips, faults>>

\* After the CV upload, which may fail, the row gets its talent.
Commit(p) ==
    /\ sync[p].pc = "attach"
    /\ row' = IF row.exists
              THEN [row EXCEPT !.talent = sync[p].talent, !.status = "READY"]
              ELSE row
    /\ sync' = [sync EXCEPT ![p] = Idle]
    /\ UNCHANGED <<pool, visit, submit, uses, slips, faults>>

\* The recruiter asks for a new match of a row that has no talent yet.
Rematch(p) ==
    /\ row.exists /\ row.talent = None
    /\ Coalesced(p)
    /\ UNCHANGED <<row, pool, visit, submit, uses, slips, faults>>

SyncStep(p) ==
    \/ SyncRead(p) \/ Claim(p) \/ Prepare(p) \/ Created(p) \/ AnswerLost(p)
    \/ CreateFails(p) \/ Release(p) \/ Commit(p)

-----------------------------------------------------------------------------
(* A visit of the match page. *)

Resyncable(r) == r.exists /\ r.talent = None /\ r.consent /\ r.skills

Visit(v) ==
    /\ visit[v].pc = "idle" /\ row.exists
    /\ \/ row.talent # None /\ visit' = [visit EXCEPT ![v].pc = "reconcile"]
       \/ Resyncable(row) /\ visit' = [visit EXCEPT ![v].pc = "resync"]
    /\ UNCHANGED <<row, pool, sync, submit, uses, slips, faults>>

ReadLink(v) ==
    /\ visit[v].pc = "reconcile"
    /\ visit' = [visit EXCEPT ![v] =
                   IF row.exists /\ row.talent # None
                   THEN [pc |-> "profile", talent |-> row.talent]
                   ELSE [Idle EXCEPT !.pc = "resync"]]
    /\ UNCHANGED <<row, pool, sync, submit, uses, slips, faults>>

\* Only a 404 unlinks; any other failure keeps the talent.
ReadProfile(v) ==
    /\ visit[v].pc = "profile"
    /\ \/ /\ visit' = [visit EXCEPT ![v].pc =
                         IF pool[visit[v].talent] = "gone" THEN "unlink" ELSE "resync"]
          /\ UNCHANGED faults
       \/ /\ Fault
          /\ visit' = [visit EXCEPT ![v].pc = "resync"]
    /\ UNCHANGED <<row, pool, sync, submit, uses, slips>>

Unlinked(r) == [r EXCEPT !.talent = None, !.status = "ONBOARDING", !.claim = "none"]

Unlink(v) ==
    /\ visit[v].pc = "unlink"
    /\ row' = IF row.exists THEN Unlinked(row) ELSE row
    /\ visit' = [visit EXCEPT ![v].pc = "resync"]
    /\ Slip(\/ row.talent # None /\ pool[row.talent] = "live"
            \/ \E p \in Procs : Working(p), "unlinked")
    /\ UNCHANGED <<pool, sync, submit, uses, faults>>

\* autoResyncIfEligible, in whichever process serves the page.
Resync(v) ==
    /\ visit[v].pc = "resync"
    /\ visit' = [visit EXCEPT ![v] = Idle]
    /\ IF Resyncable(row) THEN \E p \in Procs : Coalesced(p) ELSE UNCHANGED sync
    /\ UNCHANGED <<row, pool, submit, uses, slips, faults>>

VisitStep(v) == ReadLink(v) \/ ReadProfile(v) \/ Unlink(v) \/ Resync(v)

-----------------------------------------------------------------------------
(* The self-onboard link. *)

\* createPortalInviteAction: a new link replaces the old one, on any row.
Invite ==
    /\ row.exists
    /\ \E l \in Links \ Minted :
         /\ \A m \in Links : m < l => m \in Minted
         /\ row' = [row EXCEPT !.link = l]
    /\ Ended(row.link)
    /\ UNCHANGED <<pool, sync, visit, submit, slips, faults>>

LinkOpen(r, l) == r.exists /\ r.link = l

\* The first read of a submission: an unknown link or a synced row is refused.
Open(s) ==
    /\ submit[s].pc = "idle"
    /\ \E l \in Links :
         /\ LinkOpen(row, l)
         /\ \/ row.talent = None /\ submit' = [submit EXCEPT ![s] = [pc |-> "claim", link |-> l]]
            \/ submit' = [submit EXCEPT ![s] = [pc |-> "erase", link |-> l]]
    /\ UNCHANGED <<row, pool, sync, visit, uses, slips, faults>>

Accepts(r, l) == LinkOpen(r, l) /\ r.talent = None

\* The guarded updateMany that stores the submission. A CV with too few skills
\* keeps the link; a full submission uses it up and starts the sync.
Submit(s) ==
    /\ submit[s].pc = "claim"
    /\ submit' = [submit EXCEPT ![s] = NoRequest]
    /\ \/ /\ Accepts(row, submit[s].link)
          /\ row' = [row EXCEPT !.consent = TRUE, !.skills = TRUE,
                                !.status = "ONBOARDING", !.link = None]
          /\ Ended(submit[s].link)
          /\ \E p \in Procs : Coalesced(p)
       \/ /\ Accepts(row, submit[s].link)
          /\ row' = [row EXCEPT !.consent = TRUE, !.skills = FALSE, !.status = "DRAFT"]
          /\ UNCHANGED <<uses, sync>>
       \/ /\ ~Accepts(row, submit[s].link)
          /\ UNCHANGED <<row, uses, sync>>
    /\ UNCHANGED <<pool, visit, slips, faults>>

Erased(r) == [r EXCEPT !.exists = FALSE, !.link = None]

\* deletePortalCandidateAction: the guarded deleteMany.
Erase(s) ==
    /\ submit[s].pc = "erase"
    /\ submit' = [submit EXCEPT ![s] = NoRequest]
    /\ IF LinkOpen(row, submit[s].link)
       THEN /\ row' = Erased(row)
            /\ Ended(submit[s].link)
       ELSE UNCHANGED <<row, uses>>
    /\ UNCHANGED <<pool, sync, visit, slips, faults>>

PortalStep(s) == Submit(s) \/ Erase(s)

-----------------------------------------------------------------------------
(* Around them. *)

\* The recruiter's erasure route.
Delete ==
    /\ row.exists
    /\ row' = Erased(row)
    /\ Ended(row.link)
    /\ UNCHANGED <<pool, sync, visit, submit, slips, faults>>

\* Somebody deletes a talent at 8vance.
Prune ==
    /\ Cardinality({t \in Talents : pool[t] = "gone"}) < MaxPrunes
    /\ \E t \in Talents : pool[t] = "live" /\ pool' = [pool EXCEPT ![t] = "gone"]
    /\ UNCHANGED <<row, sync, visit, submit, uses, slips, faults>>

\* Three minutes pass: nothing bounds how long a sync takes.
ClaimAges ==
    /\ row.claim = "fresh"
    /\ row' = [row EXCEPT !.claim = "stale"]
    /\ Slip(\E p \in Procs : Working(p), "outlived")
    /\ UNCHANGED <<pool, sync, visit, submit, uses, faults>>

LinkExpires ==
    /\ row.link # None
    /\ row' = [row EXCEPT !.link = None]
    /\ Ended(row.link)
    /\ UNCHANGED <<pool, sync, visit, submit, slips, faults>>

Crash(p) ==
    /\ sync[p].pc # "idle"
    /\ Fault
    /\ sync' = [sync EXCEPT ![p] = Idle]
    /\ Slip(sync[p].pc = "attach", "cut")
    /\ UNCHANGED <<row, pool, visit, submit, uses>>

OnboardingNext ==
    \/ \E p \in Procs : SyncStep(p) \/ Rematch(p) \/ Crash(p)
    \/ \E v \in Visits : Visit(v) \/ VisitStep(v)
    \/ \E s \in Submits : Open(s) \/ PortalStep(s)
    \/ Invite \/ Delete \/ Prune \/ ClaimAges \/ LinkExpires

OnboardingSpec == OnboardingInit /\ [][OnboardingNext]_vars

\* Calls of a live process go on, claims age, and the page is visited again.
LiveOnboardingSpec ==
    /\ OnboardingSpec
    /\ WF_vars(ClaimAges)
    /\ \A p \in Procs : WF_vars(SyncStep(p))
    /\ \A v \in Visits : WF_vars(Visit(v)) /\ WF_vars(VisitStep(v))

-----------------------------------------------------------------------------
(* Properties.                                                               *)

Live == {t \in Talents : pool[t] = "live"}

\* Types of every variable.
TypeOK ==
    /\ row \in [exists : BOOLEAN, consent : BOOLEAN, skills : BOOLEAN,
                status : {"DRAFT", "ONBOARDING", "READY"}, talent : Talents \union {None},
                claim : {"none", "fresh", "stale"}, link : Links \union {None}]
    /\ pool \in [Talents -> {"absent", "live", "gone"}]
    /\ sync \in [Procs -> [pc : {"idle", "read", "claim", "prepare", "create", "attach",
                                 "release"}, talent : Talents \union {None}]]
    /\ visit \in [Visits -> [pc : {"idle", "reconcile", "profile", "unlink", "resync"},
                             talent : Talents \union {None}]]
    /\ submit \in [Submits -> [pc : {"idle", "claim", "erase"}, link : Links \union {None}]]
    /\ uses \in [Links -> Nat]
    /\ slips \subseteq {"lost", "cut", "outlived", "unlinked"}
    /\ faults \in 0..MaxFaults

\* The pool never holds two live talents of one candidate: submissions, visits
\* and rematches in any number of processes create one between them (the claim of
\* syncCandidateToVanceImpl), and another one only when the first was deleted. What
\* the claim does not prevent, and nothing else gives a second talent: the retry of a
\* create whose answer was lost, a process that dies before it stores its talent, a
\* sync that outlives its claim, and a visit that clears the link to a live talent or
\* the claim of a running sync, because an earlier talent of the row is gone.
OneTalent == slips = {} => Cardinality(Live) <= 1

\* The row is READY exactly while it is linked to a talent, whatever
\* submission, sync and repair of the link overlap.
ReadyWhileLinked == row.exists => (row.status = "READY" <=> row.talent # None)

\* The candidate's own link works once: of the submissions, the erasure and the
\* invitations that race for it one ends it, and nothing uses it afterwards.
LinkEndsOnce ==
    \A l \in Links : uses[l] <= 1 /\ (uses[l] = 1 => row.link # l)

\* A visit that clears the link has found its talent, or an earlier one, gone.
FoundGone(v) == visit[v].pc = "unlink" /\ visit'[v].pc = "resync" /\ pool[visit[v].talent] = "gone"

\* The row never loses the link to a talent that 8vance still has, through a failing
\* read, a late answer, a retry or another sync, but in two ways: a visit that had
\* read an earlier talent of the row finds that one gone (reconcileVanceTalent clears
\* the link by the row's id alone), or a sync commits after it has lost its claim.
UnlinksOnlyDead ==
    row.exists /\ row'.exists /\ row.talent # None /\ row'.talent # row.talent
       => \/ pool[row.talent] = "gone"
          \/ \E v \in Visits : FoundGone(v) /\ visit[v].talent # row.talent
          \/ /\ slips \intersect {"outlived", "unlinked"} # {}
             /\ \E p \in Procs : sync[p].pc = "attach" /\ sync'[p].pc = "idle"
                                  /\ row'.talent = sync[p].talent

\* A talent is created only from a row whose person consented, also when the
\* row was synced before consent was asked and its talent has to be created again.
PushedWithConsent ==
    \A t \in Talents : pool[t] = "absent" /\ pool'[t] = "live" => row.consent

\* A row with consent and skills waits for its talent, and gets it, however many of
\* its syncs failed, crashed or left their claim behind, unless it is erased.
Waits == row.exists /\ row.consent /\ row.skills /\ row.talent = None
-----------------------------------------------------------------------------
(* Proofs.                                                                   *)

OnboardingAssumption ==
    /\ Origins \subseteq {"draft", "created", "imported", "legacy"}
    /\ MaxTalents \in Nat \ {0} /\ MaxLinks \in Nat \ {0} /\ MaxFaults \in Nat

\* A request came with a link, what is about to be attached is a talent, and a
\* sync that went past its first read has seen a row with consent.
RequestsOK ==
    /\ \A s \in Submits : submit[s].pc # "idle" => submit[s].link \in Links
    /\ \A p \in Procs : sync[p].pc = "attach" => sync[p].talent \in Talents
    /\ \A v \in Visits : visit[v].pc \in {"profile", "unlink"} => visit[v].talent \in Talents
Asked == \A p \in Procs : sync[p].pc \in {"claim", "prepare", "create"} => row.consent

OnboardingInv == TypeOK /\ RequestsOK /\ Asked /\ ReadyWhileLinked /\ LinkEndsOnce

\* While no claim is outlived or cleared, a sync works alone, on a row without talent.
Claimed == slips \intersect {"outlived", "unlinked"} = {}
WorksAlone ==
    Claimed => /\ \A p \in Procs : Working(p) => row.talent = None /\ row.claim = "fresh"
               /\ \A p, q \in Procs : Working(p) /\ Working(q) => p = q

\* A visit that is about to unlink has found its talent gone.
FoundIsGone == \A v \in Visits : visit[v].pc = "unlink" => pool[visit[v].talent] = "gone"

\* While the row exists every live talent is its own, or about to be; nothing lives
\* while a sync has not created yet.
OneKnown ==
    /\ \A t, u \in Live : t = u
    /\ (\E p \in Procs : sync[p].pc \in {"prepare", "create", "release"}) => Live = {}
    /\ row.exists => \A t \in Live :
           t = row.talent \/ \E p \in Procs : sync[p].pc = "attach" /\ sync[p].talent = t
TalentKnown == slips = {} => OneKnown

\* The steps by what they write.
RowSteps ==
    \/ \E p \in Procs : Claim(p) \/ Release(p) \/ Commit(p)
    \/ \E v \in Visits : Unlink(v)
    \/ \E s \in Submits : Submit(s) \/ Erase(s)
    \/ Invite \/ Delete \/ ClaimAges \/ LinkExpires
PoolSteps == (\E p \in Procs : Created(p) \/ AnswerLost(p)) \/ Prune

LEMMA RowFrame == [OnboardingNext]_vars => RowSteps \/ UNCHANGED <<row, uses>>
  BY Zenon DEF OnboardingNext, RowSteps, SyncStep, VisitStep, PortalStep, SyncRead, Prepare,
     Created, AnswerLost, CreateFails, Rematch, Crash, Visit, ReadLink, ReadProfile, Resync,
     Open, Prune, vars

LEMMA PoolFrame == [OnboardingNext]_vars => PoolSteps \/ UNCHANGED pool
  BY Zenon DEF OnboardingNext, PoolSteps, SyncStep, VisitStep, PortalStep, SyncRead, Claim,
     Prepare, CreateFails, Release, Commit, Rematch, Crash, Visit, ReadLink, ReadProfile,
     Unlink, Resync, Open, Submit, Erase, Invite, Delete, ClaimAges, LinkExpires, vars

RowShape ==
    [exists : BOOLEAN, consent : BOOLEAN, skills : BOOLEAN,
     status : {"DRAFT", "ONBOARDING", "READY"}, talent : Talents \union {None},
     claim : {"none", "fresh", "stale"}, link : Links \union {None}]

\* The row keeps its type and its status tells whether it is linked.
LEMMA RowStep ==
    OnboardingInv /\ [OnboardingNext]_vars
        => row' \in RowShape /\ ReadyWhileLinked' /\ (row.consent => row'.consent)
<1> SUFFICES ASSUME OnboardingInv, [OnboardingNext]_vars
             PROVE  row' \in RowShape /\ ReadyWhileLinked' /\ (row.consent => row'.consent)
  OBVIOUS
<1> DEFINE Goal == row' \in RowShape /\ ReadyWhileLinked' /\ (row.consent => row'.consent)
<1>1. row \in RowShape /\ ReadyWhileLinked
  BY DEF OnboardingInv, TypeOK, RowShape
<1>2. CASE UNCHANGED row
  BY <1>1, <1>2 DEF ReadyWhileLinked
<1>3. ASSUME NEW p \in Procs, Claim(p) \/ Release(p)
      PROVE  Goal
  BY <1>1, <1>3 DEF Claim, Release, RowShape, ReadyWhileLinked
<1>4. ASSUME NEW p \in Procs, Commit(p)
      PROVE  Goal
  <2>1. sync[p].talent \in Talents /\ sync[p].talent # None
    BY <1>4 DEF Commit, OnboardingInv, RequestsOK, Talents, None
  <2> QED
    BY <1>1, <1>4, <2>1 DEF Commit, RowShape, ReadyWhileLinked
<1>5. ASSUME NEW v \in Visits, Unlink(v)
      PROVE  Goal
  BY <1>1, <1>5 DEF Unlink, Unlinked, RowShape, ReadyWhileLinked
<1>6. ASSUME NEW s \in Submits, Submit(s) \/ Erase(s)
      PROVE  Goal
  BY <1>1, <1>6 DEF Submit, Erase, Accepts, Erased, RowShape, ReadyWhileLinked
<1>7. CASE Invite
  BY <1>1, <1>7 DEF Invite, RowShape, ReadyWhileLinked
<1>8. CASE Delete \/ ClaimAges \/ LinkExpires
  BY <1>1, <1>8 DEF Delete, ClaimAges, LinkExpires, Erased, RowShape, ReadyWhileLinked
<1> QED
  BY <1>2, <1>3, <1>4, <1>5, <1>6, <1>7, <1>8, RowFrame DEF RowSteps

\* A link that ended is not the row's any more, and ends once.
LEMMA LinkStep ==
    OnboardingInv /\ [OnboardingNext]_vars => uses' \in [Links -> Nat] /\ LinkEndsOnce'
<1> SUFFICES ASSUME OnboardingInv, [OnboardingNext]_vars
             PROVE  uses' \in [Links -> Nat] /\ LinkEndsOnce'
  OBVIOUS
<1>1. /\ uses \in [Links -> Nat] /\ row \in RowShape
      /\ \A l \in Links : uses[l] <= 1 /\ (uses[l] = 1 => row.link # l)
  BY DEF OnboardingInv, TypeOK, RowShape, LinkEndsOnce
<1>2. ASSUME row'.link = row.link, UNCHANGED uses
      PROVE  uses' \in [Links -> Nat] /\ LinkEndsOnce'
  BY <1>1, <1>2 DEF LinkEndsOnce
<1>3. ASSUME Ended(row.link), row'.link # row.link \/ row'.link = None,
             \A l \in Links : row'.link = l => uses[l] = 0
      PROVE  uses' \in [Links -> Nat] /\ LinkEndsOnce'
  <2>1. row.link \in Links \/ row.link = None
    BY <1>1 DEF RowShape
  <2>2. None \notin Links
    BY DEF None, Links
  <2> QED
    BY <1>1, <1>3, <2>1, <2>2 DEF Ended, LinkEndsOnce
<1>4. None \notin Links
  BY DEF None, Links
<1>5. ASSUME NEW p \in Procs, Claim(p) \/ Release(p) \/ Commit(p)
      PROVE  row'.link = row.link /\ UNCHANGED uses
  BY <1>1, <1>5 DEF Claim, Release, Commit, RowShape
<1>6. ASSUME NEW v \in Visits, Unlink(v)
      PROVE  row'.link = row.link /\ UNCHANGED uses
  BY <1>1, <1>6 DEF Unlink, Unlinked, RowShape
<1>7. ASSUME NEW s \in Submits, Submit(s) \/ Erase(s)
      PROVE  uses' \in [Links -> Nat] /\ LinkEndsOnce'
  <2>1. CASE row'.link = row.link /\ UNCHANGED uses
    BY <1>2, <2>1
  <2>2. CASE Ended(row.link) /\ row'.link = None
    BY <1>3, <1>4, <2>2
  <2> QED
    BY <1>1, <1>7, <2>1, <2>2 DEF Submit, Erase, Accepts, LinkOpen, Erased, RowShape
<1>8. CASE Invite
  BY <1>1, <1>3, <1>8 DEF Invite, Minted, RowShape
<1>9. CASE Delete \/ LinkExpires
  BY <1>1, <1>3, <1>4, <1>9 DEF Delete, LinkExpires, Erased, RowShape
<1>10. CASE ClaimAges
  BY <1>1, <1>2, <1>10 DEF ClaimAges, RowShape
<1> QED
  BY <1>2, <1>5, <1>6, <1>7, <1>8, <1>9, <1>10, RowFrame DEF RowSteps

SyncShape == [pc : {"idle", "read", "claim", "prepare", "create", "attach", "release"},
              talent : Talents \union {None}]
VisitShape == [pc : {"idle", "reconcile", "profile", "unlink", "resync"},
               talent : Talents \union {None}]
SubmitShape == [pc : {"idle", "claim", "erase"}, link : Links \union {None}]

LEMMA SyncFrame ==
    [OnboardingNext]_vars
        => \/ \E p \in Procs : SyncStep(p) \/ Crash(p) \/ Coalesced(p)
           \/ UNCHANGED sync
  BY Zenon DEF OnboardingNext, VisitStep, PortalStep, Rematch, Visit, ReadLink, ReadProfile,
     Unlink, Resync, Open, Submit, Erase, Invite, Delete, Prune, ClaimAges, LinkExpires, vars

\* What a sync attaches is a talent, and what it is about to create is asked for.
LEMMA SyncStepOK ==
    OnboardingInv /\ [OnboardingNext]_vars
        => /\ sync' \in [Procs -> SyncShape] /\ Asked'
           /\ \A p \in Procs : sync'[p].pc = "attach" => sync'[p].talent \in Talents
<1> SUFFICES ASSUME OnboardingInv, [OnboardingNext]_vars
             PROVE  /\ sync' \in [Procs -> SyncShape] /\ Asked'
                    /\ \A p \in Procs : sync'[p].pc = "attach" => sync'[p].talent \in Talents
  OBVIOUS
<1> DEFINE Fits(e) == /\ e \in SyncShape /\ (e.pc = "attach" => e.talent \in Talents)
                      /\ (e.pc \in {"claim", "prepare", "create"} => row.consent)
<1>1. sync \in [Procs -> SyncShape] /\ \A p \in Procs : Fits(sync[p])
  BY DEF OnboardingInv, TypeOK, RequestsOK, Asked, SyncShape
<1>2. row.consent => row'.consent
  BY RowStep
<1>3. ASSUME NEW p \in Procs, NEW e, Fits(e), sync' = [sync EXCEPT ![p] = e]
      PROVE  /\ sync' \in [Procs -> SyncShape] /\ Asked'
             /\ \A q \in Procs : sync'[q].pc = "attach" => sync'[q].talent \in Talents
  <2>1. \A q \in Procs : Fits(sync'[q])
    BY <1>1, <1>3
  <2>2. sync' \in [Procs -> SyncShape]
    BY <1>1, <1>3
  <2> QED
    BY <1>2, <2>1, <2>2 DEF Asked
<1>4. ASSUME UNCHANGED sync
      PROVE  /\ sync' \in [Procs -> SyncShape] /\ Asked'
             /\ \A q \in Procs : sync'[q].pc = "attach" => sync'[q].talent \in Talents
  BY <1>1, <1>2, <1>4 DEF Asked
<1>5. Fits(Idle) /\ Fits([Idle EXCEPT !.pc = "read"])
  BY DEF Idle, SyncShape
<1>6. ASSUME NEW p \in Procs,
             \/ SyncStep(p) \/ Crash(p) \/ Coalesced(p)
      PROVE  sync' = sync \/ \E e : Fits(e) /\ sync' = [sync EXCEPT ![p] = e]
  <2>1. sync[p] \in SyncShape /\ Fits(sync[p])
    BY <1>1
  <2>2. ASSUME NEW x \in {"idle", "release"}
        PROVE  Fits([sync[p] EXCEPT !.pc = x])
    BY <2>1 DEF SyncShape
  <2>3. CASE SyncRead(p)
    <3>1. row.consent => Fits([sync[p] EXCEPT !.pc = "claim"])
      BY <2>1 DEF SyncShape
    <3> QED
      BY <2>2, <2>3, <3>1 DEF SyncRead, Syncable
  <2>4. CASE Claim(p)
    <3>1. sync[p].pc = "claim" => Fits([sync[p] EXCEPT !.pc = "prepare"])
      BY <2>1 DEF SyncShape
    <3> QED
      BY <2>2, <2>4, <3>1 DEF Claim
  <2>5. CASE Prepare(p)
    <3>1. sync[p].pc = "prepare" => Fits([sync[p] EXCEPT !.pc = "create"])
      BY <2>1 DEF SyncShape
    <3> QED
      BY <1>5, <2>5, <3>1 DEF Prepare
  <2>6. CASE Created(p)
    <3>1. \A t \in Talents : Fits([pc |-> "attach", talent |-> t])
      BY DEF SyncShape
    <3> QED
      BY <2>6, <3>1 DEF Created
  <2>7. CASE AnswerLost(p) \/ CreateFails(p) \/ Release(p) \/ Commit(p) \/ Crash(p)
    BY <1>5, <2>2, <2>7 DEF AnswerLost, CreateFails, Release, Commit, Crash
  <2>8. CASE Coalesced(p)
    BY <1>5, <2>1, <2>8 DEF Coalesced
  <2> QED
    BY <1>6, <2>3, <2>4, <2>5, <2>6, <2>7, <2>8 DEF SyncStep
<1> HIDE DEF Fits
<1> QED
  BY <1>3, <1>4, <1>6, SyncFrame, Zenon

\* Visits and portal requests.
LEMMA RequestStepOK ==
    OnboardingInv /\ [OnboardingNext]_vars
        => /\ visit' \in [Visits -> VisitShape] /\ submit' \in [Submits -> SubmitShape]
           /\ \A s \in Submits : submit'[s].pc # "idle" => submit'[s].link \in Links
           /\ \A v \in Visits : visit'[v].pc \in {"profile", "unlink"}
                                    => visit'[v].talent \in Talents
<1> SUFFICES ASSUME OnboardingInv, [OnboardingNext]_vars
             PROVE  /\ visit' \in [Visits -> VisitShape] /\ submit' \in [Submits -> SubmitShape]
                    /\ \A s \in Submits : submit'[s].pc # "idle" => submit'[s].link \in Links
                    /\ \A v \in Visits : visit'[v].pc \in {"profile", "unlink"}
                                             => visit'[v].talent \in Talents
  OBVIOUS
<1>1. /\ visit \in [Visits -> VisitShape] /\ submit \in [Submits -> SubmitShape]
      /\ row.talent \in Talents \union {None}
      /\ \A s \in Submits : submit[s].pc # "idle" => submit[s].link \in Links
      /\ \A v \in Visits : visit[v].pc \in {"profile", "unlink"} => visit[v].talent \in Talents
  BY DEF OnboardingInv, TypeOK, RequestsOK, VisitShape, SubmitShape
<1>2. /\ visit' \in [Visits -> VisitShape]
      /\ \A v \in Visits : visit'[v].pc \in {"profile", "unlink"} => visit'[v].talent \in Talents
  <2>1. CASE UNCHANGED visit
    BY <1>1, <2>1
  <2>2. ASSUME NEW v \in Visits, Visit(v)
        PROVE  <1>2!1 /\ <1>2!2
    BY <1>1, <2>2 DEF Visit, VisitShape
  <2>3. ASSUME NEW v \in Visits, ReadLink(v)
        PROVE  <1>2!1 /\ <1>2!2
    BY <1>1, <2>3 DEF ReadLink, VisitShape, Idle
  <2>4. ASSUME NEW v \in Visits, ReadProfile(v)
        PROVE  <1>2!1 /\ <1>2!2
    BY <1>1, <2>4 DEF ReadProfile, VisitShape
  <2>6. ASSUME NEW v \in Visits, Unlink(v) \/ Resync(v)
        PROVE  <1>2!1 /\ <1>2!2
    <3>1. visit' = [visit EXCEPT ![v].pc = "resync"] \/ visit' = [visit EXCEPT ![v] = Idle]
      BY <2>6, Zenon DEF Unlink, Resync
    <3> QED
      BY <1>1, <3>1 DEF VisitShape, Idle, None
  <2>5. UNCHANGED visit \/ \E v \in Visits : Visit(v) \/ VisitStep(v)
    BY Zenon DEF OnboardingNext, SyncStep, PortalStep, SyncRead, Claim, Prepare, Created,
       AnswerLost, CreateFails, Release, Commit, Rematch, Crash, Open, Submit, Erase, Invite,
       Delete, Prune, ClaimAges, LinkExpires, vars
  <2> QED
    BY <2>1, <2>2, <2>3, <2>4, <2>5, <2>6 DEF VisitStep
<1>3. /\ submit' \in [Submits -> SubmitShape]
      /\ \A s \in Submits : submit'[s].pc # "idle" => submit'[s].link \in Links
  <2>1. CASE UNCHANGED submit
    BY <1>1, <2>1
  <2>2. ASSUME NEW s \in Submits, Open(s)
        PROVE  <1>3!1 /\ <1>3!2
    BY <1>1, <2>2 DEF Open, SubmitShape
  <2>3. ASSUME NEW s \in Submits, Submit(s) \/ Erase(s)
        PROVE  <1>3!1 /\ <1>3!2
    BY <1>1, <2>3 DEF Submit, Erase, SubmitShape, NoRequest
  <2>4. UNCHANGED submit \/ \E s \in Submits : Open(s) \/ PortalStep(s)
    BY Zenon DEF OnboardingNext, SyncStep, VisitStep, SyncRead, Claim, Prepare, Created,
       AnswerLost, CreateFails, Release, Commit, Rematch, Crash, Visit, ReadLink, ReadProfile,
       Unlink, Resync, Invite, Delete, Prune, ClaimAges, LinkExpires, vars
  <2> QED
    BY <2>1, <2>2, <2>3, <2>4 DEF PortalStep
<1> QED
  BY <1>2, <1>3

\* What has slipped stays.
LEMMA SlipStep ==
    OnboardingInv /\ [OnboardingNext]_vars
        => slips \subseteq slips' /\ slips' \subseteq {"lost", "cut", "outlived", "unlinked"}
<1> SUFFICES ASSUME OnboardingInv, [OnboardingNext]_vars
             PROVE  slips \subseteq slips' /\ slips' \subseteq {"lost", "cut", "outlived", "unlinked"}
  OBVIOUS
<1>1. \/ UNCHANGED slips
      \/ \E p \in Procs : AnswerLost(p) \/ Crash(p)
      \/ \E v \in Visits : Unlink(v)
      \/ ClaimAges
  BY Zenon DEF OnboardingNext, SyncStep, VisitStep, PortalStep, SyncRead, Claim, Prepare,
     Created, CreateFails, Release, Commit, Rematch, Visit, ReadLink, ReadProfile, Resync,
     Open, Submit, Erase, Invite, Delete, Prune, LinkExpires, vars
<1> QED
  BY <1>1 DEF OnboardingInv, TypeOK, AnswerLost, Crash, Unlink, ClaimAges, Slip

LEMMA PoolStepOK ==
    OnboardingAssumption /\ OnboardingInv /\ [OnboardingNext]_vars
        => /\ pool' \in [Talents -> {"absent", "live", "gone"}] /\ faults' \in 0 .. MaxFaults
           /\ \A t \in Talents : pool[t] = "gone" => pool'[t] = "gone"
<1> SUFFICES ASSUME OnboardingAssumption, OnboardingInv, [OnboardingNext]_vars
             PROVE  /\ pool' \in [Talents -> {"absent", "live", "gone"}]
                    /\ faults' \in 0 .. MaxFaults
                    /\ \A t \in Talents : pool[t] = "gone" => pool'[t] = "gone"
  OBVIOUS
<1>1. pool \in [Talents -> {"absent", "live", "gone"}] /\ faults \in 0 .. MaxFaults
      /\ MaxFaults \in Nat
  BY DEF OnboardingInv, TypeOK, OnboardingAssumption
<1>2. /\ pool' \in [Talents -> {"absent", "live", "gone"}]
      /\ \A t \in Talents : pool[t] = "gone" => pool'[t] = "gone"
  BY <1>1, PoolFrame DEF PoolSteps, Created, AnswerLost, Prune, Fresh
<1>3. UNCHANGED faults \/ Fault
  BY Zenon DEF OnboardingNext, SyncStep, VisitStep, PortalStep, SyncRead, Claim, Prepare,
     Created, AnswerLost, CreateFails, Release, Commit, Rematch, Crash, Visit, ReadLink,
     ReadProfile, Unlink, Resync, Open, Submit, Erase, Invite, Delete, Prune, ClaimAges,
     LinkExpires, vars
<1> QED
  BY <1>1, <1>2, <1>3 DEF Fault

LEMMA OnboardingStarts == OnboardingAssumption /\ OnboardingInit => OnboardingInv
<1> SUFFICES ASSUME OnboardingAssumption, OnboardingInit
             PROVE  OnboardingInv
  OBVIOUS
<1>1. 1 \in Talents /\ 1 \in Links /\ None \notin Links /\ None \notin Talents
  BY DEF OnboardingAssumption, Talents, Links, None
<1>2. PICK origin \in Origins : row = Row(origin)
  BY DEF OnboardingInit
<1>3. row \in RowShape /\ ReadyWhileLinked
  BY <1>1, <1>2 DEF Row, RowShape, ReadyWhileLinked
<1>4. LinkEndsOnce
  BY DEF OnboardingInit, LinkEndsOnce
<1>5. TypeOK
  BY <1>1, <1>3 DEF OnboardingInit, TypeOK, RowShape, Idle, NoRequest, OnboardingAssumption
<1>6. RequestsOK /\ Asked
  BY DEF OnboardingInit, RequestsOK, Asked, Idle, NoRequest
<1> QED
  BY <1>3, <1>4, <1>5, <1>6 DEF OnboardingInv

LEMMA OnboardingInvariance ==
  ASSUME OnboardingAssumption
  PROVE  OnboardingSpec => []OnboardingInv
<1>1. OnboardingInit => OnboardingInv
  BY OnboardingStarts
<1>2. OnboardingInv /\ [OnboardingNext]_vars => OnboardingInv'
  BY RowStep, LinkStep, SyncStepOK, RequestStepOK, PoolStepOK, SlipStep
  DEF OnboardingInv, TypeOK, RequestsOK, RowShape, SyncShape, VisitShape, SubmitShape
<1> QED
  BY <1>1, <1>2, PTL DEF OnboardingSpec

\* The status of the candidate tells whether it is linked to a talent.
THEOREM AlwaysReadyWhileLinked ==
  ASSUME OnboardingAssumption
  PROVE  OnboardingSpec => [](TypeOK /\ ReadyWhileLinked)
<1>1. OnboardingInv => TypeOK /\ ReadyWhileLinked
  BY DEF OnboardingInv
<1> QED
  BY <1>1, OnboardingInvariance, PTL

\* However many submissions, erasures and invitations race for it, a link of the
\* portal ends once and is not used afterwards.
THEOREM LinkAlwaysEndsOnce ==
  ASSUME OnboardingAssumption
  PROVE  OnboardingSpec => []LinkEndsOnce
<1>1. OnboardingInv => LinkEndsOnce
  BY DEF OnboardingInv
<1> QED
  BY <1>1, OnboardingInvariance, PTL

\* Nobody is pushed to the pool without consent, whatever syncs, crashes, lost
\* answers and repairs of the link overlap.
THEOREM AlwaysPushedWithConsent ==
  ASSUME OnboardingAssumption
  PROVE  OnboardingSpec => [][PushedWithConsent]_vars
<1>1. OnboardingInv /\ [OnboardingNext]_vars => [PushedWithConsent]_vars
  <2> SUFFICES ASSUME OnboardingInv, [OnboardingNext]_vars
               PROVE  PushedWithConsent
    OBVIOUS
  <2>1. CASE \E p \in Procs : Created(p) \/ AnswerLost(p)
    BY <2>1 DEF OnboardingInv, Asked, Created, AnswerLost, PushedWithConsent
  <2>2. CASE Prune \/ UNCHANGED pool
    BY <2>2 DEF Prune, PushedWithConsent, OnboardingInv, TypeOK
  <2> QED
    BY <2>1, <2>2, PoolFrame DEF PoolSteps
<1> QED
  BY <1>1, OnboardingInvariance, PTL DEF OnboardingSpec

\* A claim that is not outlived keeps the syncs apart.
LEMMA WorksAloneStep ==
    OnboardingInv /\ WorksAlone /\ [OnboardingNext]_vars => WorksAlone'
<1> SUFFICES ASSUME OnboardingInv, WorksAlone, [OnboardingNext]_vars, Claimed'
             PROVE  WorksAlone'
  BY DEF WorksAlone
<1>0. Claimed
  BY SlipStep DEF Claimed
<1>1. /\ sync \in [Procs -> SyncShape] /\ row \in RowShape
      /\ \A p \in Procs : Working(p) => row.talent = None /\ row.claim = "fresh"
      /\ \A p, q \in Procs : Working(p) /\ Working(q) => p = q
  BY <1>0 DEF OnboardingInv, TypeOK, SyncShape, RowShape, WorksAlone
<1>2. ASSUME row'.talent = row.talent, row'.claim = row.claim,
             \A p \in Procs : Working(p)' => Working(p)
      PROVE  WorksAlone'
  BY <1>1, <1>2 DEF WorksAlone
<1>3. ASSUME NEW p \in Procs, Claim(p)
      PROVE  WorksAlone'
  <2>1. CASE Claimable(row)
    <3>1. \A q \in Procs : ~Working(q)
      BY <1>1, <2>1 DEF Claimable
    <3>2. \A q \in Procs : Working(q)' => q = p
      BY <1>1, <1>3, <3>1 DEF Claim, Working
    <3>3. row'.talent = None /\ row'.claim = "fresh"
      BY <1>1, <1>3, <2>1 DEF Claim, Claimable, RowShape
    <3> QED
      BY <3>2, <3>3 DEF WorksAlone
  <2>2. CASE ~Claimable(row)
    <3>1. UNCHANGED row /\ sync' = [sync EXCEPT ![p].pc = "idle"]
      BY <1>3, <2>2, Zenon DEF Claim
    <3>2. \A q \in Procs : Working(q)' => Working(q)
      BY <1>1, <3>1 DEF Working
    <3> QED
      BY <1>2, <3>1, <3>2
  <2> QED
    BY <2>1, <2>2
<1>4. ASSUME NEW p \in Procs, Release(p) \/ Commit(p)
      PROVE  WorksAlone'
  <2>1. Working(p)
    BY <1>4 DEF Release, Commit, Working
  <2>2. \A q \in Procs : ~Working(q)'
    BY <1>1, <1>4, <2>1 DEF Release, Commit, Working, Idle
  <2> QED
    BY <2>2 DEF WorksAlone
<1>5. ASSUME NEW p \in Procs,
             SyncRead(p) \/ Prepare(p) \/ Created(p) \/ AnswerLost(p) \/ CreateFails(p) \/ Crash(p)
      PROVE  WorksAlone'
  <2>1. UNCHANGED row
    BY <1>5 DEF SyncRead, Prepare, Created, AnswerLost, CreateFails, Crash
  <2>2. \A q \in Procs : Working(q)' => Working(q)
    <3>1. CASE SyncRead(p)
      BY <1>1, <3>1 DEF SyncRead, Working
    <3>2. CASE Prepare(p) \/ Crash(p)
      BY <1>1, <3>2 DEF Prepare, Crash, Working, Idle
    <3>3. CASE Created(p) \/ AnswerLost(p) \/ CreateFails(p)
      BY <1>1, <3>3 DEF Created, AnswerLost, CreateFails, Working
    <3> QED
      BY <1>5, <3>1, <3>2, <3>3
  <2> QED
    BY <1>2, <2>1, <2>2
<1>6. ASSUME NEW p \in Procs, Coalesced(p)
      PROVE  \A q \in Procs : Working(q)' => Working(q)
  BY <1>1, <1>6 DEF Coalesced, Working, Idle
<1>7. CASE (\E p \in Procs : Rematch(p)) \/ \E v \in Visits : Resync(v)
  <2>1. UNCHANGED row /\ (UNCHANGED sync \/ \E p \in Procs : Coalesced(p))
    BY <1>7, Zenon DEF Rematch, Resync
  <2> QED
    BY <1>2, <1>6, <2>1 DEF Working
<1>8. ASSUME NEW v \in Visits, Unlink(v)
      PROVE  WorksAlone'
  <2>1. \A p \in Procs : ~Working(p)
    BY <1>8 DEF Unlink, Slip, Claimed
  <2> QED
    BY <1>8, <2>1 DEF Unlink, WorksAlone, Working
<1>9. ASSUME NEW s \in Submits, Submit(s)
      PROVE  WorksAlone'
  <2>1. row'.talent = row.talent /\ row'.claim = row.claim
        /\ (UNCHANGED sync \/ \E p \in Procs : Coalesced(p))
    BY <1>1, <1>9 DEF Submit, RowShape
  <2> QED
    BY <1>2, <1>6, <2>1 DEF Working
<1>10. CASE ClaimAges
  <2>1. \A p \in Procs : ~Working(p)
    BY <1>10 DEF ClaimAges, Slip, Claimed
  <2> QED
    BY <1>10, <2>1 DEF ClaimAges, WorksAlone, Working
<1>11. CASE (\E s \in Submits : Erase(s)) \/ Invite \/ Delete \/ LinkExpires
  <2>1. row'.talent = row.talent /\ row'.claim = row.claim /\ UNCHANGED sync
    BY <1>1, <1>11 DEF Erase, Invite, Delete, LinkExpires, Erased, RowShape
  <2> QED
    BY <1>2, <2>1 DEF Working
<1>12. ASSUME \/ \E v \in Visits : Visit(v) \/ ReadLink(v) \/ ReadProfile(v)
              \/ \E s \in Submits : Open(s)
              \/ Prune
              \/ UNCHANGED vars
       PROVE  UNCHANGED <<row, sync>>
  BY <1>12 DEF Visit, ReadLink, ReadProfile, Open, Prune, vars
<1>13. CASE UNCHANGED <<row, sync>>
  BY <1>2, <1>13 DEF Working
<1> QED
  BY <1>3, <1>4, <1>5, <1>7, <1>8, <1>9, <1>10, <1>11, <1>12, <1>13, Zenon
  DEF OnboardingNext, SyncStep, VisitStep, PortalStep

LEMMA FoundIsGoneStep ==
    OnboardingAssumption /\ OnboardingInv /\ FoundIsGone /\ [OnboardingNext]_vars
        => FoundIsGone'
<1> SUFFICES ASSUME OnboardingAssumption, OnboardingInv, FoundIsGone, [OnboardingNext]_vars
             PROVE  FoundIsGone'
  OBVIOUS
<1>1. /\ visit \in [Visits -> VisitShape]
      /\ \A v \in Visits : visit[v].pc \in {"profile", "unlink"} => visit[v].talent \in Talents
      /\ \A t \in Talents : pool[t] = "gone" => pool'[t] = "gone"
  BY PoolStepOK DEF OnboardingInv, TypeOK, RequestsOK, VisitShape
<1>2. CASE UNCHANGED visit
  BY <1>1, <1>2 DEF FoundIsGone
<1>3. ASSUME NEW v \in Visits, Visit(v) \/ ReadLink(v) \/ Unlink(v) \/ Resync(v)
      PROVE  FoundIsGone'
  <2>1. visit'[v].pc # "unlink" /\ \A w \in Visits : w # v => visit'[w] = visit[w]
    <3>1. \E e : e.pc # "unlink" /\ visit' = [visit EXCEPT ![v] = e]
      <4>1. CASE ReadLink(v)
        BY <4>1 DEF ReadLink, Idle
      <4>2. CASE Resync(v)
        BY <4>2 DEF Resync, Idle
      <4>3. ASSUME NEW x \in {"reconcile", "resync"}, visit' = [visit EXCEPT ![v].pc = x]
            PROVE  \E e : e.pc # "unlink" /\ visit' = [visit EXCEPT ![v] = e]
        BY <1>1, <4>3 DEF VisitShape
      <4> QED
        BY <1>3, <4>1, <4>2, <4>3 DEF Visit, Unlink
    <3> QED
      BY <1>1, <3>1
  <2> QED
    BY <1>1, <2>1 DEF FoundIsGone
<1>4. ASSUME NEW v \in Visits, ReadProfile(v)
      PROVE  FoundIsGone'
  <2>1. /\ visit'[v].talent = visit[v].talent /\ UNCHANGED pool
        /\ visit'[v].pc = "unlink" => pool[visit[v].talent] = "gone"
        /\ \A w \in Visits : w # v => visit'[w] = visit[w]
    BY <1>1, <1>4 DEF ReadProfile, VisitShape
  <2> QED
    BY <1>1, <2>1 DEF FoundIsGone
<1>5. UNCHANGED visit \/ \E v \in Visits : Visit(v) \/ VisitStep(v)
  BY Zenon DEF OnboardingNext, SyncStep, PortalStep, SyncRead, Claim, Prepare, Created,
     AnswerLost, CreateFails, Release, Commit, Rematch, Crash, Open, Submit, Erase, Invite,
     Delete, Prune, ClaimAges, LinkExpires, vars
<1> QED
  BY <1>2, <1>3, <1>4, <1>5 DEF VisitStep

\* The row keeps the link to a live talent, but for a visit that found another
\* talent gone and a sync that commits after it lost its claim; with any number of
\* processes, visits and portal requests (reconcileVanceTalent).
THEOREM UnlinksAlwaysOnlyDead ==
  ASSUME OnboardingAssumption
  PROVE  OnboardingSpec => [][UnlinksOnlyDead]_vars
<1>1. OnboardingInv /\ WorksAlone /\ FoundIsGone /\ [OnboardingNext]_vars
        => [UnlinksOnlyDead]_vars
  <2> SUFFICES ASSUME OnboardingInv, WorksAlone, FoundIsGone, [OnboardingNext]_vars,
                      row.talent # None, row'.talent # row.talent, pool[row.talent] # "gone"
               PROVE  UnlinksOnlyDead
    BY DEF UnlinksOnlyDead
  <2>1. row \in RowShape /\ sync \in [Procs -> SyncShape] /\ visit \in [Visits -> VisitShape]
    BY DEF OnboardingInv, TypeOK, RowShape, SyncShape, VisitShape
  <2>2. ASSUME NEW v \in Visits, Unlink(v)
        PROVE  UnlinksOnlyDead
    <3>1. visit[v].pc = "unlink" /\ visit'[v].pc = "resync" /\ pool[visit[v].talent] = "gone"
      BY <2>1, <2>2 DEF Unlink, FoundIsGone
    <3> QED
      BY <3>1 DEF UnlinksOnlyDead, FoundGone
  <2>3. ASSUME NEW p \in Procs, Commit(p)
        PROVE  UnlinksOnlyDead
    <3>1. sync[p].pc = "attach" /\ sync'[p].pc = "idle" /\ row'.talent = sync[p].talent
      BY <2>1, <2>3 DEF Commit, Idle, RowShape
    <3>2. Working(p)
      BY <3>1 DEF Working
    <3>3. slips \intersect {"outlived", "unlinked"} # {}
      BY <3>2 DEF WorksAlone, Claimed
    <3> QED
      BY <3>1, <3>3 DEF UnlinksOnlyDead
  <2>4. ASSUME NEW p \in Procs, Claim(p) \/ Release(p)
        PROVE  row'.talent = row.talent
    BY <2>1, <2>4 DEF Claim, Release, RowShape
  <2>5. ASSUME NEW s \in Submits, Submit(s) \/ Erase(s)
        PROVE  row'.talent = row.talent
    BY <2>1, <2>5 DEF Submit, Erase, Erased, RowShape
  <2>6. CASE Invite \/ Delete \/ ClaimAges \/ LinkExpires
    BY <2>1, <2>6 DEF Invite, Delete, ClaimAges, LinkExpires, Erased, RowShape
  <2> QED
    BY <2>2, <2>3, <2>4, <2>5, <2>6, RowFrame DEF RowSteps
<1>2. OnboardingAssumption => (OnboardingInit => WorksAlone /\ FoundIsGone)
  BY DEF OnboardingInit, WorksAlone, FoundIsGone, Working, Idle
<1>3. OnboardingInv /\ OnboardingInv' /\ WorksAlone /\ FoundIsGone /\ [OnboardingNext]_vars
        => (WorksAlone /\ FoundIsGone)'
  BY WorksAloneStep, FoundIsGoneStep
<1> QED
  BY <1>1, <1>2, <1>3, OnboardingInvariance, PTL DEF OnboardingSpec

LEMMA TalentKnownStep ==
    OnboardingInv /\ WorksAlone /\ TalentKnown /\ [OnboardingNext]_vars => TalentKnown'
<1> SUFFICES ASSUME OnboardingInv, WorksAlone, TalentKnown, [OnboardingNext]_vars, slips' = {}
             PROVE  OneKnown'
  BY DEF TalentKnown
<1>0. slips = {} /\ Claimed /\ OneKnown
  BY SlipStep DEF Claimed, TalentKnown
<1>1. /\ sync \in [Procs -> SyncShape] /\ row \in RowShape
      /\ pool \in [Talents -> {"absent", "live", "gone"}] /\ None \notin Talents
  BY DEF OnboardingInv, TypeOK, SyncShape, RowShape, Talents, None
<1>2. /\ Live \subseteq Talents
      /\ \A p \in Procs : Working(p) => row.talent = None /\ row.claim = "fresh"
      /\ \A p, q \in Procs : Working(p) /\ Working(q) => p = q
  BY <1>0 DEF WorksAlone, Live
<1>3. ASSUME Live' \subseteq Live, row'.exists => row.exists,
             \A p \in Procs : sync'[p].pc \in {"prepare", "create", "release"} => Live' = {},
             \A p \in Procs : sync[p].pc = "attach" => sync'[p] = sync[p],
             row'.exists => \A t \in Live' : row.talent = t => row'.talent = t
      PROVE  OneKnown'
  BY <1>0, <1>3 DEF OneKnown
<1>4. ASSUME UNCHANGED pool
      PROVE  Live' = Live
  BY <1>4 DEF Live
<1>5. ASSUME NEW p \in Procs, Claim(p)
      PROVE  OneKnown'
  <2>1. row'.exists = row.exists /\ row'.talent = row.talent /\ Live' = Live
    BY <1>1, <1>4, <1>5 DEF Claim, RowShape
  <2>2. \A q \in Procs : sync[q].pc = "attach" => sync'[q] = sync[q]
    BY <1>1, <1>5 DEF Claim
  <2>3. Claimable(row) => Live = {}
    BY <1>0, <1>1, <1>2 DEF Claimable, OneKnown, Working
  <2>4. \A q \in Procs : sync'[q].pc \in {"prepare", "create", "release"}
                             => sync[q].pc = sync'[q].pc \/ Claimable(row)
    <3>1. CASE ~Claimable(row)
      <4>1. sync' = [sync EXCEPT ![p].pc = "idle"]
        BY <1>5, <3>1, Zenon DEF Claim
      <4> QED
        BY <1>1, <4>1
    <3> QED
      BY <3>1
  <2>5. \A q \in Procs : sync'[q].pc \in {"prepare", "create", "release"} => Live' = {}
    BY <1>0, <2>1, <2>3, <2>4 DEF OneKnown
  <2> QED
    BY <1>3, <2>1, <2>2, <2>5
<1>6. ASSUME NEW p \in Procs, Created(p)
      PROVE  OneKnown'
  <2>1. PICK t \in Talents : /\ pool' = [pool EXCEPT ![t] = "live"]
                            /\ sync' = [sync EXCEPT ![p] = [pc |-> "attach", talent |-> t]]
    BY <1>6 DEF Created
  <2>2. Live = {} /\ sync[p].pc = "create"
    BY <1>0, <1>6 DEF Created, OneKnown
  <2>3. Live' = {t}
    BY <1>1, <2>1, <2>2 DEF Live
  <2>4. sync'[p].pc = "attach" /\ sync'[p].talent = t
    BY <1>1, <2>1
  <2>5. \A q \in Procs : sync'[q].pc \notin {"prepare", "create", "release"}
    <3>1. \A q \in Procs : q # p => ~Working(q)
      BY <1>2, <2>2 DEF Working
    <3> QED
      BY <1>1, <2>1, <3>1 DEF Working
  <2> QED
    BY <2>3, <2>4, <2>5 DEF OneKnown
<1>7. ASSUME NEW p \in Procs, Commit(p)
      PROVE  OneKnown'
  <2>1. /\ sync[p].pc = "attach" /\ row.talent = None /\ Live' = Live
        /\ \A q \in Procs : Working(q) => q = p
    BY <1>2, <1>4, <1>7 DEF Commit, Working
  <2>2. \A q \in Procs : ~Working(q)'
    BY <1>1, <1>7, <2>1 DEF Commit, Working, Idle
  <2>3. row.exists => \A t \in Live : t = sync[p].talent
    BY <1>0, <1>1, <1>2, <2>1 DEF OneKnown, Working
  <2>4. row'.exists = row.exists /\ (row.exists => row'.talent = sync[p].talent)
    BY <1>1, <1>7 DEF Commit, RowShape
  <2> QED
    BY <1>0, <2>1, <2>2, <2>3, <2>4 DEF OneKnown, Working
<1>8. ASSUME NEW v \in Visits, Unlink(v)
      PROVE  OneKnown'
  <2>1. /\ row.talent = None \/ pool[row.talent] # "live"
        /\ UNCHANGED sync /\ Live' = Live
    BY <1>4, <1>8 DEF Unlink, Slip
  <2>2. row.talent \notin Live
    BY <1>1, <2>1 DEF Live
  <2>3. row'.exists => row.exists
    BY <1>1, <1>8 DEF Unlink, Unlinked, RowShape
  <2> QED
    BY <1>0, <1>3, <2>1, <2>2, <2>3 DEF OneKnown
<1>9. ASSUME UNCHANGED pool, row'.talent = row.talent, row'.exists => row.exists,
             \A p \in Procs : sync[p].pc = "attach" => sync'[p] = sync[p],
             \A p \in Procs : sync'[p].pc \in {"prepare", "create", "release"}
                               => sync[p].pc \in {"prepare", "create", "release"}
      PROVE  OneKnown'
  BY <1>0, <1>3, <1>4, <1>9 DEF OneKnown
<1>10. ASSUME NEW p \in Procs,
              SyncRead(p) \/ Prepare(p) \/ Release(p) \/ CreateFails(p) \/ Crash(p)
       PROVE  OneKnown'
  <2>1. row'.talent = row.talent /\ (row'.exists => row.exists) /\ UNCHANGED pool
    BY <1>1, <1>10 DEF SyncRead, Prepare, Release, CreateFails, Crash, RowShape
  <2>2. sync[p].pc # "attach" /\ \A q \in Procs : q # p => sync'[q] = sync[q]
    <3>1. Crash(p) => sync[p].pc # "attach"
      BY DEF Crash, Slip
    <3> QED
      BY <1>1, <1>10, <3>1 DEF SyncRead, Prepare, Release, CreateFails, Crash
  <2>3. sync'[p].pc \in {"prepare", "create", "release"}
          => sync[p].pc \in {"prepare", "create", "release"}
    <3>1. CASE SyncRead(p)
      BY <1>1, <3>1 DEF SyncRead
    <3>2. CASE Prepare(p) \/ Release(p) \/ CreateFails(p)
      BY <3>2 DEF Prepare, Release, CreateFails
    <3>3. CASE Crash(p)
      BY <1>1, <3>3 DEF Crash, Idle
    <3> QED
      BY <1>10, <3>1, <3>2, <3>3
  <2> QED
    BY <1>9, <2>1, <2>2, <2>3
<1>11. ASSUME NEW p \in Procs, Coalesced(p)
       PROVE  \A q \in Procs :
                /\ sync[q].pc = "attach" => sync'[q] = sync[q]
                /\ sync'[q].pc \in {"prepare", "create", "release"}
                      => sync[q].pc \in {"prepare", "create", "release"}
  BY <1>1, <1>11 DEF Coalesced, Idle
<1>12. CASE (\E p \in Procs : Rematch(p)) \/ \E v \in Visits : Resync(v)
  <2>1. UNCHANGED <<row, pool>> /\ (UNCHANGED sync \/ \E p \in Procs : Coalesced(p))
    BY <1>12, Zenon DEF Rematch, Resync
  <2> QED
    BY <1>9, <1>11, <2>1
<1>13. ASSUME NEW s \in Submits, Submit(s)
       PROVE  OneKnown'
  <2>1. row'.talent = row.talent /\ (row'.exists => row.exists) /\ UNCHANGED pool
        /\ (UNCHANGED sync \/ \E p \in Procs : Coalesced(p))
    BY <1>1, <1>13 DEF Submit, RowShape
  <2> QED
    BY <1>9, <1>11, <2>1
<1>14. CASE (\E s \in Submits : Erase(s)) \/ Invite \/ Delete \/ LinkExpires \/ ClaimAges
  <2>1. row'.talent = row.talent /\ (row'.exists => row.exists) /\ UNCHANGED <<pool, sync>>
    BY <1>1, <1>14 DEF Erase, Invite, Delete, LinkExpires, ClaimAges, Erased, RowShape
  <2> QED
    BY <1>9, <2>1
<1>15. CASE Prune
  <2>1. UNCHANGED <<row, sync>> /\ Live' \subseteq Live
    BY <1>1, <1>15 DEF Prune, Live
  <2> QED
    BY <1>0, <1>3, <2>1 DEF OneKnown
<1>16. ASSUME \/ \E v \in Visits : Visit(v) \/ ReadLink(v) \/ ReadProfile(v)
              \/ \E s \in Submits : Open(s)
              \/ UNCHANGED vars
       PROVE  UNCHANGED <<row, pool, sync>>
  BY <1>16 DEF Visit, ReadLink, ReadProfile, Open, vars
<1>17. CASE UNCHANGED <<row, pool, sync>>
  BY <1>9, <1>17
<1>18. \A p \in Procs : ~AnswerLost(p)
  BY DEF AnswerLost, Slip
<1> QED
  BY <1>5, <1>6, <1>7, <1>8, <1>10, <1>12, <1>13, <1>14, <1>15, <1>16, <1>17, <1>18, Zenon
  DEF OnboardingNext, SyncStep, VisitStep, PortalStep

\* The claim of syncCandidateToVanceImpl does what it is for: submissions, visits
\* and rematches in any number of processes never give a candidate two live talents,
\* until a create loses its answer, a process dies before it stored its talent, a sync
\* outlives its claim or a visit clears what it has not read.
THEOREM AlwaysOneTalent ==
  ASSUME OnboardingAssumption
  PROVE  OnboardingSpec => []OneTalent
<1>1. OnboardingInit => WorksAlone /\ TalentKnown
  BY DEF OnboardingInit, WorksAlone, Working, TalentKnown, OneKnown, Live, Idle
<1>2. OnboardingInv /\ WorksAlone /\ TalentKnown /\ [OnboardingNext]_vars
        => WorksAlone' /\ TalentKnown'
  BY WorksAloneStep, TalentKnownStep
<1>3. TalentKnown => OneTalent
  <2> SUFFICES ASSUME OneKnown
               PROVE  Cardinality(Live) <= 1
    BY DEF OneTalent, TalentKnown
  <2>1. CASE Live = {}
    BY <2>1, FS_EmptySet
  <2>2. CASE \E t : Live = {t}
    <3>1. PICK t : Live = {t}
      BY <2>2
    <3>2. Cardinality({t}) = 1
      BY FS_Singleton, Zenon
    <3> QED
      BY <3>1, <3>2
  <2> QED
    BY <2>1, <2>2 DEF OneKnown
<1> QED
  BY <1>1, <1>2, <1>3, OnboardingInvariance, PTL DEF OnboardingSpec
=============================================================================
