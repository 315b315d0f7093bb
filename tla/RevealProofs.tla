---------------------------- MODULE RevealProofs ----------------------------
(***************************************************************************)
(* Theorems about Reveal, for any number of recruiters, projects, pools,   *)
(* talents and concurrent requests, ingests and clean-ups.                 *)
(*                                                                         *)
(* RevealHoldsLock and LockLinksOwnReveal tie the Reveal rows and the lock *)
(* rows to each other and are inductive only together with three facts     *)
(* about the bookkeeping: ids are fresh, a clean-up works with a time that *)
(* has passed, and no lock outlives TTL.                                   *)
(***************************************************************************)
EXTENDS Reveal

-----------------------------------------------------------------------------
(* The typing: one lemma per group of actions. It is split into four parts, *)
(* because most actions disturb one or two of them.                         *)

ProcessTypeOK ==
  /\ request \in [Requests -> RequestState \cup {Idle}]
  /\ ingest \in [Ingesters -> IngestState \cup {Idle}]
  /\ cleanup \in [Cleaners -> CleanupState \cup {Idle}]

RowTypeOK ==
  /\ matches \in [MatchKeys -> Times]
  /\ shortlisted \subseteq MatchKeys
  /\ candidates \subseteq Profiles
  /\ reveals \in [RevealIds -> RevealRow \cup {NoReveal}]
  /\ nextReveal \in 1..(MaxReveals + 1)
  /\ revealLocks \in [Profiles -> LockRow \cup {NoLock}]
  /\ ended \subseteq RevealIds

FlagTypeOK ==
  /\ now \in 0..MaxTime
  /\ status \in [Projects -> {"OPEN", "CLOSED", "deleted"}]
  /\ subscriptionStatus \in [Users -> BillingStates]

\* The four parts are the typing.
LEMMA TypeParts ==
  RevealTypeOK <=> CreditTypeOK /\ FlagTypeOK /\ RowTypeOK /\ ProcessTypeOK
  BY DEF RevealTypeOK, FlagTypeOK, RowTypeOK, ProcessTypeOK

\* A request starts.
LEMMA TypeStart ==
  ASSUME RevealTypeOK, NEW q \in Requests, NEW u \in Users, NEW p \in Projects,
         NEW f \in Profiles, Start(q, u, p, f)
  PROVE  RevealTypeOK'
<1>1. ProcessTypeOK'
  BY TypeParts DEF ProcessTypeOK, Start, RequestState
<1>2. CreditTypeOK' /\ FlagTypeOK' /\ RowTypeOK'
  BY TypeParts DEF Start, CreditTypeOK, FlagTypeOK, RowTypeOK, creditVars, tableVars,
                   rowVars
<1> QED BY <1>1, <1>2, TypeParts, PTL

\* A request reads, or ends without buying.
LEMMA TypeRequest ==
  ASSUME RevealTypeOK, NEW q \in Requests,
         \/ CheckBilling(q) \/ CheckLock(q) \/ FindShared(q)
         \/ FetchFails(q) \/ AcquireNothing(q)
  PROVE  RevealTypeOK'
<1>1. ProcessTypeOK'
  BY TypeParts DEF ProcessTypeOK, CheckBilling, CheckLock, FindShared,
                   FetchFails, AcquireNothing, RequestState, Awaits, Answer, Proceed
<1>2. CreditTypeOK' /\ FlagTypeOK' /\ RowTypeOK'
  BY TypeParts DEF CheckBilling, CheckLock, FindShared, FetchFails, AcquireNothing,
                   CreditTypeOK, FlagTypeOK, RowTypeOK, creditVars, tableVars, rowVars
<1> QED BY <1>1, <1>2, TypeParts, PTL

\* An expiry counted from the clock of the model is a time.
LEMMA TimeBounds ==
  ASSUME now \in 0..MaxTime
  PROVE  /\ now \in Times /\ now + TTL \in Times /\ now + FreeTTL \in Times
         /\ now + MatchTTL \in Times
  BY RevealAssumption DEF Times

\* The acquire transaction spends a credit and writes a reveal and a lock.
LEMMA TypeAcquire ==
  ASSUME RevealTypeOK, CreditInv, NEW q \in Requests, AcquireReveal(q)
  PROVE  RevealTypeOK'
<1> DEFINE u == request[q].user
           f == request[q].profile
           row == [project |-> request[q].project, user |-> u, profile |-> f,
                   expiresAt |-> now + TTL, paid |-> TRUE]
<1>0. /\ CreditTypeOK /\ FlagTypeOK /\ RowTypeOK /\ ProcessTypeOK
  BY TypeParts
<1>1. request[q] \in RequestState
  BY <1>0 DEF AcquireReveal, Awaits, ProcessTypeOK
<1>2. u \in Users /\ f \in Profiles /\ request[q].project \in Projects
  BY <1>1 DEF RequestState
<1>3. ProcessTypeOK'
  BY <1>0 DEF ProcessTypeOK, AcquireReveal, Awaits, Answer
<1>4. FlagTypeOK'
  BY <1>0 DEF FlagTypeOK, AcquireReveal
<1>5. CreditTypeOK'
  BY <1>2, SpendInv DEF AcquireReveal, CreditInv
<1>6. nextReveal \in RevealIds /\ nextReveal' \in 1..(MaxReveals + 1)
  BY <1>0, RevealAssumption DEF AcquireReveal, RevealIds
<1>7. row \in RevealRow
  BY <1>0, <1>2, TimeBounds DEF RevealRow, FlagTypeOK
<1>8. NewLock(u, nextReveal) \in LockRow
  BY <1>0, <1>2, <1>6, TimeBounds DEF NewLock, LockRow, FlagTypeOK
<1>9. RowTypeOK'
  <2>1. reveals' = [reveals EXCEPT ![nextReveal] = row]
        /\ revealLocks' = [revealLocks EXCEPT ![f] = NewLock(u, nextReveal)]
        /\ UNCHANGED <<matches, shortlisted, candidates, ended>>
    BY DEF AcquireReveal
  <2> HIDE DEF row, u, f
  <2> QED BY <1>0, <1>6, <1>7, <1>8, <2>1 DEF RowTypeOK
<1> QED BY <1>3, <1>4, <1>5, <1>9, TypeParts, PTL

\* An ingest, step by step.
LEMMA TypeIngest ==
  ASSUME RevealTypeOK, NEW i \in Ingesters,
         \/ \E p \in Projects, f \in Profiles : IngestStart(i, p, f)
         \/ IngestStep(i)
  PROVE  RevealTypeOK'
<1>0. /\ CreditTypeOK /\ FlagTypeOK /\ RowTypeOK /\ ProcessTypeOK
  BY TypeParts
<1>1. CASE \E p \in Projects, f \in Profiles : IngestStart(i, p, f)
  <2>1. ProcessTypeOK'
    BY <1>0, <1>1 DEF ProcessTypeOK, IngestStart, IngestState
  <2>2. CreditTypeOK' /\ FlagTypeOK' /\ RowTypeOK'
    BY <1>0, <1>1 DEF IngestStart, CreditTypeOK, FlagTypeOK, RowTypeOK, creditVars,
                      tableVars, rowVars
  <2> QED BY <2>1, <2>2, TypeParts, PTL
<1>2. CASE IngestStep(i)
  <2>1. ProcessTypeOK'
    BY <1>0, <1>2 DEF ProcessTypeOK, IngestStep, IngestMatch, IngestFind, IngestReveal,
                      IngestEntry, IngestFails, IngestAwaits, IngestFrame, IngestState
  <2>2. CreditTypeOK' /\ FlagTypeOK'
    BY <1>0, <1>2 DEF IngestStep, IngestMatch, IngestFind, IngestReveal, IngestEntry,
                      IngestFails, IngestFrame, CreditTypeOK, FlagTypeOK, creditVars
  <2>3. ingest[i] \in IngestState
    BY <1>0, <1>2 DEF ProcessTypeOK, IngestStep, IngestMatch, IngestFind, IngestReveal,
                      IngestEntry, IngestFails, IngestAwaits
  <2>4. /\ ingest[i].project \in Projects /\ ingest[i].profile \in Profiles
        /\ IngestKey(i) \in MatchKeys
    BY <2>3 DEF IngestState, IngestKey, MatchKeys
  <2>5. RowTypeOK'
    <3>1. CASE IngestMatch(i)
      BY <1>0, <2>4, <3>1, TimeBounds DEF IngestMatch, IngestFrame, RowTypeOK, FlagTypeOK
    <3>2. CASE IngestReveal(i)
      <4>1. FreeReveal(ingest[i].project, ingest[i].profile) \in RevealRow
        BY <1>0, <2>4, TimeBounds, RevealAssumption DEF FreeReveal, RevealRow, FlagTypeOK
      <4>2. nextReveal \in RevealIds /\ nextReveal' \in 1..(MaxReveals + 1)
        BY <1>0, <3>2, RevealAssumption DEF IngestReveal, RevealIds
      <4> QED BY <1>0, <3>2, <4>1, <4>2 DEF IngestReveal, IngestFrame, RowTypeOK
    <3>3. CASE IngestEntry(i)
      BY <1>0, <2>4, <3>3 DEF IngestEntry, IngestFrame, RowTypeOK
    <3>4. CASE IngestFind(i) \/ IngestFails(i)
      BY <1>0, <3>4 DEF IngestFind, IngestFails, IngestFrame, RowTypeOK
    <3> QED BY <1>2, <3>1, <3>2, <3>3, <3>4 DEF IngestStep
  <2> QED BY <2>1, <2>2, <2>5, TypeParts, PTL
<1> QED BY <1>1, <1>2

\* A clean-up reads, deletes matches or deletes locks.
LEMMA TypeCleanup ==
  ASSUME RevealTypeOK, NEW c \in Cleaners, CleanupStep(c)
  PROVE  RevealTypeOK'
<1>0. /\ CreditTypeOK /\ FlagTypeOK /\ RowTypeOK /\ ProcessTypeOK
  BY TypeParts
<1>1. CreditTypeOK' /\ FlagTypeOK'
  BY <1>0 DEF CleanupStep, CleanupRead, CleanupMatches, CleanupLocks, CleanupDone,
              CreditTypeOK, FlagTypeOK, creditVars, tableVars
<1>2. CASE CleanupRead(c)
  <2>1. {<<reveals[i].project, reveals[i].profile>> : i \in {j \in RevealIds : Live(j)}}
           \subseteq MatchKeys
    BY <1>0 DEF RowTypeOK, Live, Exists, RevealRow, MatchKeys
  <2>2. ProcessTypeOK'
    BY <1>0, <1>2, <2>1 DEF CleanupRead, ProcessTypeOK, CleanupState, FlagTypeOK
  <2>3. RowTypeOK'
    BY <1>0, <1>2 DEF CleanupRead, RowTypeOK, tableVars, rowVars
  <2> QED BY <1>1, <2>2, <2>3, TypeParts, PTL
<1>3. ASSUME NEW query \in {"matches", "locks"}, CleanupDone(c, query)
      PROVE  ProcessTypeOK'
  <2>1. cleanup[c] \in CleanupState
    BY <1>0, <1>3 DEF CleanupDone, ProcessTypeOK
  <2> DEFINE rest == IF cleanup[c].todo \ {query} = {} THEN Idle
                     ELSE [cleanup[c] EXCEPT !.todo = cleanup[c].todo \ {query}]
  <2>2. rest \in CleanupState \cup {Idle}
    BY <2>1 DEF CleanupState
  <2>3. cleanup' = [cleanup EXCEPT ![c] = rest] /\ UNCHANGED <<request, ingest>>
    BY <1>3 DEF CleanupDone
  <2> HIDE DEF rest
  <2> QED BY <1>0, <2>2, <2>3 DEF ProcessTypeOK
<1>4. CASE CleanupMatches(c)
  <2>1. NoMatch \in Times
    BY RevealAssumption DEF NoMatch, Times
  <2>2. matches' \in [MatchKeys -> Times]
    BY <1>0, <1>4, <2>1 DEF CleanupMatches, RowTypeOK
  <2>3. RowTypeOK'
    BY <1>0, <1>4, <2>2 DEF CleanupMatches, CleanupDone, RowTypeOK
  <2>4. ProcessTypeOK'
    BY <1>3, <1>4 DEF CleanupMatches
  <2> QED BY <1>1, <2>3, <2>4, TypeParts, PTL
<1>5. CASE CleanupLocks(c)
  <2>1. revealLocks' \in [Profiles -> LockRow \cup {NoLock}]
    BY <1>0, <1>5 DEF CleanupLocks, RowTypeOK
  <2>2. RowTypeOK'
    BY <1>0, <1>5, <2>1 DEF CleanupLocks, CleanupDone, RowTypeOK
  <2>3. ProcessTypeOK'
    BY <1>3, <1>5 DEF CleanupLocks
  <2> QED BY <1>1, <2>2, <2>3, TypeParts, PTL
<1> QED BY <1>2, <1>4, <1>5 DEF CleanupStep

\* A lock that loses its link is still a lock.
LEMMA UnlinkType ==
  ASSUME NEW lock \in LockRow \cup {NoLock}, NEW gone
  PROVE  Unlink(lock, gone) \in LockRow \cup {NoLock}
  BY DEF Unlink, LockRow, NoId

\* Closing and reopening a project.
LEMMA TypeProject ==
  ASSUME RevealTypeOK, NEW u \in Users, NEW p \in Projects,
         CloseProject(u, p) \/ ReopenProject(u, p)
  PROVE  RevealTypeOK'
<1>0. /\ CreditTypeOK /\ FlagTypeOK /\ RowTypeOK /\ ProcessTypeOK
  BY TypeParts
<1>1. CreditTypeOK' /\ FlagTypeOK' /\ ProcessTypeOK'
  BY <1>0 DEF CloseProject, ReopenProject, CreditTypeOK, FlagTypeOK, ProcessTypeOK,
              creditVars, processVars
<1>2. CASE ReopenProject(u, p)
  <2>1. RowTypeOK'
    BY <1>0, <1>2 DEF ReopenProject, RowTypeOK, rowVars
  <2> QED BY <1>1, <2>1, TypeParts, PTL
<1>3. CASE CloseProject(u, p)
  <2>1. now \in Times
    BY <1>0, TimeBounds DEF FlagTypeOK
  <2>2. \A l \in LockRow : [l EXCEPT !.expiresAt = now] \in LockRow
    BY <2>1 DEF LockRow
  <2>3. revealLocks' \in [Profiles -> LockRow \cup {NoLock}]
    BY <1>0, <1>3, <2>2 DEF CloseProject, RowTypeOK, LinkedTo
  <2>4. ended' \subseteq RevealIds
    BY <1>0, <1>3 DEF CloseProject, RowTypeOK, RevealsOn
  <2>5. RowTypeOK'
    BY <1>0, <1>3, <2>3, <2>4 DEF CloseProject, RowTypeOK
  <2> QED BY <1>1, <2>5, TypeParts, PTL
<1> QED BY <1>2, <1>3

\* GDPR erasure.
LEMMA TypeErase ==
  ASSUME RevealTypeOK, NEW u \in Users, NEW f \in Profiles, EraseCandidate(u, f)
  PROVE  RevealTypeOK'
<1>0. /\ CreditTypeOK /\ FlagTypeOK /\ RowTypeOK /\ ProcessTypeOK
  BY TypeParts
<1>1. CreditTypeOK' /\ FlagTypeOK' /\ ProcessTypeOK'
  BY <1>0 DEF EraseCandidate, CreditTypeOK, FlagTypeOK, ProcessTypeOK, creditVars,
              processVars
<1>2. NoMatch \in Times
  BY RevealAssumption DEF NoMatch, Times
<1>3. matches' \in [MatchKeys -> Times]
  BY <1>0, <1>2 DEF EraseCandidate, RowTypeOK
<1>4. reveals' \in [RevealIds -> RevealRow \cup {NoReveal}]
  BY <1>0 DEF EraseCandidate, RowTypeOK
<1>5. revealLocks' \in [Profiles -> LockRow \cup {NoLock}]
  BY <1>0, UnlinkType DEF EraseCandidate, RowTypeOK
<1>6. RowTypeOK'
  BY <1>0, <1>3, <1>4, <1>5 DEF EraseCandidate, RowTypeOK
<1> QED BY <1>1, <1>6, TypeParts, PTL

\* Account deletion closes the credit account too.
LEMMA TypeDelete ==
  ASSUME RevealTypeOK, CreditInv, NEW u \in Users, DeleteAccount(u)
  PROVE  RevealTypeOK'
<1>0. /\ CreditTypeOK /\ FlagTypeOK /\ RowTypeOK /\ ProcessTypeOK
  BY TypeParts
<1>1. CreditTypeOK'
  BY DropInv DEF DeleteAccount, CreditInv
<1>2. FlagTypeOK' /\ ProcessTypeOK'
  BY <1>0 DEF DeleteAccount, FlagTypeOK, ProcessTypeOK, processVars
<1>3. NoMatch \in Times
  BY RevealAssumption DEF NoMatch, Times
<1>4. matches' \in [MatchKeys -> Times]
  BY <1>0, <1>3 DEF DeleteAccount, RowTypeOK
<1>5. reveals' \in [RevealIds -> RevealRow \cup {NoReveal}]
  BY <1>0 DEF DeleteAccount, RowTypeOK
<1>6. revealLocks' \in [Profiles -> LockRow \cup {NoLock}]
  BY <1>0, UnlinkType DEF DeleteAccount, LocksWithout, RowTypeOK
<1>7. RowTypeOK'
  BY <1>0, <1>4, <1>5, <1>6 DEF DeleteAccount, RowTypeOK
<1> QED BY <1>1, <1>2, <1>7, TypeParts, PTL

\* Billing flags, hydration, the clock.
LEMMA TypeEnvironment ==
  ASSUME RevealTypeOK,
         \/ \E u \in Users, s \in BillingStates : BillingChanges(u, s)
         \/ \E p \in Projects, f \in Profiles : MatchFound(p, f)
         \/ Tick
         \/ UNCHANGED vars
  PROVE  RevealTypeOK'
<1>0. /\ CreditTypeOK /\ FlagTypeOK /\ RowTypeOK /\ ProcessTypeOK
  BY TypeParts
<1>1. CreditTypeOK' /\ ProcessTypeOK'
  BY <1>0 DEF BillingChanges, MatchFound, Tick, CreditTypeOK, ProcessTypeOK, creditVars,
              processVars, vars
<1>2. FlagTypeOK'
  <2>1. CASE \E u \in Users, s \in BillingStates : BillingChanges(u, s)
    BY <1>0, <2>1 DEF BillingChanges, FlagTypeOK
  <2>2. CASE Tick
    BY <1>0, <2>2, RevealAssumption DEF Tick, FlagTypeOK
  <2>3. CASE (\E p \in Projects, f \in Profiles : MatchFound(p, f)) \/ UNCHANGED vars
    BY <1>0, <2>3 DEF MatchFound, FlagTypeOK, vars, tableVars
  <2> QED BY <2>1, <2>2, <2>3
<1>3. now + MatchTTL \in Times
  BY <1>0, TimeBounds DEF FlagTypeOK
<1>4. RowTypeOK'
  <2>1. CASE \E p \in Projects, f \in Profiles : MatchFound(p, f)
    <3>1. PICK p \in Projects, f \in Profiles : MatchFound(p, f)
      BY <2>1
    <3>2. matches' \in [MatchKeys -> Times]
      BY <1>0, <1>3, <3>1 DEF MatchFound, RowTypeOK
    <3> QED BY <1>0, <3>1, <3>2 DEF MatchFound, RowTypeOK
  <2>2. CASE \/ \E u \in Users, s \in BillingStates : BillingChanges(u, s)
             \/ Tick
             \/ UNCHANGED vars
    BY <1>0, <2>2 DEF BillingChanges, Tick, RowTypeOK, vars, tableVars, rowVars
  <2> QED BY <2>1, <2>2
<1> QED BY <1>1, <1>2, <1>4 DEF RevealTypeOK, FlagTypeOK, RowTypeOK, ProcessTypeOK

\* The initial states.
LEMMA InitType == RevealInit => RevealTypeOK
<1> SUFFICES ASSUME RevealInit PROVE RevealTypeOK
  OBVIOUS
<1>1. MatchTTL \in Times
  BY RevealAssumption DEF Times
<1>2. CreditTypeOK
  BY InitInv DEF RevealInit, CreditInv
<1>3. FlagTypeOK
  BY RevealAssumption DEF RevealInit, FlagTypeOK
<1>4. RowTypeOK
  BY <1>1, RevealAssumption DEF RevealInit, RowTypeOK
<1>5. ProcessTypeOK
  BY DEF RevealInit, ProcessTypeOK
<1> QED BY <1>2, <1>3, <1>4, <1>5, TypeParts

-----------------------------------------------------------------------------
(* The inductive invariant.                                                 *)

\* Ids from nextReveal on were never used.
FreshIds ==
  /\ \A i \in RevealIds : i >= nextReveal => reveals[i] = NoReveal
  /\ \A i \in ended : i < nextReveal

LocksBounded ==
  \A f \in Profiles : revealLocks[f] # NoLock => revealLocks[f].expiresAt <= now + TTL

LockInv ==
  RevealHoldsLock /\ LockLinksOwnReveal /\ NoStrandedLock /\ FreshIds /\ LocksBounded

CleanupPast == \A c \in Cleaners : cleanup[c] # Idle => cleanup[c].now <= now

RevealInv == RevealTypeOK /\ LedgerReconciles /\ CleanupPast /\ LockInv

-----------------------------------------------------------------------------
(* The credit accounts and the clean-up's clock.                           *)

LEMMA ReconcilesStep ==
  ASSUME RevealTypeOK, LedgerReconciles, [RevealNext]_vars
  PROVE  CreditInv'
<1>0. CreditInv /\ users \subseteq Users
  BY DEF RevealTypeOK, CreditInv, CreditTypeOK
<1>1. CASE \E q \in Requests : AcquireReveal(q)
  <2>1. PICK q \in Requests : AcquireReveal(q)
    BY <1>1
  <2>2. request[q].user \in Users
    BY <2>1 DEF AcquireReveal, Awaits, RevealTypeOK, RequestState
  <2> QED BY <1>0, <2>1, <2>2, SpendInv DEF AcquireReveal
<1>2. CASE \E u \in users : DeleteAccount(u)
  BY <1>0, <1>2, DropInv DEF DeleteAccount
<1>3. CASE UNCHANGED creditVars
  BY <1>0, <1>3, StutterInv
<1>4. (\E q \in Requests : AcquireReveal(q)) \/ (\E u \in users : DeleteAccount(u))
        \/ UNCHANGED creditVars
  BY DEF RevealNext, RequestStep, Start, CheckBilling, CheckLock, FindShared, FetchFails,
         AcquireNothing, IngestStep, IngestStart, IngestMatch, IngestFind, IngestReveal,
         IngestEntry, IngestFails, IngestFrame, CloseProject, ReopenProject,
         EraseCandidate, BillingChanges, MatchFound, CleanupStep, CleanupRead,
         CleanupMatches, CleanupLocks, CleanupDone, Tick, vars
<1> QED BY <1>1, <1>2, <1>3, <1>4

LEMMA TypeStep ==
  ASSUME RevealTypeOK, LedgerReconciles, [RevealNext]_vars
  PROVE  RevealTypeOK'
<1>0. CreditInv /\ users \subseteq Users
  BY DEF RevealTypeOK, CreditInv, CreditTypeOK
<1>1. ASSUME NEW q \in Requests,
             \/ \E u \in users, p \in Projects, f \in Profiles : Start(q, u, p, f)
             \/ RequestStep(q)
      PROVE  RevealTypeOK'
  BY <1>0, <1>1, TypeStart, TypeRequest, TypeAcquire DEF RequestStep
<1>2. ASSUME NEW i \in Ingesters,
             \/ \E p \in Projects, f \in Profiles : IngestStart(i, p, f)
             \/ IngestStep(i)
      PROVE  RevealTypeOK'
  BY <1>2, TypeIngest
<1>3. ASSUME NEW u \in users, NEW p \in Projects, CloseProject(u, p) \/ ReopenProject(u, p)
      PROVE  RevealTypeOK'
  BY <1>0, <1>3, TypeProject
<1>4. ASSUME NEW u \in users, NEW f \in Profiles, EraseCandidate(u, f)
      PROVE  RevealTypeOK'
  BY <1>0, <1>4, TypeErase
<1>5. ASSUME NEW u \in users, DeleteAccount(u)
      PROVE  RevealTypeOK'
  BY <1>0, <1>5, TypeDelete
<1>6. ASSUME NEW c \in Cleaners, CleanupStep(c)
      PROVE  RevealTypeOK'
  BY <1>6, TypeCleanup
<1>7. CASE \/ \E u \in users, s \in BillingStates : BillingChanges(u, s)
           \/ \E p \in Projects, f \in Profiles : MatchFound(p, f)
           \/ Tick
           \/ UNCHANGED vars
  BY <1>0, <1>7, TypeEnvironment
<1> QED BY <1>1, <1>2, <1>3, <1>4, <1>5, <1>6, <1>7 DEF RevealNext

\* A clean-up's cutoff was the clock once, and the clock never goes back.
LEMMA PastStep ==
  ASSUME RevealTypeOK, CleanupPast, [RevealNext]_vars
  PROVE  CleanupPast'
<1>0. now \in Nat /\ now' \in Nat /\ now <= now'
  <2>1. Tick \/ UNCHANGED now
    BY DEF RevealNext, RequestStep, Start, CheckBilling, CheckLock, FindShared, FetchFails,
           AcquireNothing, AcquireReveal, IngestStep, IngestStart, IngestMatch, IngestFind,
           IngestReveal, IngestEntry, IngestFails, IngestFrame, CloseProject,
           ReopenProject, EraseCandidate, DeleteAccount, BillingChanges, MatchFound,
           CleanupStep, CleanupRead, CleanupMatches, CleanupLocks, CleanupDone, vars,
           tableVars
  <2> QED BY <2>1, RevealAssumption DEF Tick, RevealTypeOK
<1>1. CASE \E c \in Cleaners : CleanupStep(c)
  <2>1. PICK c \in Cleaners : CleanupStep(c)
    BY <1>1
  <2>2. CASE CleanupRead(c)
    BY <1>0, <2>2 DEF CleanupRead, CleanupPast, RevealTypeOK, CleanupState
  <2>3. CASE CleanupMatches(c) \/ CleanupLocks(c)
    <3>1. PICK query : CleanupDone(c, query)
      BY <2>3 DEF CleanupMatches, CleanupLocks
    <3>2. cleanup[c] \in CleanupState
      BY <3>1 DEF CleanupDone, RevealTypeOK
    <3>3. cleanup'[c] # Idle => cleanup'[c].now = cleanup[c].now
      BY <3>1, <3>2 DEF CleanupDone, CleanupState, RevealTypeOK
    <3> QED BY <1>0, <3>1, <3>2, <3>3
            DEF CleanupDone, CleanupPast, RevealTypeOK, CleanupState
  <2> QED BY <2>1, <2>2, <2>3 DEF CleanupStep
<1>2. CASE UNCHANGED cleanup
  BY <1>0, <1>2 DEF CleanupPast, RevealTypeOK, CleanupState
<1>3. (\E c \in Cleaners : CleanupStep(c)) \/ UNCHANGED cleanup
  BY DEF RevealNext, RequestStep, Start, CheckBilling, CheckLock, FindShared, FetchFails,
         AcquireNothing, AcquireReveal, Answer, Proceed, IngestStep, IngestStart,
         IngestMatch, IngestFind, IngestReveal, IngestEntry, IngestFails, IngestFrame,
         CloseProject, ReopenProject, EraseCandidate, DeleteAccount, BillingChanges,
         MatchFound, Tick, vars, processVars
<1> QED BY <1>1, <1>2, <1>3

-----------------------------------------------------------------------------
(* Reveals and locks.                                                      *)

\* A request, an ingest or a clean-up that only reads, and everything that
\* happens to matches, projects and billing flags.
LEMMA LockFrame ==
  ASSUME LockInv, UNCHANGED <<users, now, reveals, nextReveal, revealLocks, ended>>
  PROVE  LockInv'
  BY DEF LockInv, RevealHoldsLock, LockLinksOwnReveal, NoStrandedLock, FreshIds,
         LocksBounded, InForce, Live, Exists, LinkedTo

LEMMA LockTick ==
  ASSUME RevealTypeOK, LockInv, Tick
  PROVE  LockInv'
<1>1. now' = now + 1 /\ now \in Nat
      /\ UNCHANGED <<users, reveals, nextReveal, revealLocks, ended>>
  BY RevealAssumption DEF Tick, RevealTypeOK, creditVars, rowVars
<1>2. \A i \in RevealIds : InForce(i)' => InForce(i)
  BY <1>1 DEF InForce, Live, Exists, RevealTypeOK, RevealRow, Times
<1>3. RevealHoldsLock'
  BY <1>1, <1>2 DEF LockInv, RevealHoldsLock
<1>4. (LockLinksOwnReveal /\ NoStrandedLock /\ FreshIds)'
  BY <1>1 DEF LockInv, LockLinksOwnReveal, NoStrandedLock, FreshIds, Exists, LinkedTo
<1>5. LocksBounded'
  BY <1>1, RevealAssumption DEF LockInv, LocksBounded, RevealTypeOK, LockRow, Times
<1> QED BY <1>3, <1>4, <1>5 DEF LockInv

\* A free reveal has a fresh id and no lock.
LEMMA LockIngest ==
  ASSUME RevealTypeOK, LockInv, NEW k \in Ingesters, IngestReveal(k)
  PROVE  LockInv'
<1> DEFINE row == FreeReveal(ingest[k].project, ingest[k].profile)
<1>1. /\ nextReveal \in RevealIds
      /\ reveals' = [reveals EXCEPT ![nextReveal] = row]
      /\ nextReveal' = nextReveal + 1
      /\ UNCHANGED <<users, now, revealLocks, ended>>
  BY DEF IngestReveal, IngestFrame, creditVars
<1>2. row.paid = FALSE
  BY DEF FreeReveal
<1>3. \A i \in RevealIds : i # nextReveal => reveals'[i] = reveals[i]
  BY <1>1 DEF RevealTypeOK
<1>4. reveals'[nextReveal] = row
  BY <1>1 DEF RevealTypeOK
<1> HIDE DEF row
<1>5. \A i \in RevealIds : InForce(i)' => InForce(i) /\ i # nextReveal
  BY <1>1, <1>2, <1>3, <1>4 DEF InForce, Live, Exists
<1>6. RevealHoldsLock'
  BY <1>1, <1>3, <1>5 DEF LockInv, RevealHoldsLock
<1>7. LockLinksOwnReveal'
  <2> SUFFICES ASSUME NEW f \in Profiles, LinkedTo(f, RevealIds)
               PROVE  LET i == revealLocks[f].revealId
                      IN  /\ Exists(i)' /\ reveals'[i].paid
                          /\ reveals'[i].user = revealLocks[f].user
                          /\ reveals'[i].profile = f
    BY <1>1 DEF LockLinksOwnReveal, LinkedTo
  <2>1. revealLocks[f].revealId \in RevealIds /\ Exists(revealLocks[f].revealId)
    BY DEF LinkedTo, LockInv, LockLinksOwnReveal
  <2>2. revealLocks[f].revealId # nextReveal
    BY <1>1, <2>1 DEF LockInv, FreshIds, Exists, RevealIds
  <2> QED BY <1>1, <1>3, <2>1, <2>2 DEF LockInv, LockLinksOwnReveal, Exists
<1>8. NoStrandedLock' /\ LocksBounded'
  BY <1>1 DEF LockInv, NoStrandedLock, LocksBounded
<1>9. FreshIds'
  BY <1>1, <1>3 DEF LockInv, FreshIds, RevealIds, RevealTypeOK
<1> QED BY <1>6, <1>7, <1>8, <1>9 DEF LockInv

\* The acquire transaction: the profile had no reveal in force, gets one, and
\* the lock says exactly that.
LEMMA LockAcquire ==
  ASSUME RevealTypeOK, LockInv, NEW q \in Requests, AcquireReveal(q)
  PROVE  LockInv'
<1> DEFINE u == request[q].user
           f == request[q].profile
           row == [project |-> request[q].project, user |-> u, profile |-> f,
                   expiresAt |-> now + TTL, paid |-> TRUE]
           lock == [user |-> u, revealId |-> nextReveal, expiresAt |-> now + TTL]
<1>1. u \in Users /\ f \in Profiles
  BY DEF AcquireReveal, Awaits, RevealTypeOK, RequestState
<1>2. /\ nextReveal \in RevealIds
      /\ reveals' = [reveals EXCEPT ![nextReveal] = row]
      /\ nextReveal' = nextReveal + 1
      /\ revealLocks' = [revealLocks EXCEPT ![f] = lock]
      /\ UNCHANGED <<users, now, ended>>
      /\ u \in users
      /\ Claimable(u, f)
  BY DEF AcquireReveal, NewLock, SpendCreditOn, CanSpend
<1>3. /\ row.user = u /\ row.profile = f /\ row.expiresAt = now + TTL /\ row.paid = TRUE
      /\ row # NoReveal
  <2>1. row \in RevealRow
    BY <1>1, TimeBounds DEF AcquireReveal, Awaits, RevealTypeOK, RequestState, RevealRow
  <2> QED BY <2>1, RowAssumption
<1>4. /\ lock.user = u /\ lock.revealId = nextReveal /\ lock.expiresAt = now + TTL
      /\ lock # NoLock
  <2>1. lock \in LockRow
    BY <1>1, <1>2, TimeBounds DEF RevealTypeOK, LockRow
  <2> QED BY <2>1, RowAssumption
<1> HIDE DEF row, lock, u, f
<1>5. /\ \A i \in RevealIds : i # nextReveal => reveals'[i] = reveals[i]
      /\ reveals'[nextReveal] = row
      /\ \A g \in Profiles : g # f => revealLocks'[g] = revealLocks[g]
      /\ revealLocks'[f] = lock
  BY <1>1, <1>2 DEF RevealTypeOK
<1>6. \A i \in RevealIds : InForce(i) => reveals[i].profile # f
  <2> SUFFICES ASSUME NEW i \in RevealIds, InForce(i), reveals[i].profile = f
               PROVE  FALSE
    OBVIOUS
  <2>1. revealLocks[f] = [user |-> reveals[i].user, revealId |-> i,
                          expiresAt |-> reveals[i].expiresAt]
    BY DEF LockInv, RevealHoldsLock
  <2>2. revealLocks[f] # NoLock
    <3>1. [user |-> reveals[i].user, revealId |-> i, expiresAt |-> reveals[i].expiresAt]
            \in LockRow
      BY DEF InForce, Live, Exists, RevealTypeOK, RevealRow, LockRow
    <3> QED BY <2>1, <3>1, RowAssumption
  <2>3. ActiveLock(f) /\ Exists(revealLocks[f].revealId)
    BY <2>1, <2>2 DEF ActiveLock, InForce, Live
  <2> QED BY <1>2, <2>3 DEF Claimable, HeldBy, OwnsReveal
<1>7. RevealHoldsLock'
  <2> SUFFICES ASSUME NEW i \in RevealIds, InForce(i)'
               PROVE  revealLocks'[reveals'[i].profile] =
                        [user |-> reveals'[i].user, revealId |-> i,
                         expiresAt |-> reveals'[i].expiresAt]
    BY DEF RevealHoldsLock
  <2>1. CASE i = nextReveal
    BY <1>3, <1>5, <2>1 DEF lock, row
  <2>2. CASE i # nextReveal
    <3>1. InForce(i)
      BY <1>2, <1>5, <2>2 DEF InForce, Live, Exists
    <3>2. reveals[i].profile \in Profiles \ {f}
      BY <1>6, <3>1 DEF InForce, Live, Exists, RevealTypeOK, RevealRow
    <3> QED BY <1>5, <2>2, <3>1, <3>2 DEF LockInv, RevealHoldsLock
  <2> QED BY <2>1, <2>2
<1>8. LockLinksOwnReveal'
  <2> SUFFICES ASSUME NEW g \in Profiles, LinkedTo(g, RevealIds)'
               PROVE  /\ reveals'[revealLocks'[g].revealId] # NoReveal
                      /\ reveals'[revealLocks'[g].revealId].paid
                      /\ reveals'[revealLocks'[g].revealId].user = revealLocks'[g].user
                      /\ reveals'[revealLocks'[g].revealId].profile = g
    BY DEF LockLinksOwnReveal, LinkedTo, Exists
  <2>1. CASE g = f
    BY <1>3, <1>4, <1>5, <2>1
  <2>2. CASE g # f
    <3>1. LinkedTo(g, RevealIds) /\ revealLocks'[g] = revealLocks[g]
      BY <1>5, <2>2 DEF LinkedTo
    <3>2. Exists(revealLocks[g].revealId)
      BY <3>1 DEF LockInv, LockLinksOwnReveal
    <3>3. revealLocks[g].revealId # nextReveal
      BY <1>2, <3>2 DEF LockInv, FreshIds, Exists, RevealIds
    <3> QED BY <1>5, <3>1, <3>2, <3>3 DEF LockInv, LockLinksOwnReveal, Exists
  <2> QED BY <2>1, <2>2
<1>9. NoStrandedLock' /\ LocksBounded'
  BY <1>2, <1>4, <1>5, RevealAssumption
     DEF LockInv, NoStrandedLock, LocksBounded, RevealTypeOK
<1>10. FreshIds'
  BY <1>2, <1>5 DEF LockInv, FreshIds, RevealIds, RevealTypeOK
<1> QED BY <1>7, <1>8, <1>9, <1>10 DEF LockInv

\* Closing a project ends the reveals whose locks it expires.
LEMMA LockClose ==
  ASSUME RevealTypeOK, LockInv, NEW u, NEW p \in Projects, CloseProject(u, p)
  PROVE  LockInv'
<1>1. /\ UNCHANGED <<users, now, reveals, nextReveal>>
      /\ ended' = ended \cup {i \in RevealsOn(p) : \E f \in Profiles : LinkedTo(f, {i})}
      /\ \A f \in Profiles :
           revealLocks'[f] = IF LinkedTo(f, RevealsOn(p))
                             THEN [revealLocks[f] EXCEPT !.expiresAt = now]
                             ELSE revealLocks[f]
  BY DEF CloseProject, creditVars
<1>2. \A f \in Profiles : revealLocks'[f] # NoLock =>
        /\ revealLocks[f] # NoLock
        /\ revealLocks'[f].user = revealLocks[f].user
        /\ revealLocks'[f].revealId = revealLocks[f].revealId
        /\ revealLocks'[f].expiresAt = now \/ revealLocks'[f] = revealLocks[f]
  BY <1>1 DEF LinkedTo, RevealTypeOK, LockRow
<1>3. RevealHoldsLock'
  <2> SUFFICES ASSUME NEW i \in RevealIds, InForce(i)'
               PROVE  revealLocks'[reveals[i].profile] =
                        [user |-> reveals[i].user, revealId |-> i,
                         expiresAt |-> reveals[i].expiresAt]
    BY <1>1 DEF RevealHoldsLock
  <2>1. InForce(i) /\ i \notin ended' /\ Exists(i)
    BY <1>1 DEF InForce, Live, Exists
  <2>2. reveals[i] \in RevealRow /\ reveals[i].profile \in Profiles
    BY <2>1 DEF Exists, RevealTypeOK, RevealRow
  <2> DEFINE f == reveals[i].profile
  <2>3. revealLocks[f] = [user |-> reveals[i].user, revealId |-> i,
                          expiresAt |-> reveals[i].expiresAt]
    BY <2>1 DEF LockInv, RevealHoldsLock
  <2>4. revealLocks[f] # NoLock
    <3>1. [user |-> reveals[i].user, revealId |-> i, expiresAt |-> reveals[i].expiresAt]
            \in LockRow
      BY <2>2 DEF RevealRow, LockRow
    <3> QED BY <2>3, <3>1, RowAssumption
  <2>5. ~ LinkedTo(f, RevealsOn(p))
    BY <1>1, <2>1, <2>2, <2>3, <2>4 DEF LinkedTo
  <2> QED BY <1>1, <2>2, <2>3, <2>5
<1>4. LockLinksOwnReveal' /\ NoStrandedLock'
  BY <1>1, <1>2 DEF LockInv, LockLinksOwnReveal, NoStrandedLock, LinkedTo, Exists
<1>5. LocksBounded'
  BY <1>1, <1>2, RevealAssumption DEF LockInv, LocksBounded, RevealTypeOK
<1>6. FreshIds'
  BY <1>1 DEF LockInv, FreshIds, RevealsOn, Exists, RevealTypeOK, RevealIds
<1> QED BY <1>3, <1>4, <1>5, <1>6 DEF LockInv

\* Reveal rows are deleted. A lock that is deleted with them belongs to a user
\* none of whose reveals stays; every other lock loses its link at most.
LEMMA LockDropReveals ==
  ASSUME RevealTypeOK, LockInv, NEW gone,
         UNCHANGED <<now, nextReveal, ended>>,
         reveals' = [i \in RevealIds |-> IF i \in gone THEN NoReveal ELSE reveals[i]],
         \A f \in Profiles :
           \/ revealLocks'[f] = Unlink(revealLocks[f], gone)
           \/ /\ revealLocks'[f] = NoLock
              /\ \A i \in RevealIds :
                   Exists(i) /\ reveals[i].user = revealLocks[f].user => i \in gone,
         \A f \in Profiles : revealLocks'[f] # NoLock => revealLocks'[f].user \in users'
  PROVE  LockInv'
<1>1. \A i \in RevealIds : /\ i \in gone => ~ Exists(i)'
                           /\ i \notin gone => reveals'[i] = reveals[i]
  BY DEF Exists
<1>2. \A f \in Profiles : revealLocks'[f] # NoLock =>
        /\ revealLocks[f] # NoLock
        /\ revealLocks'[f].user = revealLocks[f].user
        /\ revealLocks'[f].expiresAt = revealLocks[f].expiresAt
        /\ revealLocks'[f].revealId \in RevealIds =>
             /\ revealLocks'[f].revealId = revealLocks[f].revealId
             /\ revealLocks[f].revealId \notin gone
  <2> SUFFICES ASSUME NEW f \in Profiles, revealLocks'[f] # NoLock
               PROVE  /\ revealLocks[f] # NoLock
                      /\ revealLocks'[f].user = revealLocks[f].user
                      /\ revealLocks'[f].expiresAt = revealLocks[f].expiresAt
                      /\ revealLocks'[f].revealId \in RevealIds =>
                           /\ revealLocks'[f].revealId = revealLocks[f].revealId
                           /\ revealLocks[f].revealId \notin gone
    OBVIOUS
  <2>1. revealLocks'[f] = Unlink(revealLocks[f], gone)
    OBVIOUS
  <2>2. revealLocks[f] # NoLock
    BY <2>1 DEF Unlink
  <2>3. revealLocks[f] \in LockRow
    BY <2>2 DEF RevealTypeOK
  <2>4. CASE revealLocks[f].revealId \in gone
    <3>1. revealLocks'[f] = [revealLocks[f] EXCEPT !.revealId = NoId]
      BY <2>1, <2>2, <2>4 DEF Unlink
    <3>2. revealLocks'[f].revealId \notin RevealIds
      BY <2>3, <3>1 DEF LockRow, NoId, RevealIds
    <3> QED BY <2>2, <2>3, <3>1, <3>2 DEF LockRow
  <2>5. CASE revealLocks[f].revealId \notin gone
    BY <2>1, <2>2, <2>5 DEF Unlink
  <2> QED BY <2>4, <2>5
<1>3. RevealHoldsLock'
  <2> SUFFICES ASSUME NEW i \in RevealIds, InForce(i)'
               PROVE  revealLocks'[reveals'[i].profile] =
                        [user |-> reveals'[i].user, revealId |-> i,
                         expiresAt |-> reveals'[i].expiresAt]
    BY DEF RevealHoldsLock
  <2>1. i \notin gone /\ reveals'[i] = reveals[i] /\ Exists(i)'
    BY <1>1 DEF InForce, Live
  <2>2. InForce(i) /\ Exists(i)
    BY <2>1 DEF InForce, Live, Exists
  <2>3. reveals[i] \in RevealRow /\ reveals[i].profile \in Profiles
    BY <2>2 DEF Exists, RevealTypeOK, RevealRow
  <2> DEFINE f == reveals[i].profile
  <2>4. revealLocks[f] = [user |-> reveals[i].user, revealId |-> i,
                          expiresAt |-> reveals[i].expiresAt]
    BY <2>2 DEF LockInv, RevealHoldsLock
  <2>5. revealLocks'[f] = Unlink(revealLocks[f], gone)
    BY <2>1, <2>2, <2>3, <2>4
  <2>6. Unlink(revealLocks[f], gone) = revealLocks[f]
    BY <2>1, <2>4 DEF Unlink
  <2> QED BY <2>1, <2>4, <2>5, <2>6
<1>4. LockLinksOwnReveal'
  <2> SUFFICES ASSUME NEW f \in Profiles, LinkedTo(f, RevealIds)'
               PROVE  /\ reveals'[revealLocks'[f].revealId] # NoReveal
                      /\ reveals'[revealLocks'[f].revealId].paid
                      /\ reveals'[revealLocks'[f].revealId].user = revealLocks'[f].user
                      /\ reveals'[revealLocks'[f].revealId].profile = f
    BY DEF LockLinksOwnReveal, LinkedTo, Exists
  <2>1. /\ revealLocks'[f] # NoLock
        /\ revealLocks'[f].revealId \in RevealIds
    BY DEF LinkedTo
  <2>2. /\ LinkedTo(f, RevealIds)
        /\ revealLocks'[f].revealId = revealLocks[f].revealId
        /\ reveals'[revealLocks[f].revealId] = reveals[revealLocks[f].revealId]
    BY <1>1, <1>2, <2>1 DEF LinkedTo
  <2> QED BY <1>2, <2>1, <2>2 DEF LockInv, LockLinksOwnReveal, Exists
<1>5. NoStrandedLock'
  BY DEF NoStrandedLock
<1>6. LocksBounded'
  BY <1>2 DEF LockInv, LocksBounded
<1>7. FreshIds'
  BY DEF LockInv, FreshIds
<1> QED BY <1>3, <1>4, <1>5, <1>6, <1>7 DEF LockInv

LEMMA LockDelete ==
  ASSUME RevealTypeOK, LockInv, NEW u \in Users, DeleteAccount(u)
  PROVE  LockInv'
<1> DEFINE gone == {i \in RevealIds : Exists(i) /\ (\/ reveals[i].user = u
                                                    \/ reveals[i].project \in
                                                         {p \in Projects : Owner[p] = u})}
<1>1. /\ UNCHANGED <<now, nextReveal, ended>>
      /\ users' = users \ {u}
      /\ reveals' = [i \in RevealIds |-> IF i \in gone THEN NoReveal ELSE reveals[i]]
      /\ revealLocks' = [f \in Profiles |->
           IF revealLocks[f] # NoLock /\ revealLocks[f].user = u THEN NoLock
           ELSE Unlink(revealLocks[f], gone)]
  BY DEF DeleteAccount, DropAccount, LocksWithout
<1>2. \A i \in RevealIds : Exists(i) /\ reveals[i].user = u => i \in gone
  OBVIOUS
<1> HIDE DEF gone
<1>3. \A f \in Profiles : revealLocks'[f] # NoLock => revealLocks'[f].user \in users'
  BY <1>1 DEF Unlink, LockInv, NoStrandedLock, RevealTypeOK, LockRow
<1>4. \A f \in Profiles :
        \/ revealLocks'[f] = Unlink(revealLocks[f], gone)
        \/ /\ revealLocks'[f] = NoLock
           /\ \A i \in RevealIds :
                Exists(i) /\ reveals[i].user = revealLocks[f].user => i \in gone
  BY <1>1, <1>2
<1> QED BY <1>1, <1>3, <1>4, LockDropReveals

LEMMA LockErase ==
  ASSUME RevealTypeOK, LockInv, NEW u \in Users, NEW g \in Profiles, EraseCandidate(u, g)
  PROVE  LockInv'
<1> DEFINE gone == {i \in RevealIds : /\ Exists(i) /\ reveals[i].profile = g
                                      /\ reveals[i].project \in
                                           {p \in Projects : CanAccess(u, p)}}
<1>1. /\ UNCHANGED <<users, now, nextReveal, ended>>
      /\ reveals' = [i \in RevealIds |-> IF i \in gone THEN NoReveal ELSE reveals[i]]
      /\ revealLocks' = [f \in Profiles |-> Unlink(revealLocks[f], gone)]
  BY DEF EraseCandidate, creditVars
<1> HIDE DEF gone
<1>2. \A f \in Profiles : revealLocks'[f] # NoLock => revealLocks'[f].user \in users'
  BY <1>1 DEF Unlink, LockInv, NoStrandedLock, RevealTypeOK, LockRow
<1> QED BY <1>1, <1>2, LockDropReveals

\* The clean-up deletes locks that were over before it started.
LEMMA LockCleanup ==
  ASSUME RevealTypeOK, LockInv, CleanupPast, NEW c \in Cleaners, CleanupLocks(c)
  PROVE  LockInv'
<1>1. /\ UNCHANGED <<users, now, reveals, nextReveal, ended>>
      /\ \A f \in Profiles : \/ revealLocks'[f] = revealLocks[f]
                             \/ /\ revealLocks'[f] = NoLock
                                /\ revealLocks[f] # NoLock
                                /\ revealLocks[f].expiresAt < cleanup[c].now - Grace
  BY DEF CleanupLocks, CleanupDone, creditVars
<1>2. cleanup[c].now \in Nat /\ cleanup[c].now <= now /\ Grace \in Nat /\ now \in Nat
  BY RevealAssumption
     DEF CleanupLocks, CleanupDone, CleanupPast, RevealTypeOK, CleanupState
<1>3. RevealHoldsLock'
  <2> SUFFICES ASSUME NEW i \in RevealIds, InForce(i)'
               PROVE  revealLocks'[reveals[i].profile] =
                        [user |-> reveals[i].user, revealId |-> i,
                         expiresAt |-> reveals[i].expiresAt]
    BY <1>1 DEF RevealHoldsLock
  <2>1. InForce(i)
    BY <1>1 DEF InForce, Live, Exists
  <2>2. /\ reveals[i].profile \in Profiles /\ reveals[i].expiresAt \in Nat
        /\ reveals[i].expiresAt > now
    BY <2>1, RevealAssumption DEF InForce, Live, Exists, RevealTypeOK, RevealRow, Times
  <2>3. revealLocks[reveals[i].profile] =
          [user |-> reveals[i].user, revealId |-> i, expiresAt |-> reveals[i].expiresAt]
    BY <2>1 DEF LockInv, RevealHoldsLock
  <2> QED BY <1>1, <1>2, <2>2, <2>3
<1>4. (LockLinksOwnReveal /\ NoStrandedLock /\ LocksBounded /\ FreshIds)'
  BY <1>1 DEF LockInv, LockLinksOwnReveal, NoStrandedLock, LocksBounded, FreshIds, LinkedTo,
              Exists
<1> QED BY <1>3, <1>4 DEF LockInv

lockVars == <<users, now, reveals, nextReveal, revealLocks, ended>>

\* Only these actions touch what the reveals and locks are about.
LEMMA LockActions ==
  ASSUME [RevealNext]_vars
  PROVE  \/ \E q \in Requests : AcquireReveal(q)
         \/ \E i \in Ingesters : IngestReveal(i)
         \/ \E u \in users, p \in Projects : CloseProject(u, p)
         \/ \E u \in users, f \in Profiles : EraseCandidate(u, f)
         \/ \E u \in users : DeleteAccount(u)
         \/ \E c \in Cleaners : CleanupLocks(c)
         \/ Tick
         \/ UNCHANGED lockVars
<1>1. CASE \E q \in Requests : RequestStep(q)
  BY <1>1 DEF RequestStep, CheckBilling, CheckLock, FindShared, FetchFails, AcquireNothing,
              lockVars, creditVars, tableVars, rowVars
<1>2. CASE \E q \in Requests, u \in users, p \in Projects, f \in Profiles :
             Start(q, u, p, f)
  BY <1>2 DEF Start, lockVars, creditVars, tableVars, rowVars
<1>3. CASE \E i \in Ingesters, p \in Projects, f \in Profiles : IngestStart(i, p, f)
  BY <1>3 DEF IngestStart, lockVars, creditVars, tableVars, rowVars
<1>4. CASE \E i \in Ingesters : IngestStep(i)
  BY <1>4 DEF IngestStep, IngestMatch, IngestFind, IngestEntry, IngestFails, IngestFrame,
              lockVars, creditVars
<1>5. CASE \E u \in users, p \in Projects : CloseProject(u, p) \/ ReopenProject(u, p)
  BY <1>5 DEF ReopenProject, lockVars, creditVars, rowVars
<1>6. CASE \/ \E u \in users, s \in BillingStates : BillingChanges(u, s)
           \/ \E p \in Projects, f \in Profiles : MatchFound(p, f)
  BY <1>6 DEF BillingChanges, MatchFound, lockVars, creditVars, rowVars
<1>7. CASE \E c \in Cleaners : CleanupStep(c)
  BY <1>7 DEF CleanupStep, CleanupRead, CleanupMatches, CleanupDone, lockVars, creditVars,
              tableVars, rowVars
<1>8. CASE UNCHANGED vars
  BY <1>8 DEF vars, lockVars, creditVars, tableVars, rowVars
<1> QED BY <1>1, <1>2, <1>3, <1>4, <1>5, <1>6, <1>7, <1>8 DEF RevealNext

LEMMA LockStep ==
  ASSUME RevealInv, [RevealNext]_vars
  PROVE  LockInv'
<1>0. RevealTypeOK /\ LockInv /\ CleanupPast /\ users \subseteq Users
  BY DEF RevealInv, RevealTypeOK, CreditTypeOK
<1>1. CASE UNCHANGED lockVars
  BY <1>0, <1>1, LockFrame DEF lockVars
<1> QED BY <1>0, <1>1, LockActions, LockAcquire, LockIngest, LockClose, LockErase,
           LockDelete, LockCleanup, LockTick

LEMMA InitRevealInv == RevealInit => RevealInv
<1> SUFFICES ASSUME RevealInit PROVE RevealInv
  OBVIOUS
<1>1. RevealTypeOK /\ LedgerReconciles
  BY InitType, InitInv DEF RevealInit, CreditInv
<1>2. CleanupPast
  BY DEF RevealInit, CleanupPast
<1>3. LockInv
  BY DEF RevealInit, LockInv, RevealHoldsLock, LockLinksOwnReveal, NoStrandedLock, FreshIds,
         LocksBounded, InForce, Live, Exists, LinkedTo
<1> QED BY <1>1, <1>2, <1>3 DEF RevealInv

LEMMA RevealInvStep == RevealInv /\ [RevealNext]_vars => RevealInv'
<1> SUFFICES ASSUME RevealInv, [RevealNext]_vars PROVE RevealInv'
  OBVIOUS
<1> QED BY ReconcilesStep, TypeStep, PastStep, LockStep DEF RevealInv, CreditInv

\* The strengthened invariant, from which everything below follows.
THEOREM RevealInvariant == RevealSpec => []RevealInv
  BY InitRevealInv, RevealInvStep, PTL DEF RevealSpec

-----------------------------------------------------------------------------
(* What follows.                                                           *)

\* Every table and every local variable of a request stays well formed; no
\* bucket of a recruiter goes below zero however many requests run.
THEOREM RevealTypeCorrect == RevealSpec => []RevealTypeOK
<1>1. RevealInv => RevealTypeOK
  BY DEF RevealInv
<1> QED BY RevealInvariant, <1>1, PTL

\* Reveals, account deletions and nothing else change an account here, and the
\* ledger explains its balance throughout.
THEOREM RevealReconciles == RevealSpec => []LedgerReconciles
<1>1. RevealInv => LedgerReconciles
  BY DEF RevealInv
<1> QED BY RevealInvariant, <1>1, PTL

\* A paid reveal in force is reachable through its lock until it expires.
THEOREM RevealAlwaysHoldsLock == RevealSpec => []RevealHoldsLock
<1>1. RevealInv => RevealHoldsLock
  BY DEF RevealInv, LockInv
<1> QED BY RevealInvariant, <1>1, PTL

\* A lock only ever leads its holder to a reveal the holder bought.
THEOREM LocksLinkOwnReveals == RevealSpec => []LockLinksOwnReveal
<1>1. RevealInv => LockLinksOwnReveal
  BY DEF RevealInv, LockInv
<1> QED BY RevealInvariant, <1>1, PTL

\* No lock outlives its holder's account.
THEOREM NoLockStranded == RevealSpec => []NoStrandedLock
<1>1. RevealInv => NoStrandedLock
  BY DEF RevealInv, LockInv
<1> QED BY RevealInvariant, <1>1, PTL

\* Two paid reveals of a talent of a pool are never in force together: both
\* would be the one its single lock row points to.
THEOREM AlwaysSoldOnce == RevealSpec => []SoldOnce
<1>1. RevealInv => SoldOnce
  <2> SUFFICES ASSUME RevealInv,
                      NEW i \in RevealIds, NEW j \in RevealIds, InForce(i), InForce(j),
                      reveals[i].profile = reveals[j].profile
               PROVE  i = j
    BY DEF SoldOnce
  <2>1. [user |-> reveals[i].user, revealId |-> i, expiresAt |-> reveals[i].expiresAt]
          = [user |-> reveals[j].user, revealId |-> j, expiresAt |-> reveals[j].expiresAt]
    BY DEF RevealInv, LockInv, RevealHoldsLock
  <2> QED BY <2>1
<1> QED BY RevealInvariant, <1>1, PTL

-----------------------------------------------------------------------------
(* What a step does to the locks in force.                                 *)

\* The step of LockIsKept.
KeepsLocks ==
  \A f \in Profiles : ActiveLock(f) =>
    LET l == revealLocks[f]
    IN  \/ l.user \notin users'
        \/ revealLocks'[f] # NoLock /\ revealLocks'[f].user = l.user
           /\ \/ revealLocks'[f].expiresAt >= l.expiresAt
              \/ l.revealId \in ended'

\* A row that keeps its user and its expiry is kept.
LEMMA KeptFrame ==
  ASSUME RevealTypeOK,
         \A f \in Profiles : ActiveLock(f) =>
           \/ revealLocks[f].user \notin users'
           \/ /\ revealLocks'[f] # NoLock
              /\ revealLocks'[f].user = revealLocks[f].user
              /\ revealLocks'[f].expiresAt = revealLocks[f].expiresAt
  PROVE  KeepsLocks
<1> SUFFICES ASSUME NEW f \in Profiles, ActiveLock(f),
                    revealLocks[f].user \in users'
             PROVE  /\ revealLocks'[f] # NoLock
                    /\ revealLocks'[f].user = revealLocks[f].user
                    /\ revealLocks'[f].expiresAt >= revealLocks[f].expiresAt
  BY DEF KeepsLocks
<1>1. revealLocks[f].expiresAt \in Int
  BY RevealAssumption DEF ActiveLock, RevealTypeOK, LockRow, Times
<1> QED BY <1>1

\* An unlinked lock keeps its user and its expiry.
LEMMA UnlinkKeeps ==
  ASSUME NEW lock \in LockRow, NEW gone
  PROVE  /\ Unlink(lock, gone) # NoLock
         /\ Unlink(lock, gone).user = lock.user
         /\ Unlink(lock, gone).expiresAt = lock.expiresAt
<1>1. lock # NoLock
  BY RowAssumption
<1>2. CASE lock.revealId \in gone
  <2>1. Unlink(lock, gone) = [lock EXCEPT !.revealId = NoId]
    BY <1>1, <1>2 DEF Unlink
  <2>2. [lock EXCEPT !.revealId = NoId] \in LockRow
    BY DEF LockRow, NoId
  <2> QED BY <2>1, <2>2, RowAssumption DEF LockRow
<1>3. CASE lock.revealId \notin gone
  BY <1>1, <1>3 DEF Unlink
<1> QED BY <1>2, <1>3

LEMMA KeptStep ==
  ASSUME RevealInv, RevealNext
  PROVE  KeepsLocks
<1>0. RevealTypeOK /\ LockInv /\ CleanupPast
  BY DEF RevealInv
<1>1. \A f \in Profiles : revealLocks[f] # NoLock => revealLocks[f] \in LockRow
  BY <1>0 DEF RevealTypeOK
<1>2. ASSUME NEW q \in Requests, AcquireReveal(q)
      PROVE  KeepsLocks
  <2> DEFINE u == request[q].user
             g == request[q].profile
             lock == [user |-> u, revealId |-> nextReveal, expiresAt |-> now + TTL]
  <2>1. /\ Claimable(u, g) /\ UNCHANGED now
        /\ revealLocks' = [revealLocks EXCEPT ![g] = lock]
    BY <1>2 DEF AcquireReveal, NewLock
  <2>2. g \in Profiles /\ lock \in LockRow
    BY <1>0, <1>2, TimeBounds
       DEF AcquireReveal, Awaits, RevealTypeOK, RequestState, LockRow
  <2>3. lock.user = u /\ lock.expiresAt = now + TTL /\ lock # NoLock
    BY <2>2, RowAssumption
  <2> HIDE DEF lock, u, g
  <2>4. ASSUME NEW f \in Profiles, ActiveLock(f)
        PROVE  /\ revealLocks'[f] # NoLock /\ revealLocks'[f].user = revealLocks[f].user
               /\ revealLocks'[f].expiresAt >= revealLocks[f].expiresAt
    <3>1. revealLocks[f].expiresAt <= now + TTL /\ revealLocks[f].expiresAt \in Int
      BY <1>0, <2>4, RevealAssumption
         DEF LockInv, LocksBounded, ActiveLock, RevealTypeOK, LockRow, Times
    <3>2. CASE f = g
      <4>1. revealLocks'[f] = lock
        BY <1>0, <2>1, <2>2, <3>2 DEF RevealTypeOK
      <4>2. revealLocks[f].user = u
        BY <2>1, <2>4, <3>2 DEF Claimable, HeldBy
      <4> QED BY <2>3, <3>1, <4>1, <4>2, RevealAssumption
    <3>3. CASE f # g
      <4>1. revealLocks'[f] = revealLocks[f]
        BY <1>0, <2>1, <3>3 DEF RevealTypeOK
      <4> QED BY <2>4, <3>1, <4>1 DEF ActiveLock
    <3> QED BY <3>2, <3>3
  <2> QED BY <2>4 DEF KeepsLocks
<1>3. ASSUME NEW u, NEW p \in Projects, CloseProject(u, p)
      PROVE  KeepsLocks
  <2> SUFFICES ASSUME NEW f \in Profiles, ActiveLock(f)
               PROVE  /\ revealLocks'[f] # NoLock
                      /\ revealLocks'[f].user = revealLocks[f].user
                      /\ \/ revealLocks'[f].expiresAt >= revealLocks[f].expiresAt
                         \/ revealLocks[f].revealId \in ended'
    BY DEF KeepsLocks
  <2>1. revealLocks[f] \in LockRow /\ revealLocks[f].expiresAt \in Int
    BY <1>1, RevealAssumption DEF ActiveLock, LockRow, Times
  <2>2. CASE LinkedTo(f, RevealsOn(p))
    <3>1. revealLocks'[f] = [revealLocks[f] EXCEPT !.expiresAt = now]
      BY <1>3, <2>2 DEF CloseProject
    <3>2. now \in Times
      BY <1>0, TimeBounds DEF RevealTypeOK
    <3>3. revealLocks'[f] \in LockRow /\ revealLocks'[f].user = revealLocks[f].user
      BY <2>1, <3>1, <3>2 DEF LockRow
    <3>4. revealLocks[f].revealId \in ended'
      <4>1. /\ revealLocks[f].revealId \in RevealsOn(p)
            /\ LinkedTo(f, {revealLocks[f].revealId})
        BY <2>2 DEF LinkedTo
      <4>2. ended' = ended \cup {i \in RevealsOn(p) : \E h \in Profiles : LinkedTo(h, {i})}
        BY <1>3 DEF CloseProject
      <4> QED BY <4>1, <4>2
    <3> QED BY <3>3, <3>4, RowAssumption
  <2>3. CASE ~ LinkedTo(f, RevealsOn(p))
    <3>1. revealLocks'[f] = revealLocks[f]
      BY <1>3, <2>3 DEF CloseProject
    <3> QED BY <2>1, <3>1, RowAssumption
  <2> QED BY <2>2, <2>3
<1>4. ASSUME NEW u, NEW f \in Profiles, EraseCandidate(u, f)
      PROVE  KeepsLocks
  <2>1. PICK gone : revealLocks' = [g \in Profiles |-> Unlink(revealLocks[g], gone)]
    BY <1>4 DEF EraseCandidate
  <2> QED BY <1>0, <1>1, <2>1, UnlinkKeeps, KeptFrame DEF ActiveLock
<1>5. ASSUME NEW u, DeleteAccount(u)
      PROVE  KeepsLocks
  <2>1. users' = users \ {u}
    BY <1>5 DEF DeleteAccount, DropAccount
  <2>2. PICK gone : revealLocks' = LocksWithout(u, gone)
    BY <1>5 DEF DeleteAccount
  <2>3. \A f \in Profiles : ActiveLock(f) =>
          \/ revealLocks[f].user \notin users'
          \/ revealLocks'[f] = Unlink(revealLocks[f], gone)
    BY <2>1, <2>2 DEF LocksWithout
  <2> QED BY <1>0, <1>1, <2>3, UnlinkKeeps, KeptFrame DEF ActiveLock
<1>6. ASSUME NEW c \in Cleaners, CleanupLocks(c)
      PROVE  KeepsLocks
  <2>1. cleanup[c].now \in Nat /\ cleanup[c].now <= now /\ Grace \in Nat /\ now \in Nat
    BY <1>0, <1>6, RevealAssumption
       DEF CleanupLocks, CleanupDone, CleanupPast, RevealTypeOK, CleanupState
  <2>2. \A f \in Profiles : ActiveLock(f) =>
          revealLocks[f].expiresAt \in Int /\ revealLocks[f].expiresAt > now
    BY <1>1, RevealAssumption DEF ActiveLock, LockRow, Times
  <2>3. \A f \in Profiles : ActiveLock(f) => revealLocks'[f] = revealLocks[f]
    BY <1>6, <2>1, <2>2 DEF CleanupLocks
  <2> QED BY <1>0, <2>3, KeptFrame DEF ActiveLock
<1>7. CASE UNCHANGED revealLocks
  BY <1>0, <1>7, KeptFrame DEF ActiveLock
<1>8. Tick \/ (\E i \in Ingesters : IngestReveal(i)) \/ UNCHANGED lockVars
        => UNCHANGED revealLocks
  BY DEF Tick, IngestReveal, IngestFrame, lockVars, rowVars
<1> QED BY <1>2, <1>3, <1>4, <1>5, <1>6, <1>7, <1>8, LockActions

\* No request, clean-up or erasure takes an active lock from its holder.
THEOREM LocksAreKept == RevealSpec => LockIsKept
<1>1. RevealInv /\ [RevealNext]_vars => [KeepsLocks]_vars
  BY KeptStep
<1> QED BY RevealInvariant, <1>1, PTL DEF RevealSpec, LockIsKept, KeepsLocks

-----------------------------------------------------------------------------
(* The lock rows implement exclusive access.                               *)

\* Whatever only ends holds is a release of the profiles nobody holds any more.
LEMMA HolderReleased ==
  ASSUME \A f \in Profiles : ActiveLock(f)' =>
           ActiveLock(f) /\ revealLocks'[f].user = revealLocks[f].user
  PROVE  \E over \in SUBSET Profiles : Exclusive!Release(over)
<1> DEFINE over == {f \in Profiles : ~ ActiveLock(f)'}
<1>1. Holder' = [f \in Profiles |-> IF f \in over THEN NoLock ELSE Holder[f]]
  BY DEF Holder
<1> QED BY <1>1 DEF Exclusive!Release

LEMMA HolderAcquired ==
  ASSUME RevealTypeOK, NEW q \in Requests, AcquireReveal(q)
  PROVE  \/ \E f \in Profiles, u \in Users : Exclusive!Acquire(f, u)
         \/ UNCHANGED Holder
<1>1. PICK u \in Users, f \in Profiles, lock \in LockRow :
        /\ Claimable(u, f) /\ UNCHANGED now
        /\ revealLocks' = [revealLocks EXCEPT ![f] = lock]
        /\ lock.user = u /\ lock.expiresAt = now + TTL
  <2> DEFINE lock == NewLock(request[q].user, nextReveal)
  <2>1. request[q].user \in Users /\ request[q].profile \in Profiles /\ lock \in LockRow
    BY TimeBounds DEF AcquireReveal, Awaits, RevealTypeOK, RequestState, LockRow, NewLock
  <2>2. lock.user = request[q].user /\ lock.expiresAt = now + TTL
    BY DEF NewLock
  <2>3. /\ Claimable(request[q].user, request[q].profile) /\ UNCHANGED now
        /\ revealLocks' = [revealLocks EXCEPT ![request[q].profile] = lock]
    BY DEF AcquireReveal
  <2> HIDE DEF lock
  <2> QED BY <2>1, <2>2, <2>3
<1>2. lock # NoLock
  BY RowAssumption
<1>3. lock.expiresAt > now
  BY <1>1, RevealAssumption DEF RevealTypeOK
<1>4. /\ revealLocks'[f] = lock
      /\ \A g \in Profiles : g # f => revealLocks'[g] = revealLocks[g]
  BY <1>1 DEF RevealTypeOK
<1>5. /\ ActiveLock(f)'
      /\ \A g \in Profiles : g # f => (ActiveLock(g)' <=> ActiveLock(g))
  BY <1>1, <1>2, <1>3, <1>4 DEF ActiveLock
<1>6. Holder' = [Holder EXCEPT ![f] = u]
  <2>1. \A g \in Profiles :
          (IF ActiveLock(g)' THEN revealLocks'[g].user ELSE NoLock) =
            IF g = f THEN u ELSE IF ActiveLock(g) THEN revealLocks[g].user ELSE NoLock
    BY <1>1, <1>4, <1>5
  <2> QED BY <2>1 DEF Holder
<1>7. CASE ~ ActiveLock(f)
  <2>1. Holder[f] = NoLock
    BY <1>7 DEF Holder
  <2> QED BY <1>6, <2>1 DEF Exclusive!Acquire
<1>8. CASE HeldBy(f, u)
  <2>1. Holder[f] = u
    BY <1>8 DEF Holder, HeldBy
  <2> QED BY <1>6, <2>1 DEF Holder
<1> QED BY <1>1, <1>7, <1>8 DEF Claimable

LEMMA HolderStep ==
  ASSUME RevealInv, [RevealNext]_vars
  PROVE  [Exclusive!Next]_Holder
<1>0. RevealTypeOK /\ CleanupPast
  BY DEF RevealInv
<1>1. CASE \E q \in Requests : AcquireReveal(q)
  BY <1>0, <1>1, HolderAcquired DEF Exclusive!Next
<1>2. CASE UNCHANGED Holder
  BY <1>2
<1>3. ASSUME \A f \in Profiles : ActiveLock(f)' =>
               ActiveLock(f) /\ revealLocks'[f].user = revealLocks[f].user
      PROVE  [Exclusive!Next]_Holder
  BY <1>3, HolderReleased DEF Exclusive!Next
<1>4. CASE UNCHANGED <<now, revealLocks>>
  BY <1>4 DEF Holder, ActiveLock
<1>5. ASSUME NEW u, NEW p \in Projects, CloseProject(u, p)
      PROVE  [Exclusive!Next]_Holder
  <2>1. UNCHANGED now /\ now \in Nat
    BY <1>0, <1>5, RevealAssumption DEF CloseProject, RevealTypeOK
  <2>2. ASSUME NEW f \in Profiles
        PROVE  \/ revealLocks'[f] = revealLocks[f]
               \/ revealLocks'[f].expiresAt = now
    <3>1. CASE LinkedTo(f, RevealsOn(p))
      <4>1. revealLocks[f] \in LockRow
        BY <1>0, <3>1 DEF LinkedTo, RevealTypeOK
      <4>2. revealLocks'[f] = [revealLocks[f] EXCEPT !.expiresAt = now]
        BY <1>5, <3>1 DEF CloseProject
      <4> QED BY <4>1, <4>2 DEF LockRow
    <3>2. CASE ~ LinkedTo(f, RevealsOn(p))
      BY <1>5, <3>2 DEF CloseProject
    <3> QED BY <3>1, <3>2
  <2> QED BY <1>3, <2>1, <2>2 DEF ActiveLock
<1>6. ASSUME UNCHANGED now, NEW gone,
             \A f \in Profiles : \/ revealLocks'[f] = NoLock
                                 \/ revealLocks'[f] = Unlink(revealLocks[f], gone)
      PROVE  [Exclusive!Next]_Holder
  <2> SUFFICES ASSUME NEW f \in Profiles, ActiveLock(f)'
               PROVE  ActiveLock(f) /\ revealLocks'[f].user = revealLocks[f].user
    BY <1>3
  <2>1. revealLocks'[f] = Unlink(revealLocks[f], gone) /\ revealLocks'[f] # NoLock
    BY <1>6 DEF ActiveLock
  <2>2. revealLocks[f] # NoLock
    BY <2>1 DEF Unlink
  <2>3. revealLocks[f] \in LockRow
    BY <1>0, <2>2 DEF RevealTypeOK
  <2> QED BY <1>6, <2>1, <2>2, <2>3, UnlinkKeeps DEF ActiveLock
<1>7. ASSUME NEW u, NEW f \in Profiles, EraseCandidate(u, f)
      PROVE  [Exclusive!Next]_Holder
  <2>1. PICK gone : revealLocks' = [g \in Profiles |-> Unlink(revealLocks[g], gone)]
    BY <1>7 DEF EraseCandidate
  <2> QED BY <1>6, <1>7, <2>1 DEF EraseCandidate
<1>8. ASSUME NEW u, DeleteAccount(u)
      PROVE  [Exclusive!Next]_Holder
  <2>1. PICK gone : revealLocks' = LocksWithout(u, gone)
    BY <1>8 DEF DeleteAccount
  <2>2. \A f \in Profiles : \/ revealLocks'[f] = NoLock
                            \/ revealLocks'[f] = Unlink(revealLocks[f], gone)
    BY <2>1 DEF LocksWithout
  <2> QED BY <1>6, <1>8, <2>2 DEF DeleteAccount
<1>9. ASSUME NEW c \in Cleaners, CleanupLocks(c)
      PROVE  [Exclusive!Next]_Holder
  <2>1. UNCHANGED now
    BY <1>9 DEF CleanupLocks, CleanupDone
  <2>2. \A f \in Profiles : revealLocks'[f] = NoLock \/ revealLocks'[f] = revealLocks[f]
    BY <1>9 DEF CleanupLocks
  <2> QED BY <1>3, <2>1, <2>2 DEF ActiveLock
<1>10. CASE Tick
  <2>1. UNCHANGED revealLocks /\ now' = now + 1 /\ now \in Nat
    BY <1>0, <1>10, RevealAssumption DEF Tick, rowVars, RevealTypeOK
  <2>2. \A f \in Profiles : revealLocks[f] # NoLock => revealLocks[f].expiresAt \in Int
    BY <1>0, RevealAssumption DEF RevealTypeOK, LockRow, Times
  <2> QED BY <1>3, <2>1, <2>2 DEF ActiveLock
<1>11. (\E i \in Ingesters : IngestReveal(i)) \/ UNCHANGED lockVars
         => UNCHANGED <<now, revealLocks>>
  BY DEF IngestReveal, IngestFrame, lockVars
<1> QED BY <1>1, <1>4, <1>5, <1>7, <1>8, <1>9, <1>10, <1>11, LockActions

\* The lock rows implement exclusive access, whatever runs concurrently.
THEOREM LocksAreExclusive == RevealSpec => ImplementsExclusiveAccess
<1>1. RevealInit => Exclusive!Init
  BY DEF RevealInit, Exclusive!Init, Holder, ActiveLock
<1>2. RevealInv /\ [RevealNext]_vars => [Exclusive!Next]_Holder
  BY HolderStep
<1> QED BY RevealInvariant, <1>1, <1>2, PTL
        DEF RevealSpec, ImplementsExclusiveAccess, Exclusive!Spec
=============================================================================
