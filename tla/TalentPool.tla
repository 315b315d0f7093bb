------------------------------ MODULE TalentPool ------------------------------
(* The talents of a pool at 8vance and the local candidates that mirror them.  *)
(* A recruiter imports one talent, a small selection, or the whole pool; the   *)
(* import of the whole pool walks its pages in the background and inserts in   *)
(* batches. The database has no unique index on the talent of a candidate: each*)
(* import looks for local rows first. The pool belongs to the organization     *)
(* that creates the first candidate in it; public applications go to it.       *)
EXTENDS Naturals, Sequences, FiniteSets, SequencesExt

CONSTANTS Talents,      \* numbers
          Orgs,
          Owners,       \* organizations whose recruiters create candidates
          Imports,      \* imports, each in a request or a background job of its own
          ImportOrg,    \* the organization of each import
          Kinds,        \* of "one", "ids", "all"
          PageSize,     \* talents on a page of the list
          Batch,        \* BULK_INSERT_BATCH
          MaxPages,     \* the guard of the walk
          Applicants,   \* public applications
          MaxChanges,   \* talents that come to or leave the pool
          MaxArchived,  \* candidates a recruiter archives
          MaxFaults,    \* failing reads of 8vance and failing inserts
          Serial        \* imports do not overlap

VARIABLES roster,   \* the list of the pool at 8vance, in its order
          rows,     \* live candidates of each organization and talent
          import,   \* the imports
          owner,    \* ownerOrganizationId of the pool
          creating, \* organizations whose recruiter creates a candidate
          applied,  \* organization of each application
          changes, archived, faults

vars == <<roster, rows, import, owner, creating, applied, changes, archived, faults>>

None == "none"
Idle == [pc |-> "idle", kind |-> None, due |-> {}, have |-> {}, page |-> 1, list |-> <<>>,
         next |-> FALSE, buffer |-> <<>>, excluded |-> {}, lost |-> FALSE]

PoolInit ==
    /\ roster \in {SetToSeq(t) : t \in SUBSET Talents}
    /\ rows = [o \in Orgs |-> [t \in Talents |-> 0]]
    /\ import = [i \in Imports |-> Idle]
    /\ owner = None
    /\ creating = {}
    /\ applied = [a \in Applicants |-> "open"]
    /\ changes = 0
    /\ archived = 0
    /\ faults = 0

Fault == faults < MaxFaults /\ faults' = faults + 1
Local(o) == {t \in Talents : rows[o][t] > 0}

-----------------------------------------------------------------------------
(* The imports. *)

\* Only the owner of the pool, or an organization with candidates in it; a pool
\* without an owner is open.
Guarded(o) == owner \in {None, o} \/ Local(o) # {}

\* Of a selection, the first BULK_IDS_MAX numbers: chosen is what that leaves. A pool
\* whose scope is not FULL offers no "ids" and no "all" (Kinds).
Begin(i) ==
    /\ import[i].pc = "idle"
    /\ Serial => \A j \in Imports : import[j].pc \in {"idle", "done"}
    /\ Guarded(ImportOrg[i])
    /\ \E kind \in Kinds, chosen \in SUBSET Talents :
         /\ kind = "one" => Cardinality(chosen) = 1
         /\ kind = "ids" => chosen # {}
         /\ import' = [import EXCEPT ![i] =
              [Idle EXCEPT !.pc = IF kind = "all" THEN "page" ELSE "look", !.kind = kind,
                           !.due = IF kind = "all" THEN ToSet(roster) \ chosen ELSE chosen,
                           !.excluded = IF kind = "all" THEN chosen ELSE {}]]
    /\ UNCHANGED <<roster, rows, owner, creating, applied, changes, archived, faults>>

\* A small import looks for local rows once; the rest go into one insert.
Look(i) ==
    /\ import[i].pc = "look"
    /\ import' = [import EXCEPT ![i].pc = "insert",
                    ![i].buffer = SetToSeq(import[i].due \ Local(ImportOrg[i]))]
    /\ UNCHANGED <<roster, rows, owner, creating, applied, changes, archived, faults>>

Inserted(o, batch) ==
    [rows EXCEPT ![o] = [t \in Talents |-> @[t] + Cardinality({k \in DOMAIN batch : batch[k] = t})]]

InsertSmall(i) ==
    /\ import[i].pc = "insert"
    /\ \/ /\ rows' = Inserted(ImportOrg[i], import[i].buffer)
          /\ import' = [import EXCEPT ![i].pc = "done", ![i].buffer = <<>>]
          /\ UNCHANGED faults
       \/ /\ import[i].buffer # <<>> /\ Fault
          /\ import' = [import EXCEPT ![i].pc = "done", ![i].buffer = <<>>, ![i].lost = TRUE]
          /\ UNCHANGED rows
    /\ UNCHANGED <<roster, owner, creating, applied, changes, archived>>

PageOf(p) == SubSeq(roster, (p - 1) * PageSize + 1,
                    IF p * PageSize < Len(roster) THEN p * PageSize ELSE Len(roster))

\* One page of the list as it is now. A page that cannot be read ends the walk;
\* what is buffered is inserted.
ReadPage(i) ==
    /\ import[i].pc = "page"
    /\ \/ /\ import' = [import EXCEPT ![i].pc = "locals", ![i].list = PageOf(import[i].page),
                             ![i].next = import[i].page * PageSize < Len(roster)]
          /\ UNCHANGED faults
       \/ Fault /\ import' = [import EXCEPT ![i].pc = "last", ![i].lost = TRUE]
    /\ UNCHANGED <<roster, rows, owner, creating, applied, changes, archived>>

NewOnPage(i) ==
    SelectSeq(import[i].list,
              LAMBDA t : t \notin import[i].excluded \union Local(ImportOrg[i]))

\* The talents of the page that have no local row join the buffer. The walk
\* ends with an empty page, without a next page, or at its guard.
FilterPage(i) ==
    /\ import[i].pc = "locals"
    /\ LET w == import[i]
           full == Len(w.buffer \o NewOnPage(i)) >= Batch
           more == w.next /\ w.list # <<>> /\ w.page < MaxPages
       IN  import' = [import EXCEPT ![i].buffer = @ \o NewOnPage(i), ![i].page = w.page + 1,
                        ![i].pc = IF ~more THEN "last" ELSE IF full THEN "flush" ELSE "page"]
    /\ UNCHANGED <<roster, rows, owner, creating, applied, changes, archived, faults>>

\* A batch that fails is reported and the walk goes on without it.
Flush(i) ==
    /\ import[i].pc \in {"flush", "last"}
    /\ LET to == IF import[i].pc = "flush" THEN "page" ELSE "done"
       IN  \/ /\ rows' = Inserted(ImportOrg[i], import[i].buffer)
              /\ import' = [import EXCEPT ![i].pc = to, ![i].buffer = <<>>]
              /\ UNCHANGED faults
           \/ /\ import[i].buffer # <<>> /\ Fault
              /\ import' = [import EXCEPT ![i].pc = to, ![i].buffer = <<>>, ![i].lost = TRUE]
              /\ UNCHANGED rows
    /\ UNCHANGED <<roster, owner, creating, applied, changes, archived>>

\* The process stops; the background job is not resumed.
Crash(i) ==
    /\ import[i].pc \notin {"idle", "done"}
    /\ Fault
    /\ import' = [import EXCEPT ![i] = [Idle EXCEPT !.pc = "done", !.lost = TRUE]]
    /\ UNCHANGED <<roster, rows, owner, creating, applied, changes, archived>>

-----------------------------------------------------------------------------
(* The pool at 8vance, and the candidates. *)

Comes ==
    /\ changes < MaxChanges
    /\ \E t \in Talents \ ToSet(roster) : roster' = <<t>> \o roster
    /\ changes' = changes + 1
    /\ UNCHANGED <<rows, import, owner, creating, applied, archived, faults>>

Leaves ==
    /\ changes < MaxChanges
    /\ \E k \in DOMAIN roster :
         /\ roster' = RemoveAt(roster, k)
         /\ import' = [i \in Imports |-> [import[i] EXCEPT !.due = @ \ {roster[k]}]]
    /\ changes' = changes + 1
    /\ UNCHANGED <<rows, owner, creating, applied, archived, faults>>

\* A recruiter archives a candidate: its talent may be imported again.
Archive ==
    /\ archived < MaxArchived
    /\ \E o \in Orgs : \E t \in Local(o) :
         /\ rows' = [rows EXCEPT ![o][t] = @ - 1]
         /\ import' = [i \in Imports |-> [import[i] EXCEPT !.due = @ \ {t}]]
    /\ archived' = archived + 1
    /\ UNCHANGED <<roster, owner, creating, applied, changes, faults>>

-----------------------------------------------------------------------------
(* The owner of the pool, and public applications. *)

\* A recruiter creates a candidate and reads that the pool has no owner ...
BeginCreate(o) ==
    /\ o \notin creating /\ owner = None
    /\ creating' = creating \union {o}
    /\ UNCHANGED <<roster, rows, import, owner, applied, changes, archived, faults>>

Claims == owner = None

\* ... and the update claims it only if that is still so.
Claim(o) ==
    /\ o \in creating
    /\ creating' = creating \ {o}
    /\ owner' = IF Claims THEN o ELSE owner
    /\ UNCHANGED <<roster, rows, import, applied, changes, archived, faults>>

\* Without an owner the newest candidate of the pool decides, and without one
\* the application has no organization.
Apply(a) ==
    /\ applied[a] = "open"
    /\ \E o \in Orgs \union {None} :
         /\ owner # None => o = owner
         /\ owner = None =>
              IF \A q \in Orgs : Local(q) = {} THEN o = None ELSE o # None /\ Local(o) # {}
         /\ applied' = [applied EXCEPT ![a] = o]
    /\ UNCHANGED <<roster, rows, import, owner, creating, changes, archived, faults>>

ImportStep(i) ==
    Begin(i) \/ Look(i) \/ InsertSmall(i) \/ ReadPage(i) \/ FilterPage(i) \/ Flush(i) \/ Crash(i)

PoolNext ==
    \/ \E i \in Imports : ImportStep(i)
    \/ Comes \/ Leaves \/ Archive
    \/ \E o \in Owners : BeginCreate(o) \/ Claim(o)
    \/ \E a \in Applicants : Apply(a)

PoolSpec == PoolInit /\ [][PoolNext]_vars

-----------------------------------------------------------------------------
(* Properties.                                                               *)

\* Types of every variable.
TypeOK ==
    /\ ToSet(roster) \subseteq Talents /\ Len(roster) <= Cardinality(Talents)
    /\ rows \in [Orgs -> [Talents -> Nat]]
    /\ \A i \in Imports :
         /\ import[i].pc \in {"idle", "look", "insert", "page", "locals", "flush", "last", "done"}
         /\ ToSet(import[i].buffer) \subseteq Talents
         /\ import[i].page \in 1..MaxPages + 1
    /\ owner \in Orgs \union {None}
    /\ creating \subseteq Owners
    /\ applied \in [Applicants -> Orgs \union {None, "open"}]

\* No talent has two live candidates in an organization, however often it is
\* imported (importPoolTalentAction: "idempotent -- never duplicate a talent").
ImportedOnce == \A o \in Orgs, t \in Talents : rows[o][t] <= 1

\* An import without a failure brings every talent it was to bring and that did
\* not leave meanwhile.
WholePool ==
    \A i \in Imports :
      import[i].pc = "done" /\ ~import[i].lost => import[i].due \subseteq Local(ImportOrg[i])

\* A talent that was deselected, or had a row already, is not inserted.
BatchIsNew ==
    \A i \in Imports :
      ToSet(import[i].buffer) \intersect (import[i].excluded \union Local(ImportOrg[i])) = {}

\* An owner that was set stays, with two organizations claiming the pool.
OwnerSetOnce == owner # None => owner' = owner

\* Once the pool has an owner, every application shows in an organization.
ApplicantsPlaced == owner # None => \A a \in Applicants : applied[a] # None
=============================================================================
