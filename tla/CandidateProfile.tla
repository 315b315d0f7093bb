--------------------------- MODULE CandidateProfile ---------------------------
(* The stored profile of one synced candidate and the suggestions 8vance's own *)
(* parse of the CV leads to. Every editor reads the whole JSON column, works   *)
(* on it, some of them against 8vance, and writes the column back. The scan    *)
(* that generates suggestions runs after visits of the match page and for each *)
(* poll of the suggestions panel.                                              *)
EXTENDS Naturals, FiniteSets

CONSTANTS Recruiters,   \* recruiters of the organization
          Scans,        \* generator runs that come from visits
          PanelScan,    \* the generator run of the panel's polls
          Suggested,    \* facts the parse of 8vance adds
          Synced,       \* facts of the create, which may already show as rows
          Notes,        \* notes a recruiter may save
          Ops,          \* of "note", "edit", "level", "dismiss", "approve", "approve all"
          MaxTries,     \* MAX_POLL_TRIES
          MaxOps,       \* operations of all recruiters
          MaxFaults     \* failing calls of 8vance and of the database

VARIABLES candidate,    \* note, CV facts, suggestions and status of the scan
          talent,       \* facts at 8vance
          parsed,       \* 8vance has parsed the CV
          pushes,       \* how often each fact was pushed
          work,         \* the operation of each recruiter
          scan,         \* the generator runs
          panel,        \* the suggestions panel
          latest,       \* the note and the facts last stored, by anybody
          ops, faults

vars == <<candidate, talent, parsed, pushes, work, scan, panel, latest, ops, faults>>

Facts == Suggested \union Synced
AllScans == Scans \union {PanelScan}
NoNote == "no note"
Nothing == "nothing"

NoWork == [pc |-> "idle", op |-> Nothing, arg |-> Nothing, left |-> {}, note |-> NoNote, cv |-> {},
           suggestions |-> [s \in Suggested |-> "absent"], applied |-> FALSE]
NoScan == [pc |-> "idle", cv |-> {}, found |-> {}, seen |-> [s \in Suggested |-> "absent"]]

ProfileInit ==
    /\ candidate = [note |-> NoNote, cv |-> Synced, status |-> "unknown",
                    suggestions |-> [s \in Suggested |-> "absent"]]
    /\ talent = Synced
    /\ parsed = FALSE
    /\ pushes = [f \in Facts |-> 0]
    /\ work = [r \in Recruiters |-> NoWork]
    /\ scan = [g \in AllScans |-> NoScan]
    /\ panel = [pc |-> "polling", tries |-> 0]
    /\ latest = [note |-> NoNote, facts |-> Synced]
    /\ ops = 0
    /\ faults = 0

Fault == faults < MaxFaults /\ faults' = faults + 1

Pending == {s \in Suggested : candidate.suggestions[s] = "pending"}
Known == \E s \in Suggested : candidate.suggestions[s] # "absent"

-----------------------------------------------------------------------------
(* The recruiters. *)

\* A note, an edit of the talent, another level for a skill, and suggestions
\* that a tab, which may be old, shows. Approve all takes the pending ones.
Begin(r) ==
    /\ work[r].pc = "idle" /\ ops < MaxOps
    /\ ops' = ops + 1
    /\ \E op \in Ops, arg \in Notes \union Facts :
         /\ op = "note" => arg \in Notes
         /\ op = "edit" => arg \in Facts
         /\ op = "level" => arg \in talent
         /\ op \in {"dismiss", "approve"} => arg \in Suggested /\ candidate.suggestions[arg] # "absent"
         /\ op = "approve all" => arg \in Pending
         /\ work' = [work EXCEPT ![r] =
                       [NoWork EXCEPT !.pc = "read", !.op = op, !.arg = arg,
                                      !.left = IF op = "approve all" THEN Pending \ {arg} ELSE {}]]
    /\ UNCHANGED <<candidate, talent, parsed, pushes, scan, panel, latest, faults>>

\* Approve all goes through the suggestions that were pending one at a time.
Done(w) ==
    IF w.left = {} THEN NoWork
    ELSE LET s == CHOOSE s \in w.left : TRUE
         IN  [NoWork EXCEPT !.pc = "read", !.op = w.op, !.arg = s, !.left = w.left \ {s}]

Approvable(s) == candidate.suggestions[s] = "pending"

\* The row is read as a whole; an approval that is no longer pending is refused.
Read(r) ==
    /\ work[r].pc = "read"
    /\ LET w == work[r]
       IN  work' = [work EXCEPT ![r] =
             IF w.op \in {"approve", "approve all"} /\ ~Approvable(w.arg) THEN Done(w)
             ELSE [w EXCEPT !.pc = IF w.op \in {"note", "dismiss"} THEN "write" ELSE "push",
                            !.note = candidate.note, !.cv = candidate.cv,
                            !.suggestions = candidate.suggestions]]
    /\ UNCHANGED <<candidate, talent, parsed, pushes, scan, panel, latest, ops, faults>>

\* The call of 8vance that adds a fact. When it fails an edit does not count,
\* an approval does.
Push(r) ==
    /\ work[r].pc = "push" /\ work[r].op # "level"
    /\ \/ /\ talent' = talent \union {work[r].arg}
          /\ pushes' = [pushes EXCEPT ![work[r].arg] = @ + 1]
          /\ work' = [work EXCEPT ![r].pc = "write", ![r].applied = TRUE]
          /\ UNCHANGED faults
       \/ /\ Fault
          /\ work' = [work EXCEPT ![r].pc = "write", ![r].applied = work[r].op # "edit"]
          /\ UNCHANGED <<talent, pushes>>
    /\ UNCHANGED <<candidate, parsed, scan, panel, latest, ops>>

\* Another level: PATCH, or where 8vance does not support it DELETE, then POST.
PatchLevel(r) ==
    /\ work[r].pc = "push" /\ work[r].op = "level"
    /\ \/ work' = [work EXCEPT ![r].pc = "write"] /\ UNCHANGED talent
       \/ /\ talent' = talent \ {work[r].arg}
          /\ work' = [work EXCEPT ![r].pc = "add again"]
    /\ UNCHANGED <<candidate, parsed, pushes, scan, panel, latest, ops, faults>>

AddAgain(r) ==
    /\ work[r].pc = "add again"
    /\ \/ talent' = talent \union {work[r].arg} /\ UNCHANGED faults
       \/ Fault /\ UNCHANGED talent
    /\ work' = [work EXCEPT ![r].pc = "write"]
    /\ UNCHANGED <<candidate, parsed, pushes, scan, panel, latest, ops>>

WrittenForgetting(w) ==
    [candidate EXCEPT
        !.note = IF w.op = "note" THEN w.arg ELSE NoNote,
        !.cv = IF w.applied THEN w.cv \union {w.arg} ELSE w.cv,
        !.suggestions = IF w.op = "dismiss" THEN [w.suggestions EXCEPT ![w.arg] = "dismissed"]
                        ELSE IF w.op \in {"approve", "approve all"}
                        THEN [w.suggestions EXCEPT ![w.arg] = "approved"] ELSE @]

\* The columns an operation writes come from what it read.
Written(w) ==
    CASE w.op = "note" -> [candidate EXCEPT !.note = w.arg, !.cv = w.cv]
      [] w.op \in {"edit", "level"} ->
           [candidate EXCEPT !.note = w.note, !.cv = IF w.applied THEN w.cv \union {w.arg} ELSE w.cv]
      [] w.op = "dismiss" ->
           [candidate EXCEPT !.suggestions = [w.suggestions EXCEPT ![w.arg] = "dismissed"]]
      [] OTHER -> [candidate EXCEPT !.note = w.note, !.cv = w.cv \union {w.arg},
                                    !.suggestions = [w.suggestions EXCEPT ![w.arg] = "approved"]]

Write(r) ==
    /\ work[r].pc = "write"
    /\ candidate' = Written(work[r])
    /\ latest' = [note |-> IF work[r].op = "note" THEN work[r].arg ELSE latest.note,
                  facts |-> IF work[r].applied THEN latest.facts \union {work[r].arg}
                            ELSE latest.facts]
    /\ work' = [work EXCEPT ![r] = Done(@)]
    /\ UNCHANGED <<talent, parsed, pushes, scan, panel, ops, faults>>

\* The write fails and is reported to the recruiter.
WriteFails(r) ==
    /\ work[r].pc = "write"
    /\ Fault
    /\ work' = [work EXCEPT ![r] = Done(@)]
    /\ UNCHANGED <<candidate, talent, parsed, pushes, scan, panel, latest, ops>>

RecruiterStep(r) ==
    Read(r) \/ Push(r) \/ PatchLevel(r) \/ AddAgain(r) \/ Write(r) \/ WriteFails(r)

-----------------------------------------------------------------------------
(* The generator. *)

\* 8vance has parsed the uploaded CV: its facts show on the talent.
Parse ==
    /\ ~parsed
    /\ parsed' = TRUE
    /\ talent' = talent \union Suggested
    /\ UNCHANGED <<candidate, pushes, work, scan, panel, latest, ops, faults>>

StartScan(g) ==
    /\ g \in Scans /\ scan[g].pc = "idle"
    /\ scan' = [scan EXCEPT ![g].pc = "read"]
    /\ UNCHANGED <<candidate, talent, parsed, pushes, work, panel, latest, ops, faults>>

Ended(g) == [NoScan EXCEPT !.pc = IF g = PanelScan THEN "answer" ELSE "idle"]

Generates == ~Known

\* Existing suggestions are left alone.
ReadRow(g) ==
    /\ scan[g].pc = "read"
    /\ \/ /\ Generates
          /\ scan' = [scan EXCEPT ![g].pc = "fetch", ![g].cv = candidate.cv,
                                   ![g].seen = candidate.suggestions]
          /\ UNCHANGED candidate
       \/ /\ ~Generates
          /\ scan' = [scan EXCEPT ![g] = Ended(g)]
          /\ candidate' = [candidate EXCEPT !.status = "ready"]
    /\ UNCHANGED <<talent, parsed, pushes, work, panel, latest, ops, faults>>

\* The reads of the talent; one that fails counts as empty.
Fetch(g) ==
    /\ scan[g].pc = "fetch"
    /\ \/ scan' = [scan EXCEPT ![g].pc = "store", ![g].found = talent] /\ UNCHANGED faults
       \/ Fault /\ scan' = [scan EXCEPT ![g].pc = "store", ![g].found = {}]
    /\ UNCHANGED <<candidate, talent, parsed, pushes, work, panel, latest, ops>>

Status(diff, found) ==
    IF diff # {} THEN "ready" ELSE IF found # {} THEN "none" ELSE "pending"

Store(g) ==
    /\ scan[g].pc = "store"
    /\ LET diff == (scan[g].found \ scan[g].cv) \intersect Suggested
       IN  candidate' = [candidate EXCEPT
              !.status = Status(diff, scan[g].found),
              !.suggestions = IF diff = {} THEN @
                              ELSE [s \in Suggested |-> IF s \in diff THEN "pending" ELSE "absent"]]
    /\ scan' = [scan EXCEPT ![g] = Ended(g)]
    /\ UNCHANGED <<talent, parsed, pushes, work, panel, latest, ops, faults>>

StoreFails(g) ==
    /\ scan[g].pc \in {"fetch", "store"}
    /\ Fault
    /\ candidate' = [candidate EXCEPT !.status = "error"]
    /\ scan' = [scan EXCEPT ![g] = Ended(g)]
    /\ UNCHANGED <<talent, parsed, pushes, work, panel, latest, ops>>

ScanStep(g) == ReadRow(g) \/ Fetch(g) \/ Store(g)

-----------------------------------------------------------------------------
(* The panel polls until there is something to review or a final status. *)

Tick ==
    /\ panel.pc = "polling" /\ scan[PanelScan].pc = "idle"
    /\ scan' = [scan EXCEPT ![PanelScan].pc = "read"]
    /\ panel' = [panel EXCEPT !.tries = @ + 1]
    /\ UNCHANGED <<candidate, talent, parsed, pushes, work, latest, ops, faults>>

Answered ==
    IF Pending # {} THEN "ready"
    ELSE IF candidate.status \in {"none", "error"} THEN candidate.status
    ELSE IF panel.tries < MaxTries THEN "polling" ELSE "none"

Answer ==
    /\ scan[PanelScan].pc = "answer"
    /\ scan' = [scan EXCEPT ![PanelScan] = NoScan]
    /\ panel' = IF panel.pc = "polling" THEN [panel EXCEPT !.pc = Answered] ELSE panel
    /\ UNCHANGED <<candidate, talent, parsed, pushes, work, latest, ops, faults>>

PanelStep == Tick \/ Answer \/ ScanStep(PanelScan)

ProfileNext ==
    \/ \E r \in Recruiters : Begin(r) \/ RecruiterStep(r)
    \/ \E g \in AllScans : StartScan(g) \/ ScanStep(g) \/ StoreFails(g)
    \/ Parse \/ Tick \/ Answer

ProfileSpec == ProfileInit /\ [][ProfileNext]_vars

\* A panel that is open goes on polling.
LiveProfileSpec == ProfileSpec /\ WF_vars(PanelStep)

-----------------------------------------------------------------------------
(* Properties.                                                               *)

Statuses == {"absent", "pending", "approved", "dismissed"}

\* Types of every variable.
TypeOK ==
    /\ candidate \in [note : Notes \union {NoNote}, cv : SUBSET Facts,
                      status : {"unknown", "ready", "none", "pending", "error"},
                      suggestions : [Suggested -> Statuses]]
    /\ talent \subseteq Facts
    /\ parsed \in BOOLEAN
    /\ pushes \in [Facts -> Nat]
    /\ \A r \in Recruiters : work[r].pc \in {"idle", "read", "push", "add again", "write"}
    /\ \A g \in AllScans : scan[g].pc \in {"idle", "read", "fetch", "store", "answer"}
    /\ panel.pc \in {"polling", "ready", "none", "error"} /\ panel.tries \in 0..MaxTries

\* A note and facts that were stored stay: no other editor writes back what it
\* read before (the spread of the siblings in every editor of profileJson).
EditsKept == candidate.note = latest.note /\ latest.facts \subseteq candidate.cv

\* What a recruiter approved is in the profile.
ApprovedApplied ==
    \A s \in Suggested : candidate.suggestions[s] = "approved" => s \in candidate.cv

Decided(suggestions, s) == suggestions[s] \in {"approved", "dismissed"}

\* What was approved or dismissed becomes open again only by a writer that had read the
\* suggestions before the decision: the store of a scan that found none when it began,
\* or the write of a recruiter who had read the list with this one still open (the
\* guard of generateSuggestionsFromTalent, "a recruiter's in-progress review is never
\* regenerated / overwritten").
ReviewKept ==
    \A s \in Suggested :
      Decided(candidate.suggestions, s) /\ ~Decided(candidate'.suggestions, s) =>
        \/ \E g \in AllScans : /\ scan[g].pc = "store" /\ scan'[g].pc # "store"
                               /\ ~Decided(scan[g].seen, s)
        \/ \E r \in Recruiters : /\ work[r].pc = "write" /\ work'[r].pc # "write"
                                 /\ ~Decided(work[r].suggestions, s)

\* Without a failing write no suggestion is pushed to 8vance twice.
PushedOnce == \A s \in Suggested : "edit" \notin Ops => pushes[s] <= 1

\* Another level for a skill leaves the skill on the talent.
SkillSurvives ==
    \A f \in Synced : f \in talent \/ \E r \in Recruiters : work[r].pc = "add again"

\* "none" is reported when the parse has landed and adds nothing.
NoneIsFinal == candidate.status = "none" => parsed

\* The panel stops polling.
Polling == panel.pc = "polling"
=============================================================================
