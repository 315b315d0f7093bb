------------------------------ MODULE WizardDraft ------------------------------
(* The project wizard of one browser tab: its steps, the draft it keeps in the *)
(* tab's storage, the default language that is loaded for the first pool, and  *)
(* the submit. Every change of a field writes the draft; a submit clears it; a *)
(* returned error writes it again. The draft outlives the page.                *)
EXTENDS Naturals, Sequences, FiniteSets

CONSTANTS Pools, Langs, Dutch,
          Errors,         \* texts of errors a submit may return
          MaxEdits, MaxMounts, MaxSubmits


VARIABLES form,           \* the fields and the step
          stored,         \* the draft in sessionStorage
          page,           \* open, or gone after the redirect
          submit,         \* pending, submitted by this mount, state.error, and whether
                          \* anything changed since the submit
          dutch,          \* dutchDefaulted and the call that asks for Dutch
          removed,        \* the user took Dutch out of this draft
          edits, mounts, submits

vars == <<form, stored, page, submit, dutch, removed, edits, mounts, submits>>

Steps == 0..4
NoError == "none"
Empty == [step |-> 0, pools |-> <<>>, role |-> FALSE, place |-> FALSE, skills |-> FALSE, langs |-> {}]
NoDraft == [Empty EXCEPT !.step = 5]
Primary(f) == IF f.pools = <<>> THEN "" ELSE f.pools[1]
Chosen(f) == {f.pools[i] : i \in DOMAIN f.pools}

Fresh == [pending |-> FALSE, submitted |-> FALSE, error |-> NoError, late |-> FALSE]
Undecided(f) == [defaulted |-> FALSE, asking |-> f.pools # <<>>]

WizardInit ==
    /\ form = Empty /\ stored = Empty
    /\ page = "open"
    /\ submit = Fresh
    /\ dutch = Undecided(Empty)
    /\ removed = FALSE
    /\ edits = 0 /\ mounts = 1 /\ submits = 0

Editing == page = "open" /\ edits < MaxEdits

\* A change of the fields, and the effect that writes the draft after it.
Change(f) ==
    /\ form' = f
    /\ stored' = f
    /\ submit' = [submit EXCEPT !.late = @ \/ submit.pending]
    /\ UNCHANGED <<page, mounts, submits>>

\* togglePool; another first pool asks for Dutch again, until one answer came.
TogglePool(p) ==
    /\ Editing /\ form.step = 0 /\ edits' = edits + 1
    /\ Change([form EXCEPT !.pools = IF p \in Chosen(form) THEN SelectSeq(@, LAMBDA q : q # p)
                                     ELSE Append(@, p)])
    /\ dutch' = IF dutch.defaulted \/ Primary(form') = Primary(form) THEN dutch
                ELSE [dutch EXCEPT !.asking = form'.pools # <<>>]
    /\ UNCHANGED removed

\* A pick in an autocomplete; typing in it again clears the pick.
Edit(field, s) ==
    /\ Editing /\ form.step = s /\ edits' = edits + 1
    /\ Change([form EXCEPT ![field] = ~@])
    /\ UNCHANGED <<dutch, removed>>

ToggleLanguage(l) ==
    /\ Editing /\ form.step = 4 /\ edits' = edits + 1
    /\ Change([form EXCEPT !.langs = IF l \in @ THEN @ \ {l} ELSE @ \union {l}])
    /\ removed' = IF l = Dutch THEN Dutch \in form.langs ELSE removed
    /\ UNCHANGED dutch

CanAdvance(f) ==
    CASE f.step = 0 -> f.pools # <<>>
      [] f.step = 1 -> f.role
      [] f.step = 2 -> f.place
      [] f.step = 3 -> f.skills
      [] OTHER -> TRUE

Continue ==
    /\ page = "open" /\ ~submit.pending /\ form.step < 4 /\ CanAdvance(form)
    /\ Change([form EXCEPT !.step = @ + 1])
    /\ UNCHANGED <<dutch, removed, edits>>

Back ==
    /\ page = "open" /\ ~submit.pending /\ form.step > 0 /\ edits < MaxEdits
    /\ edits' = edits + 1
    /\ Change([form EXCEPT !.step = @ - 1])
    /\ UNCHANGED <<dutch, removed>>

\* The answer with the languages, and a failed one, which leaves the default to
\* the next first pool.
DutchLands(ok) ==
    /\ page = "open" /\ dutch.asking
    /\ dutch' = [defaulted |-> ok, asking |-> FALSE]
    /\ IF ok /\ form.langs = {}
       THEN Change([form EXCEPT !.langs = {Dutch}])
       ELSE UNCHANGED <<form, stored, page, submit, mounts, submits>>
    /\ UNCHANGED <<removed, edits>>

Submit ==
    /\ page = "open" /\ ~submit.pending /\ form.step = 4 /\ submits < MaxSubmits
    /\ form.pools # <<>> /\ form.role /\ form.place
    /\ submits' = submits + 1
    /\ submit' = [submit EXCEPT !.pending = TRUE, !.submitted = TRUE, !.late = FALSE]
    /\ stored' = NoDraft
    /\ UNCHANGED <<form, page, dutch, removed, edits, mounts>>

\* An error came back. The watcher runs when the text of the error changed.
Returned(e) ==
    /\ page = "open" /\ submit.pending
    /\ submit' = [submit EXCEPT !.pending = FALSE, !.error = e]
    /\ stored' = IF e # submit.error THEN form ELSE stored
    /\ UNCHANGED <<form, page, dutch, removed, edits, mounts, submits>>

\* The action redirects to the shortlist: the wizard is gone, whatever it asked.
Redirected ==
    /\ page = "open" /\ submit.pending
    /\ page' = "gone"
    /\ submit' = [Fresh EXCEPT !.late = submit.late]
    /\ UNCHANGED <<form, stored, dutch, removed, edits, mounts, submits>>

\* The page is opened or loaded again: the draft is read, and written as read.
RestoredStep == IF stored = NoDraft THEN Empty ELSE [Empty EXCEPT !.step = stored.step, !.role = stored.role,
                                                     !.place = stored.place, !.skills = stored.skills]
Restored == IF stored = NoDraft THEN Empty ELSE stored
Mount ==
    /\ mounts < MaxMounts /\ mounts' = mounts + 1
    /\ form' = Restored
    /\ stored' = form'
    /\ page' = "open"
    /\ submit' = Fresh
    /\ dutch' = Undecided(form')
    /\ removed' = (removed /\ stored # NoDraft)
    /\ UNCHANGED <<edits, submits>>

WizardNext ==
    \/ \E p \in Pools : TogglePool(p)
    \/ Edit("role", 1) \/ Edit("place", 2) \/ Edit("skills", 3)
    \/ \E l \in Langs : ToggleLanguage(l)
    \/ Continue \/ Back \/ Submit \/ Redirected \/ Mount
    \/ \E ok \in BOOLEAN : DutchLands(ok)
    \/ \E e \in Errors : Returned(e)

WizardSpec == WizardInit /\ [][WizardNext]_vars

-----------------------------------------------------------------------------
(* Properties.                                                               *)

Forms == [step : Steps, pools : Seq(Pools), role : BOOLEAN, place : BOOLEAN, skills : BOOLEAN,
          langs : SUBSET Langs]

\* Types of every variable.
TypeOK ==
    /\ form \in Forms /\ stored \in Forms \union {NoDraft}
    /\ Cardinality(Chosen(form)) = Len(form.pools)
    /\ page \in {"open", "gone"} /\ submit.error \in Errors \union {NoError}
    /\ dutch \in [defaulted : BOOLEAN, asking : BOOLEAN]

\* A step is reached with the fields of the steps before it, over every reload and
\* every way back, so that a submit never lacks one.
StepsDone ==
    /\ form.step > 0 => form.pools # <<>>
    /\ form.step > 1 => form.role
    /\ form.step > 2 => form.place
    /\ form.step > 3 => form.skills

\* A reload before the first submit of a page loses nothing (the draft has to
\* "survive an accidental reload mid-wizard").
ReloadKeeps == mounts' # mounts /\ page = "open" /\ ~submit.submitted => form' = form

\* No draft is left when the project was made, however many submits failed before, unless
\* a field or the default language changed while the submit was pending (wizard.tsx: "On
\* success ... the draft stays cleared -- no stale wizard state lingers").
SuccessLeavesNoDraft == page = "gone" /\ ~submit.late => stored = NoDraft

\* After an error the draft is the form (wizard.tsx: "On error the result watcher
\* below RE-WRITES the draft so the user keeps all wizard state").
ErrorKeepsDraft ==
    page = "open" /\ submit.submitted /\ ~submit.pending => stored = form

\* Dutch that was deleted does not come back by itself (wizard.tsx: "pre-added like
\* any other language so the recruiter can delete it").
DeletedStaysDeleted == removed => Dutch \notin form.langs
=============================================================================
