------------------------------ MODULE TalentEdit ------------------------------
(* A recruiter edits a synced candidate: the editor on the match page keeps    *)
(* pending edits, the action updateTalentAction applies them to 8vance one     *)
(* call at a time, then mirrors what landed into the stored profile.           *)
EXTENDS Integers, Sequences, FiniteSets, SequencesExt

CONSTANTS Names,       \* names of skills that may be added
          Means,       \* [name] -> the skill it resolves to, NoSkill when to none
          NoSkill,
          FirstRows,   \* the names of the skills the talent begins with
          Levels,
          Texts,       \* texts about the candidate
          Ops,         \* what the recruiter uses: "name", "remove", "level", "entry", "about"
          MaxEdits, MaxSaves, MaxFaults

VARIABLES talent,      \* at 8vance: rows of skills, entries, text
          cv,          \* the stored profile
          page,        \* what the page last rendered
          form,        \* the editor
          save,        \* the save under way
          entered,     \* [kind] -> entries the recruiter made
          edits, saves, faults

vars == <<talent, cv, page, form, save, entered, edits, saves, faults>>

Kinds == {"experience", "education"}
Skills(rows) == {rows[r].skill : r \in DOMAIN rows}
Without(rows, r) == [x \in DOMAIN rows \ {r} |-> rows[x]]
With(rows, r, row) == [x \in DOMAIN rows \union {r} |-> IF x = r THEN row ELSE rows[x]]
Added(row) ==
    talent' = [talent EXCEPT !.rows = With(@, talent.next, row), !.next = @ + 1]

\* reset(): the text is the one of the render that the handler belongs to.
Reset(text) ==
    [open |-> FALSE, about |-> text, typed |-> FALSE, add |-> {}, remove |-> {}, levels |-> <<>>,
     entries |-> {}, status |-> "none"]

NoSave == [pc |-> "idle", todo |-> <<>>, applied |-> {}, failed |-> {}, asked |-> <<>>,
           about |-> "", cv |-> [names |-> {}, entries |-> [k \in Kinds |-> 0], about |-> ""]]

EditInit ==
    /\ talent = [rows |-> [r \in DOMAIN FirstRows |-> [skill |-> Means[FirstRows[r]], level |-> 1]],
                 next |-> 1 + Len(FirstRows), entries |-> [k \in Kinds |-> 0], about |-> ""]
    /\ cv = [names |-> Range(FirstRows), entries |-> [k \in Kinds |-> 0], about |-> ""]
    /\ page = [rows |-> talent.rows, about |-> cv.about]
    /\ form = Reset("")
    /\ save = NoSave
    /\ entered = [k \in Kinds |-> 0]
    /\ edits = 0 /\ saves = 0 /\ faults = 0

-----------------------------------------------------------------------------
(* The editor. Its fields stay enabled while a save is under way.              *)

Open ==
    /\ ~form.open
    /\ form' = [form EXCEPT !.open = TRUE]
    /\ UNCHANGED <<talent, cv, page, save, entered, edits, saves, faults>>

Edit(f) ==
    /\ form.open /\ edits < MaxEdits
    /\ form' = f
    /\ edits' = edits + 1
    /\ UNCHANGED <<talent, cv, page, save, saves, faults>>

AddName(n) ==
    /\ "name" \in Ops /\ n \notin form.add
    /\ Edit([form EXCEPT !.add = @ \union {n}]) /\ UNCHANGED entered
ToggleRemove(r) ==
    /\ "remove" \in Ops
    /\ Edit([form EXCEPT !.remove = IF r \in @ THEN @ \ {r} ELSE @ \union {r}]) /\ UNCHANGED entered
SetLevel(r, l) ==
    /\ "level" \in Ops /\ r \notin form.remove
    /\ Edit([form EXCEPT !.levels = With(@, r, l)]) /\ UNCHANGED entered
AddEntry(k) ==
    /\ "entry" \in Ops /\ k \notin form.entries
    /\ Edit([form EXCEPT !.entries = @ \union {k}])
    /\ entered' = [entered EXCEPT ![k] = @ + 1]
DropEntry(k) ==
    /\ k \in form.entries
    /\ Edit([form EXCEPT !.entries = @ \ {k}]) /\ UNCHANGED entered
TypeAbout(t) ==
    /\ "about" \in Ops /\ t # form.about
    /\ Edit([form EXCEPT !.about = t, !.typed = TRUE]) /\ UNCHANGED entered

Cancel ==
    /\ form.open /\ save.pc = "idle"
    /\ form' = Reset(page.about)
    /\ UNCHANGED <<talent, cv, page, save, entered, edits, saves, faults>>

Relevelled ==
    {r \in DOMAIN form.levels \intersect DOMAIN page.rows :
        form.levels[r] # page.rows[r].level /\ r \notin form.remove}

\* The payload as the calls it leads to, in the order of the action.
Call(do, arg) == <<do, arg>>
AboutCall == IF form.about # page.about THEN <<Call("about", form.about)>> ELSE <<>>
Requested ==
    (IF form.add = {} THEN <<>> ELSE <<Call("resolve", form.add)>>)
    \o SetToSeq({Call("remove", r) : r \in form.remove})
    \o SetToSeq({Call("level", [row |-> r, level |-> form.levels[r], skill |-> page.rows[r].skill]) :
                    r \in Relevelled})
    \o SetToSeq({Call("entry", k) : k \in form.entries})
    \o AboutCall

Save ==
    /\ form.open /\ save.pc = "idle" /\ saves < MaxSaves
    /\ IF Requested = <<>>
       THEN form' = [form EXCEPT !.open = FALSE, !.status = "none"] /\ UNCHANGED <<save, saves>>
       ELSE /\ form' = [form EXCEPT !.status = "none"]
            /\ save' = [NoSave EXCEPT !.pc = "calls", !.todo = Requested, !.asked = Requested,
                                      !.about = page.about, !.cv = cv]
            /\ saves' = saves + 1
    /\ UNCHANGED <<talent, cv, page, entered, edits, faults>>

-----------------------------------------------------------------------------
(* The action.                                                                 *)

Fault == faults < MaxFaults /\ faults' = faults + 1
Now == save.todo[1]
Later == SubSeq(save.todo, 2, Len(save.todo))
Calling(do) == save.pc = "calls" /\ save.todo # <<>> /\ Now[1] = do

Landed(calls) == save' = [save EXCEPT !.todo = calls \o Later, !.applied = @ \union {Now}]
Missed(part) == save' = [save EXCEPT !.todo = Later, !.failed = @ \union {part}]

Unchanged == UNCHANGED <<cv, page, form, entered, edits, saves>>

FirstFor(n, ns) ==
    /\ Means[n] # NoSkill
    /\ \A i \in DOMAIN ns : Means[ns[i]] = Means[n] => \E j \in DOMAIN ns : ns[j] = n /\ j <= i
Resolved(ns) ==
    LET found == SelectSeq(ns, LAMBDA n : FirstFor(n, ns))
    IN  save' = [save EXCEPT !.todo = [i \in DOMAIN found |-> Call("add", found[i])] \o Later,
                             !.failed = @ \union {Call("add", n) : n \in Range(ns) \ Range(found)}]
Resolve ==
    /\ Calling("resolve")
    /\ \/ Resolved(SetToSeq(Now[2])) /\ UNCHANGED faults
       \/ Fault /\ Missed(Call("skills", 0))
    /\ UNCHANGED talent /\ Unchanged

AddSkill ==
    /\ Calling("add")
    /\ \/ /\ IF Means[Now[2]] \in Skills(talent.rows) THEN UNCHANGED talent
             ELSE Added([skill |-> Means[Now[2]], level |-> 1])
          /\ Landed(<<>>) /\ UNCHANGED faults
       \/ Fault /\ Missed(Now) /\ UNCHANGED talent
    /\ Unchanged

\* A row that is gone cannot be removed.
RemoveSkill ==
    /\ Calling("remove")
    /\ IF Now[2] \in DOMAIN talent.rows
       THEN \/ /\ talent' = [talent EXCEPT !.rows = Without(@, Now[2])]
               /\ Landed(<<>>) /\ UNCHANGED faults
            \/ Fault /\ Missed(Now) /\ UNCHANGED talent
       ELSE Missed(Now) /\ UNCHANGED <<talent, faults>>
    /\ Unchanged

\* PATCH, or where it is rejected DELETE and POST.
UpdateLevel ==
    /\ Calling("level")
    /\ \/ /\ Now[2].row \in DOMAIN talent.rows
          /\ talent' = [talent EXCEPT !.rows[Now[2].row].level = Now[2].level]
          /\ Landed(<<>>) /\ UNCHANGED faults
       \/ /\ save' = [save EXCEPT !.todo = <<Call("level remove", Now[2])>> \o Later]
          /\ UNCHANGED <<talent, faults>>
       \/ Fault /\ Missed(Call("level", Now[2].row)) /\ UNCHANGED talent
    /\ Unchanged
LevelRemove ==
    /\ Calling("level remove")
    /\ IF Now[2].row \in DOMAIN talent.rows
       THEN \/ /\ talent' = [talent EXCEPT !.rows = Without(@, Now[2].row)]
               /\ save' = [save EXCEPT !.todo = <<Call("level add", Now[2])>> \o Later]
               /\ UNCHANGED faults
            \/ Fault /\ Missed(Call("level", Now[2].row)) /\ UNCHANGED talent
       ELSE Missed(Call("level", Now[2].row)) /\ UNCHANGED <<talent, faults>>
    /\ Unchanged
LevelAdd ==
    /\ Calling("level add")
    /\ \/ /\ Added([skill |-> Now[2].skill, level |-> Now[2].level])
          /\ Landed(<<>>) /\ UNCHANGED faults
       \/ Fault /\ Missed(Call("level", Now[2].row)) /\ UNCHANGED talent
    /\ Unchanged

AddEntryCall ==
    /\ Calling("entry")
    /\ \/ talent' = [talent EXCEPT !.entries[Now[2]] = @ + 1] /\ Landed(<<>>) /\ UNCHANGED faults
       \/ Fault /\ Missed(Now) /\ UNCHANGED talent
    /\ Unchanged

UpdateAbout ==
    /\ Calling("about")
    /\ \/ talent' = [talent EXCEPT !.about = Now[2]] /\ Landed(<<>>) /\ UNCHANGED faults
       \/ Fault /\ Missed(Now) /\ UNCHANGED talent
    /\ Unchanged

\* What landed, on top of the profile that was read before the calls.
AppliedArgs(do) == {c[2] : c \in {c \in save.applied : c[1] = do}}
Mirrored ==
    [names |-> save.cv.names \union AppliedArgs("add"),
     entries |-> [k \in Kinds |-> save.cv.entries[k] + (IF k \in AppliedArgs("entry") THEN 1 ELSE 0)],
     about |-> IF AppliedArgs("about") = {} THEN save.cv.about ELSE CHOOSE t \in AppliedArgs("about") : TRUE]
Mirror ==
    /\ save.pc = "calls" /\ save.todo = <<>>
    /\ \/ cv' = Mirrored /\ save' = [save EXCEPT !.pc = "answer"] /\ UNCHANGED faults
       \/ Fault /\ save' = [save EXCEPT !.pc = "answer", !.failed = @ \union {Call("local_mirror", 0)}] /\ UNCHANGED cv
    /\ UNCHANGED <<talent, page, form, entered, edits, saves>>

\* The answer comes with the page anew.
Answer ==
    /\ save.pc = "answer"
    /\ page' = [rows |-> talent.rows, about |-> cv.about]
    /\ form' = IF save.failed = {} THEN Reset(save.about) ELSE [form EXCEPT !.status = "error"]
    /\ save' = NoSave
    /\ UNCHANGED <<talent, cv, entered, edits, saves, faults>>

SaveStep ==
    \/ Resolve \/ AddSkill \/ RemoveSkill \/ UpdateLevel \/ LevelRemove \/ LevelAdd
    \/ AddEntryCall \/ UpdateAbout \/ Mirror \/ Answer

EditNext ==
    \/ Open \/ Cancel \/ Save \/ SaveStep
    \/ \E n \in Names : AddName(n)
    \/ \E r \in DOMAIN page.rows : ToggleRemove(r) \/ \E l \in Levels : SetLevel(r, l)
    \/ \E k \in Kinds : AddEntry(k) \/ DropEntry(k)
    \/ \E t \in Texts : TypeAbout(t)

EditSpec == EditInit /\ [][EditNext]_vars
LiveEditSpec == EditSpec /\ WF_vars(SaveStep)

-----------------------------------------------------------------------------
\* Types of the variables.
TypeOK ==
    /\ \A r \in DOMAIN talent.rows : talent.rows[r].level \in Levels /\ talent.rows[r].skill # NoSkill
    /\ talent.entries \in [Kinds -> Nat] /\ talent.about \in Texts
    /\ cv.names \subseteq Names \union Range(FirstRows) /\ cv.about \in Texts
    /\ form.status \in {"none", "error"} /\ form.entries \subseteq Kinds
    /\ save.pc \in {"idle", "calls", "answer"}
    /\ edits <= MaxEdits /\ saves <= MaxSaves /\ faults <= MaxFaults

\* "every requested change landed in 8vance": when no part is named as failed, each name,
\* removal, level and text that was asked for is there, and the profile has the text.
AskedCalls(do) == {c[2] : c \in {c \in Range(save.asked) : c[1] = do}}
OkLanded ==
    save.pc = "answer" /\ save.failed = {} =>
        /\ \A ns \in AskedCalls("resolve") : \A n \in ns : Means[n] \in Skills(talent.rows)
        /\ \A r \in AskedCalls("remove") : r \notin DOMAIN talent.rows
        /\ \A u \in AskedCalls("level") :
              \E r \in DOMAIN talent.rows : talent.rows[r] = [skill |-> u.skill, level |-> u.level]
        /\ \A t \in AskedCalls("about") : talent.about = t /\ cv.about = t

\* The stored profile never shows work or schooling that 8vance does not have.
MirrorNeverAhead == \A k \in Kinds : cv.entries[k] <= talent.entries[k]

\* An editor that is closed holds no edit that a later save would send unseen.
NothingLeftOver == ~form.open => form.add = {} /\ form.remove = {} /\ form.entries = {}

\* A save ends whatever fails.
Saving == save.pc # "idle"

\* "Pending edits (not yet saved)": the text is sent only when it was typed.
AboutOnlyTyped == save.pc # "idle" /\ AskedCalls("about") # {} => form.typed

\* The same for work and schooling: each entry made is added once.
EntryOnce == \A k \in Kinds : talent.entries[k] <= entered[k]

\* "mirror the same edits into the local profileJson.cv so the stored fallback view stays in sync".
MirrorInSync ==
    save.pc = "idle" => \A n \in cv.names : Means[n] \in Skills(talent.rows)
=============================================================================
