------------------------------- MODULE CvIntake -------------------------------
(* The first steps of the candidate wizard, where a CV fills the form. A file  *)
(* with text is extracted by an effect that runs when the text changes, a scan *)
(* by the upload itself; both look the city up afterwards. The contact, the    *)
(* skills, the rich profile and the location are abstracted to where they come *)
(* from: the user, or a CV.                                                    *)
EXTENDS Naturals, FiniteSets

CONSTANTS Files,
          TextOf,         \* the text of each file, "" for a scan
          MaxUploads, MaxEdits, MaxFaults

VARIABLES form,           \* step, name, loc, skills, rich and cvText
          upload,         \* the upload, with its file
          extract,        \* the extraction: its text, and whether the name was empty
          guard,          \* autoExtractedFor
          prefills,       \* cities that are being looked up
          current,        \* the CV that was parsed last
          doubts,         \* what was unusual when it was parsed: "overlap", "again"
          uploads, edits, faults

vars == <<form, upload, extract, guard, prefills, current, doubts, uploads, edits, faults>>

None == ""
User == "user"
Cv(f) == IF TextOf[f] = "" THEN f ELSE TextOf[f]
Blank == [step |-> 0, name |-> None, loc |-> None, skills |-> {}, rich |-> None, text |-> None]
NoExtract == [busy |-> FALSE, text |-> None, noName |-> FALSE]

CvIntakeInit ==
    /\ form = Blank
    /\ upload = [pc |-> "idle", file |-> None]
    /\ extract = NoExtract
    /\ guard = None
    /\ prefills = {}
    /\ current = None
    /\ doubts = {}
    /\ uploads = 0 /\ edits = 0 /\ faults = 0

Fails(ok) == /\ ok \/ faults < MaxFaults
             /\ faults' = IF ok THEN faults ELSE faults + 1

\* uploadCv: the guard of the extraction is taken away first.
ChooseFile(f) ==
    /\ form.step = 0 /\ upload.pc = "idle" /\ uploads < MaxUploads
    /\ uploads' = uploads + 1
    /\ upload' = [pc |-> "parse", file |-> f]
    /\ guard' = None
    /\ UNCHANGED <<form, extract, prefills, current, doubts, edits, faults>>

\* What a parsed CV replaces, and what a scan fills in at once.
ReplacedKeepingSkills(f) ==
    [form EXCEPT !.name = IF TextOf[f] = "" THEN Cv(f) ELSE None,
                 !.loc = None, !.rich = IF TextOf[f] = "" THEN Cv(f) ELSE None, !.text = TextOf[f]]
Replaced(f) ==
    [form EXCEPT !.name = IF TextOf[f] = "" THEN Cv(f) ELSE None,
                 !.loc = None, !.skills = {},
                 !.rich = IF TextOf[f] = "" THEN Cv(f) ELSE None, !.text = TextOf[f]]

Start(t, noName) == extract' = [busy |-> TRUE, text |-> t, noName |-> noName]

AutoExtract(new) ==
    IF new.text \notin {form.text, None, guard} /\ ~extract.busy
    THEN guard' = new.text /\ Start(new.text, new.name = None)
    ELSE UNCHANGED <<guard, extract>>

ParseLands(ok) ==
    /\ upload.pc = "parse" /\ Fails(ok)
    /\ IF ok
       THEN /\ form' = Replaced(upload.file)
            /\ current' = Cv(upload.file)
            /\ doubts' = (IF extract.busy \/ prefills # {} THEN {"overlap"} ELSE {})
                            \union (IF Cv(upload.file) = current THEN {"again"} ELSE {})
            /\ upload' = [upload EXCEPT !.pc = IF TextOf[upload.file] = "" THEN "locate" ELSE "idle"]
            /\ AutoExtract(form')
       ELSE /\ upload' = [upload EXCEPT !.pc = "idle"]
            /\ UNCHANGED <<form, current, doubts, extract, guard>>
    /\ UNCHANGED <<prefills, uploads, edits>>

\* A scan looks its city up, then its skills; a failed look-up changes nothing.
LocateLands(ok) ==
    /\ upload.pc = "locate" /\ Fails(ok)
    /\ upload' = [upload EXCEPT !.pc = "resolve"]
    /\ form' = IF ok /\ form.loc = None THEN [form EXCEPT !.loc = Cv(upload.file)] ELSE form
    /\ UNCHANGED <<extract, guard, prefills, current, doubts, uploads, edits>>

ResolveLands(ok) ==
    /\ upload.pc = "resolve" /\ Fails(ok)
    /\ upload' = [upload EXCEPT !.pc = "idle"]
    /\ form' = IF ok THEN [form EXCEPT !.skills = @ \union {Cv(upload.file)}] ELSE form
    /\ UNCHANGED <<extract, guard, prefills, current, doubts, uploads, edits>>

ExtractAgain ==
    /\ form.step = 1 /\ form.text # None /\ ~extract.busy /\ edits < MaxEdits
    /\ edits' = edits + 1
    /\ Start(form.text, form.name = None)
    /\ UNCHANGED <<form, upload, guard, prefills, current, doubts, uploads, faults>>

ExtractLands(ok) ==
    /\ extract.busy /\ Fails(ok)
    /\ extract' = NoExtract
    /\ IF ok
       THEN /\ form' = [form EXCEPT !.name = IF extract.noName THEN extract.text ELSE @,
                                    !.rich = extract.text,
                                    !.skills = @ \union {extract.text}]
            /\ prefills' = IF form.loc = None THEN prefills \union {extract.text} ELSE prefills
       ELSE UNCHANGED <<form, prefills>>
    /\ UNCHANGED <<upload, guard, current, doubts, uploads, edits>>

PrefillLands(c, ok) ==
    /\ c \in prefills /\ Fails(ok)
    /\ prefills' = prefills \ {c}
    /\ form' = IF ok /\ form.loc = None THEN [form EXCEPT !.loc = c] ELSE form
    /\ UNCHANGED <<upload, extract, guard, current, doubts, uploads, edits>>

EditForm ==
    /\ edits < MaxEdits /\ edits' = edits + 1
    /\ \/ form.step = 0 /\ form' = [form EXCEPT !.name = User]
       \/ form.step = 1 /\ form' = [form EXCEPT !.skills = @ \union {User}]
       \/ form.step = 1 /\ form' = [form EXCEPT !.loc = User]
    /\ UNCHANGED <<upload, extract, guard, prefills, current, doubts, uploads, faults>>

Continue ==
    /\ form.step = 0 /\ upload.pc = "idle" /\ ~extract.busy /\ form.name # None
    /\ form' = [form EXCEPT !.step = 1]
    /\ UNCHANGED <<upload, extract, guard, prefills, current, doubts, uploads, edits, faults>>
Back ==
    /\ form.step = 1
    /\ form' = [form EXCEPT !.step = 0]
    /\ UNCHANGED <<upload, extract, guard, prefills, current, doubts, uploads, edits, faults>>

CvIntakeNext ==
    \/ \E f \in Files : ChooseFile(f)
    \/ \E ok \in BOOLEAN : ParseLands(ok) \/ LocateLands(ok) \/ ResolveLands(ok) \/ ExtractLands(ok)
    \/ \E c \in prefills, ok \in BOOLEAN : PrefillLands(c, ok)
    \/ ExtractAgain \/ EditForm \/ Continue \/ Back

CvIntakeSpec == CvIntakeInit /\ [][CvIntakeNext]_vars

-----------------------------------------------------------------------------
(* Properties.                                                               *)

Origins == {Cv(f) : f \in Files} \union {User}

\* Types of every variable.
TypeOK ==
    /\ form.step \in 0..1 /\ {form.name, form.loc, form.rich} \subseteq Origins \union {None}
    /\ form.skills \subseteq Origins /\ User \notin {form.rich, form.text}
    /\ upload.pc \in {"idle", "parse", "locate", "resolve"}
    /\ prefills \subseteq Origins /\ guard \in Origins \union {None}
    /\ extract.busy <=> extract.text # None
    /\ doubts \subseteq {"overlap", "again"}

\* A form holds what its last CV says and what the user typed, and nothing of a CV
\* before it, unless an extraction or a look-up of that one was still under way when the
\* last was parsed (candidate-wizard.tsx: "so a 2nd CV can't inherit them").
NothingInherited ==
    upload.pc = "idle" /\ "overlap" \notin doubts
      => {form.name, form.loc, form.rich} \union form.skills \subseteq {None, User, current}

\* When an upload is over its name is filled in, unless a call failed, something of an
\* earlier CV was under way when it was parsed, or it is the CV that was there already
\* (candidate-wizard.tsx: "so a different CV re-triggers").
NameFilled ==
    upload.pc = "idle" /\ ~extract.busy /\ current # None /\ faults = 0 /\ doubts = {}
      => form.name # None

\* A location picked by the user stays until the next CV, however late the look-up
\* of a city comes.
PickedPlaceKept == form.loc = User /\ form'.loc # User => upload.pc = "parse"

\* A name typed by the user stays until the next CV (candidate-wizard.tsx:
\* "Prefill mandatory fields from the CV when still empty").
TypedNameKept == form.name = User /\ form'.name # User => upload.pc = "parse"
=============================================================================
