----------------------------- MODULE ProjectForm -----------------------------
(* The editor of a project: its fields, the map on which a place is picked and *)
(* whose points are looked up, the save that stores the criteria and clears    *)
(* the jobs of the pools, and the sync that creates a job in each pool. One    *)
(* tab edits; several syncs at once are the subject of module Matching.        *)
EXTENDS Integers, FiniteSets

CONSTANTS Skills, MinSkills, MaxSkills,
          Languages, MaxLanguages,
          Pools,
          Levels,          \* function levels; 0 is the placeholder's value
          Years,           \* minimum years of experience, with 0
          Spots,           \* points of the map
          CityAt,          \* [spot] -> the city that is found there, or NoCity
          Suggestions,     \* places the search field offers
          Patient,         \* the user waits for one look-up before the next pick
          MaxEdits, MaxLookups, MaxSaves

VARIABLES project,         \* the stored criteria and pools
          job,             \* [pool] -> what its job asks for, or NoJob
          form,            \* the fields, or Closed
          pin,             \* where the marker stands, or NoSpot
          failed,          \* the map shows that the place could not be resolved
          lookups,         \* look-ups under way: [id, spot]
          save,            \* the save under way
          kept,            \* the place when the last look-up began
          edits, looked, saves

vars == <<project, job, form, pin, failed, lookups, save, kept, edits, looked, saves>>

NoCity == "no city"
NoSpot == "no spot"
NoJob == {}
NoPlace == [city |-> NoCity, spot |-> NoSpot]
NoFunction == 0
Closed == [open |-> FALSE, fn |-> NoFunction, level |-> 0, place |-> NoPlace, skills |-> [s \in {} |-> FALSE],
           languages |-> {}, pools |-> {}, years |-> 0]

Criteria(f) == [fn |-> f.fn, level |-> f.level, place |-> f.place, skills |-> f.skills, languages |-> f.languages]

\* createProjectSchema: what the button and the action accept.
ValidFewSkills(f) ==
    /\ f.fn # NoFunction /\ f.level > 0 /\ f.place.city # NoCity
    /\ Cardinality(DOMAIN f.skills) \in 1 .. MaxSkills
    /\ Cardinality(f.languages) <= MaxLanguages /\ f.pools # {}
Valid(f) ==
    /\ f.fn # NoFunction /\ f.level > 0 /\ f.place.city # NoCity
    /\ Cardinality(DOMAIN f.skills) \in MinSkills .. MaxSkills
    /\ Cardinality(f.languages) <= MaxLanguages /\ f.pools # {}

\* The conditions under which a sync starts.
Syncable(p) ==
    /\ p.pools # {} /\ p.fn # NoFunction /\ p.place.city # NoCity
    /\ Cardinality(DOMAIN p.skills) >= MinSkills

-----------------------------------------------------------------------------
(* The fields.                                                                 *)

\* The page opens with the project's criteria; the years are not among them.
Prefilled(p) == [open |-> TRUE, fn |-> p.fn, level |-> p.level, place |-> p.place, skills |-> p.skills,
                 languages |-> p.languages, pools |-> p.pools, years |-> 0]

\* The marker stands where the place is whenever the place is set anew.
MarkerAt(place) == place.spot

Open ==
    /\ ~form.open
    /\ form' = Prefilled(project)
    /\ pin' = MarkerAt(project.place)
    /\ failed' = FALSE /\ kept' = project.place
    /\ edits' = 0 /\ looked' = 0
    /\ UNCHANGED <<project, job, lookups, save, saves>>

Cancel ==
    /\ form.open /\ save.at = "none"
    /\ form' = Closed /\ pin' = NoSpot /\ lookups' = {}
    /\ UNCHANGED <<project, job, failed, save, kept, edits, looked, saves>>

Changes(f) ==
    /\ form.open /\ f # form /\ edits < MaxEdits
    /\ form' = f /\ edits' = edits + 1
    /\ UNCHANGED <<project, job, failed, lookups, save, kept, looked, saves>>
Field(f) == Changes(f) /\ UNCHANGED pin

\* Typing in the function's field deselects it; an item of the list selects it.
PickFunction(n) == Field([form EXCEPT !.fn = n])
PickLevel(l) == Field([form EXCEPT !.level = l])
PickYears(y) == Field([form EXCEPT !.years = y])

Room(f) == Cardinality(DOMAIN f.skills) < MaxSkills
Without(m, s) == [x \in DOMAIN m \ {s} |-> m[x]]
AddSkill(s) ==
    /\ s \notin DOMAIN form.skills
    /\ Room(form)
    /\ Field([form EXCEPT !.skills = [x \in DOMAIN @ \union {s} |-> IF x = s THEN FALSE ELSE @[x]]])
RemoveSkill(s) == s \in DOMAIN form.skills /\ Field([form EXCEPT !.skills = Without(@, s)])
MustHave(s) == s \in DOMAIN form.skills /\ Field([form EXCEPT !.skills[s] = ~@])

\* A language that is picked again is dropped.
Toggled(S, x) == IF x \in S THEN S \ {x} ELSE S \union {x}
ToggleLanguage(l) ==
    /\ l \in form.languages \/ Cardinality(form.languages) < MaxLanguages
    /\ Field([form EXCEPT !.languages = Toggled(@, l)])
TogglePool(p) == Field([form EXCEPT !.pools = Toggled(@, p)])

-----------------------------------------------------------------------------
(* The place.                                                                  *)

SetsPlace(p) == /\ Changes([form EXCEPT !.place = p])
                /\ pin' = MarkerAt(p)

\* A keystroke in the search field, or an item of its list.
TypePlace == /\ Patient => lookups = {}
             /\ SetsPlace(NoPlace)
PickPlace(p) == /\ Patient => lookups = {}
                /\ SetsPlace(p)

\* A click on the map, or the end of a drag, which leaves the marker there.
PickSpot(s, drag) ==
    /\ form.open /\ looked < MaxLookups
    /\ Patient => lookups = {}
    /\ drag => pin # NoSpot /\ pin # s
    /\ lookups' = lookups \union {[id |-> looked + 1, spot |-> s]}
    /\ pin' = IF drag THEN s ELSE pin
    /\ failed' = FALSE
    /\ kept' = form.place
    /\ looked' = looked + 1
    /\ UNCHANGED <<project, job, form, save, edits, saves>>

\* The place of an answer: its city at the very point that was picked.
Found(l, city) == [city |-> city, spot |-> l.spot]

AnswersFound(l, city) == city # NoCity
LookupAnswers(l, city) ==
    /\ lookups' = lookups \ {l}
    /\ IF AnswersFound(l, city)
       THEN /\ form' = [form EXCEPT !.place = Found(l, city)]
            /\ pin' = MarkerAt(Found(l, city))
            /\ UNCHANGED failed
       ELSE /\ failed' = TRUE
            /\ UNCHANGED <<form, pin>>
    /\ UNCHANGED <<project, job, save, kept, edits, looked, saves>>

-----------------------------------------------------------------------------
(* The save.                                                                   *)

NoSave == [at |-> "none", data |-> Closed]

\* The button sends the fields as they are; they can still be edited.
Save ==
    /\ form.open /\ save.at = "none" /\ saves < MaxSaves /\ Valid(form)
    /\ save' = [at |-> "storing", data |-> form]
    /\ saves' = saves + 1
    /\ UNCHANGED <<project, job, form, pin, failed, lookups, kept, edits, looked>>

JobsAfter(old, new) == [p \in Pools |-> NoJob]
Store ==
    /\ save.at = "storing"
    /\ project' = [fn |-> save.data.fn, level |-> save.data.level, place |-> save.data.place,
                   skills |-> save.data.skills, languages |-> save.data.languages, pools |-> save.data.pools]
    /\ job' = JobsAfter(project.pools, save.data.pools)
    /\ save' = [save EXCEPT !.at = "syncing"]
    /\ UNCHANGED <<form, pin, failed, lookups, kept, edits, looked, saves>>

\* A pool that may not be chosen, or a failed transaction: nothing is stored and
\* the form stays open.
Refuse ==
    /\ save.at = "storing"
    /\ save' = NoSave
    /\ UNCHANGED <<project, job, form, pin, failed, lookups, kept, edits, looked, saves>>

\* One skill at least is a must: those marked, or else the first.
Musts(m, first) == IF \E s \in DOMAIN m : m[s] THEN {s \in DOMAIN m : m[s]} ELSE {first}

JobOf(p, first, years) == {[criteria |-> Criteria(p), musts |-> Musts(p.skills, first), years |-> years]}

\* A job is created in every pool that has none, unless the call fails; then
\* the tab leaves for the shortlist.
Sync(failing) ==
    /\ save.at = "syncing" /\ Syncable(project)
    /\ \E first \in DOMAIN project.skills :
         job' = [p \in Pools |->
                   IF p \in project.pools /\ job[p] = NoJob /\ p \notin failing
                   THEN JobOf(project, first, save.data.years) ELSE job[p]]
    /\ save' = NoSave
    /\ form' = Closed /\ pin' = NoSpot /\ lookups' = {}
    /\ UNCHANGED <<project, failed, kept, edits, looked, saves>>

\* A project that the wizard made: its job asks for some years.
ProjectFormInit ==
    /\ \E skills \in {S \in SUBSET Skills : Cardinality(S) = MinSkills}, p \in Suggestions, y \in Years, q \in Pools :
         \E first \in skills :
           /\ project = [fn |-> 1, level |-> 1, place |-> p, skills |-> [s \in skills |-> FALSE],
                         languages |-> {}, pools |-> {q}]
           /\ job = [x \in Pools |-> IF x = q THEN JobOf(project, first, y) ELSE NoJob]
    /\ form = Closed /\ pin = NoSpot /\ failed = FALSE /\ lookups = {} /\ save = NoSave
    /\ kept = NoPlace
    /\ edits = 0 /\ looked = 0 /\ saves = 0

Editing ==
    /\ form.open
    /\ \/ \E n \in {NoFunction, 1} : PickFunction(n)
       \/ \E l \in Levels \union {0} : PickLevel(l)
       \/ \E y \in Years : PickYears(y)
       \/ \E s \in Skills : AddSkill(s)
       \/ \E s \in Skills : RemoveSkill(s)
       \/ \E s \in Skills : MustHave(s)
       \/ \E l \in Languages : ToggleLanguage(l)
       \/ \E p \in Pools : TogglePool(p)
       \/ TypePlace
       \/ \E p \in Suggestions : PickPlace(p)

ProjectFormNext ==
    \/ Open \/ Cancel
    \/ Editing
    \/ \E s \in Spots, d \in BOOLEAN : PickSpot(s, d)
    \/ \E l \in lookups : \E c \in {CityAt[l.spot], NoCity} : LookupAnswers(l, c)
    \/ Save \/ Store \/ Refuse
    \/ \E F \in SUBSET Pools : Sync(F)

ProjectFormSpec == ProjectFormInit /\ [][ProjectFormNext]_vars

-----------------------------------------------------------------------------
(* Properties.                                                                 *)

\* The form has no more skills and languages than it may, a place has a city if
\* it has a point, and a save is one of the tab that is open.
TypeOK ==
    /\ form.open => /\ Cardinality(DOMAIN form.skills) <= MaxSkills
                        /\ Cardinality(form.languages) <= MaxLanguages
    /\ save.at # "none" => form.open
    /\ lookups # {} => form.open
    /\ project.pools \subseteq Pools

\* The city and the point of a place belong together, in the form and as stored.
PlaceOfOnePiece ==
    \A p \in {project.place} \union IF ~form.open THEN {} ELSE {form.place} :
        p \in Suggestions \/ p = NoPlace \/ (p.spot # NoSpot /\ CityAt[p.spot] = p.city)

\* What the form lets through can be matched: the sync, which has gates of its
\* own, never refuses it.
SavedIsMatchable == save.at = "syncing" => Syncable(project)

\* Every job asks for what is stored of its project, and for some must-have,
\* for each one that was marked and no more if any was.
JobAsStored ==
    save.at # "syncing" =>
        \A p \in Pools : \A j \in job[p] :
            /\ p \in project.pools
            /\ j.criteria = Criteria(project)
            /\ j.musts # {}
            /\ \A s \in DOMAIN project.skills : project.skills[s] => s \in j.musts

\* The fields are prefilled from the project: an untouched form asks for what
\* its jobs ask for.
FieldsPrefilled ==
    form.open /\ edits = 0 /\ looked = 0 =>
        \A p \in Pools : \A j \in job[p] : j.years = form.years

\* The marker stands at the place of the form when nothing is looked up.
MarkerTrue == form.open /\ lookups = {} => pin = form.place.spot

\* When the map says that the previous location was kept, it was.
FailureTrue == form.open /\ failed /\ lookups = {} /\ edits = 0 => form.place = kept
==============================================================================
