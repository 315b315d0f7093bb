----------------------------- MODULE Preferences -----------------------------
(* What a candidate wants, from the forms to the match: the recruiter's wizard  *)
(* and the two forms of the portal write the row, the inverse match reads how   *)
(* far and around which place to look, and the match page tells the recruiter.  *)
EXTENDS Integers, FiniteSets

CONSTANTS Origins,       \* how the row begins: "wizard", "draft", "apply", "legacy"
          LegacyRadii,   \* radii of legacy rows
          Cvs,           \* what a CV shows of education: sets of tiers or "unknown"
          WizardSlides, PortalSlides,   \* positions the slider of each form is moved to
          Modes, Hours, Regions, Cities, Levels,
          Uses,          \* the fields that are edited
          CvFirst,       \* TRUE when the recruiter always begins with a CV that shows education
          MaxEdits, MaxSubmits, MaxLinks

VARIABLES row,      \* the candidate
          form,     \* the form that is open
          seen,     \* the slider at the last submission that was accepted
          run,      \* the last match
          edits, submits, links

vars == <<row, form, seen, run, edits, submits, links>>

None == -1          \* a number that is not set
Nowhere == ""

DefaultKm == 50
MinKm == 10
MaxKm == 100
TierRank == [basic |-> 0, secondary |-> 1, mbo |-> 2, hbo |-> 3, wo |-> 4]
TierKm == [basic |-> 25, secondary |-> 30, mbo |-> 35, hbo |-> 65, wo |-> 85]

-----------------------------------------------------------------------------
(* How far.                                                                    *)

HighestTier(cv) ==
    IF cv \intersect DOMAIN TierRank = {} THEN "unknown"
    ELSE CHOOSE t \in cv \intersect DOMAIN TierRank :
            \A u \in cv \intersect DOMAIN TierRank : TierRank[u] <= TierRank[t]

TravelDefault(cv) ==
    IF HighestTier(cv) = "unknown" THEN DefaultKm ELSE TierKm[HighestTier(cv)]

Clamp(km) ==
    IF km <= 0 THEN DefaultKm
    ELSE IF km < MinKm THEN MinKm ELSE IF km > MaxKm THEN MaxKm ELSE km

Explicit(p) == p.max > 0 \/ p.radius > 0

EffectiveKm(p, cv) ==
    IF p.max > 0 THEN Clamp(p.max)
    ELSE IF p.radius > 0 THEN Clamp(p.radius)
    ELSE Clamp(TravelDefault(cv))

WithTravelDefault(p, cv) ==
    IF ~Explicit(p) /\ HighestTier(cv) # "unknown"
    THEN [p EXCEPT !.max = TierKm[HighestTier(cv)]] ELSE p

-----------------------------------------------------------------------------
(* The row and the forms.                                                      *)

NoPrefs == [max |-> None, radius |-> 0, mode |-> "", remote |-> FALSE, hours |-> None,
            regions |-> {}, located |-> {}]

NoRow == [status |-> "none", link |-> 0, synced |-> FALSE, enough |-> FALSE, level |-> None,
          email |-> FALSE, city |-> Nowhere, coords |-> Nowhere, cv |-> {}, prefs |-> NoPrefs]
Legacy(km) ==
    [NoRow EXCEPT !.status = "kept", !.enough = TRUE, !.email = TRUE, !.level = 25,
                  !.prefs = [NoPrefs EXCEPT !.radius = km, !.remote = TRUE]]

Closed == [pc |-> "closed", link |-> 0, max |-> None, radius |-> 0, hint |-> None, moved |-> None,
           mode |-> "", hours |-> None, regions |-> {}, email |-> TRUE, city |-> Nowhere,
           coords |-> Nowhere, level |-> 0, cv |-> {}, edited |-> FALSE, refused |-> FALSE]

LevelOf(id) == IF id = None THEN 3 ELSE id - 22
LevelSent(level) == IF level >= 1 THEN level + 22 ELSE None

\* The portal reads the education at the top of the profile, where nobody writes it.
PortalHint == TravelDefault({})

WizardForm == [Closed EXCEPT !.pc = "wizard"]
CvForm(r) == [Closed EXCEPT !.pc = "cv", !.link = r.link, !.hint = PortalHint]
SeededForm(r) ==
    [Closed EXCEPT !.pc = "seeded", !.link = r.link, !.hint = PortalHint,
                   !.max = IF r.prefs.radius > 0 THEN r.prefs.radius ELSE None,
                   !.radius = r.prefs.radius,
                   !.mode = IF r.prefs.remote THEN "remote" ELSE "",
                   !.email = r.email, !.city = r.city, !.coords = r.coords, !.level = LevelOf(r.level)]

Shown(f) == IF f.max # None THEN f.max ELSE IF f.hint # None THEN f.hint ELSE 30

NoSeen == [moved |-> None, shown |-> None]
NoRun == [made |-> FALSE, km |-> None, kind |-> "none", place |-> Nowhere]

PreferencesInit ==
    /\ \/ row = NoRow
       \/ "legacy" \in Origins /\ \E km \in LegacyRadii : row = Legacy(km)
    /\ form = Closed /\ seen = NoSeen /\ run = NoRun
    /\ edits = 0 /\ submits = 0 /\ links = 0

OpenWizard ==
    /\ "wizard" \in Origins /\ row.status = "none" /\ form.pc = "closed"
    /\ form' = WizardForm
    /\ UNCHANGED <<row, seen, run, edits, submits, links>>

\* An extracted CV that shows education gives the slider its hint.
ReadCv ==
    /\ form.pc = "wizard" /\ form.cv = {} /\ ~form.edited
    /\ \E cv \in Cvs \ {{}} : form' = [form EXCEPT !.cv = cv, !.hint = TravelDefault(cv)]
    /\ UNCHANGED <<row, seen, run, edits, submits, links>>

Draft ==
    /\ "draft" \in Origins /\ row.status = "none" /\ links < MaxLinks
    /\ row' = [NoRow EXCEPT !.status = "draft", !.link = links + 1]
    /\ links' = links + 1
    /\ UNCHANGED <<form, seen, run, edits, submits>>

\* The public form stores the CV unread, and no preferences.
Apply ==
    /\ "apply" \in Origins /\ row.status = "none"
    /\ row' = [NoRow EXCEPT !.status = "kept", !.email = TRUE]
    /\ UNCHANGED <<form, seen, run, edits, submits, links>>

Invite ==
    /\ row.status # "none" /\ links < MaxLinks
    /\ row' = [row EXCEPT !.link = links + 1]
    /\ links' = links + 1
    /\ UNCHANGED <<form, seen, run, edits, submits>>

LinkUsable(r, l) == l # 0 /\ r.link = l /\ ~r.synced

OpenPortal ==
    /\ form.pc = "closed" /\ LinkUsable(row, row.link)
    /\ form' = IF row.enough THEN SeededForm(row) ELSE CvForm(row)
    /\ UNCHANGED <<row, seen, run, edits, submits, links>>

Leave ==
    /\ form.pc # "closed"
    /\ form' = Closed
    /\ UNCHANGED <<row, seen, run, edits, submits, links>>

-----------------------------------------------------------------------------
(* The fields.                                                                 *)

Edit(use, f) ==
    /\ use \in Uses /\ form.pc # "closed" /\ edits < MaxEdits
    /\ form' = [f EXCEPT !.edited = TRUE]
    /\ edits' = edits + 1
    /\ UNCHANGED <<row, seen, run, submits, links>>

\* At 0 the radius is unset; the wizard also keeps the old field.
Slide(v) ==
    /\ v \in IF form.pc = "wizard" THEN WizardSlides ELSE PortalSlides
    /\ v # Shown(form)
    /\ Edit("slide", [form EXCEPT !.max = IF v = 0 THEN None ELSE v, !.moved = v,
                                  !.radius = IF form.pc = "wizard" THEN v ELSE @])
PickMode(m) == Edit("mode", [form EXCEPT !.mode = IF m = @ THEN "" ELSE m])
TypeHours(h) == h # form.hours /\ Edit("hours", [form EXCEPT !.hours = h])
AddRegion(r) == r \notin form.regions /\ Edit("region", [form EXCEPT !.regions = @ \union {r}])
DropRegion(r) == r \in form.regions /\ Edit("region", [form EXCEPT !.regions = @ \ {r}])
\* The wizard picks a place with its coordinates; in the portal the city is typed.
SetCity(c) ==
    /\ c # form.city /\ form.pc # "cv"
    /\ Edit("city", [form EXCEPT !.city = c, !.coords = IF form.pc = "wizard" THEN c ELSE @])
SetLevel(l) == l # form.level /\ form.pc # "cv" /\ Edit("level", [form EXCEPT !.level = l])
ToggleEmail == Edit("email", [form EXCEPT !.email = ~@])

-----------------------------------------------------------------------------
(* Submitting.                                                                 *)

Submittable(f) == f.pc = "seeded" \/ (f.pc \in {"wizard", "cv"} /\ f.email)

PrefsSent(f) ==
    [max |-> f.max, radius |-> IF f.max # None THEN f.max ELSE f.radius, mode |-> f.mode,
     remote |-> f.mode = "remote", hours |-> f.hours, regions |-> f.regions, located |-> {}]

Valid(f) ==
    /\ f.email
    /\ f.hours = None \/ f.hours \in 1..80
    /\ PrefsSent(f).radius \in 0..500

Submits ==
    /\ Submittable(form) /\ submits < MaxSubmits
    /\ submits' = submits + 1
    /\ UNCHANGED <<run, edits, links>>

\* Without a city there is no location, and no coordinates.
CoordsSent(f) == IF f.city = Nowhere THEN Nowhere ELSE f.coords

Accepted(r) ==
    /\ row' = r
    /\ form' = Closed
    /\ seen' = [moved |-> form.moved, shown |-> Shown(form)]
Refused ==
    /\ form' = [form EXCEPT !.refused = TRUE]
    /\ UNCHANGED <<row, seen>>
BadLink == UNCHANGED <<row, form, seen>>

\* createCandidateAction: the row is kept whether the sync succeeds or not.
SubmitWizard ==
    /\ form.pc = "wizard" /\ (CvFirst => form.cv # {}) /\ Submits
    /\ IF ~Valid(form) THEN Refused
       ELSE \E located \in SUBSET form.regions, synced \in BOOLEAN :
              Accepted([NoRow EXCEPT
                  !.status = "kept", !.synced = synced, !.enough = TRUE, !.email = TRUE,
                  !.level = LevelSent(form.level), !.city = form.city, !.coords = CoordsSent(form),
                  !.cv = form.cv,
                  !.prefs = [WithTravelDefault(PrefsSent(form), form.cv) EXCEPT !.located = located]])

\* submitPortalOnboardingAction: a new profile and new preferences, and the link is used up.
SubmitSeeded ==
    /\ form.pc = "seeded" /\ Submits
    /\ IF ~Valid(form) THEN Refused
       ELSE IF ~LinkUsable(row, form.link) THEN BadLink
       ELSE \E located \in SUBSET form.regions, synced \in BOOLEAN :
              Accepted([NoRow EXCEPT
                  !.status = "kept", !.synced = synced, !.enough = TRUE, !.email = TRUE,
                  !.level = LevelSent(form.level), !.city = form.city, !.coords = CoordsSent(form),
                  !.prefs = [PrefsSent(form) EXCEPT !.located = located]])

\* submitPortalCvOnboardingAction: the skills come from the CV; the link is used up when
\* there are enough of them.
SubmitCv ==
    /\ form.pc = "cv" /\ Submits
    /\ IF ~Valid(form) THEN Refused
       ELSE IF ~LinkUsable(row, form.link) THEN BadLink
       ELSE \E cv \in Cvs, enough \in BOOLEAN, located \in SUBSET form.regions, synced \in BOOLEAN :
              /\ synced => enough
              /\ Accepted([NoRow EXCEPT
                  !.status = IF enough THEN "kept" ELSE "draft",
                  !.link = IF enough THEN 0 ELSE row.link,
                  !.synced = synced, !.enough = enough, !.email = TRUE, !.cv = cv,
                  !.prefs = [PrefsSent(form) EXCEPT !.located = located]])

\* deletePortalCandidateAction.
DeleteFromPortal ==
    /\ form.pc \in {"seeded", "cv"} /\ submits < MaxSubmits
    /\ submits' = submits + 1
    /\ IF row.link = form.link
       THEN row' = NoRow /\ form' = Closed /\ seen' = NoSeen /\ run' = NoRun
       ELSE UNCHANGED <<row, form, seen, run>>
    /\ UNCHANGED <<edits, links>>

-----------------------------------------------------------------------------
(* The match and its page.                                                     *)

\* A visit of the match page syncs the row that could not be synced.
Resync ==
    /\ row.status = "kept" /\ row.enough /\ ~row.synced
    /\ row' = [row EXCEPT !.synced = TRUE]
    /\ UNCHANGED <<form, seen, run, edits, submits, links>>

Home(kind, place) == [kind |-> kind, place |-> place]
Centre(r, override, remote) ==
    IF override # Nowhere THEN {Home("relocation", override)}
    ELSE IF r.prefs.located # {} THEN {Home("region", l) : l \in r.prefs.located}
    ELSE IF remote # Nowhere THEN {Home("home", remote)}
    ELSE IF r.coords # Nowhere THEN {Home("home", r.coords)}
    ELSE {Home("none", Nowhere)}

\* The location at 8vance is what the sync sent, unless it was not stored or is not read.
Match ==
    /\ row.synced
    /\ \E override \in Cities \union {Nowhere}, remote \in {row.coords, Nowhere} :
         \E c \in Centre(row, override, remote) :
            run' = [made |-> TRUE, km |-> EffectiveKm(row.prefs, row.cv), kind |-> c.kind, place |-> c.place]
    /\ UNCHANGED <<row, form, seen, edits, submits, links>>

\* The chip of the match page.
Summary(r) ==
    [km |-> IF ~Explicit(r.prefs) /\ HighestTier(r.cv) # "unknown" THEN TravelDefault(r.cv)
            ELSE EffectiveKm(r.prefs, r.cv),
     says |-> IF Explicit(r.prefs) THEN "chosen"
              ELSE IF HighestTier(r.cv) # "unknown" THEN "education" ELSE "default"]

PreferencesNext ==
    \/ OpenWizard \/ ReadCv \/ Draft \/ Apply \/ Invite \/ OpenPortal \/ Leave
    \/ \E v \in WizardSlides \union PortalSlides : Slide(v)
    \/ \E m \in Modes : PickMode(m)
    \/ \E h \in Hours : TypeHours(h)
    \/ \E r \in Regions : AddRegion(r) \/ DropRegion(r)
    \/ \E c \in Cities \union {Nowhere} : SetCity(c)
    \/ \E l \in Levels : SetLevel(l)
    \/ ToggleEmail
    \/ SubmitWizard \/ SubmitSeeded \/ SubmitCv \/ DeleteFromPortal \/ Resync \/ Match

PreferencesSpec == PreferencesInit /\ [][PreferencesNext]_vars

-----------------------------------------------------------------------------
(* Properties.                                                                 *)

TypeOK ==
    /\ row.status \in {"none", "draft", "kept"} /\ row.link \in 0..MaxLinks
    /\ row.level \in {None} \union 23..27
    /\ row.prefs.radius \in 0..500 /\ row.prefs.hours \in {None} \union 1..80
    /\ row.prefs.located \subseteq row.prefs.regions
    /\ form.pc \in {"closed", "wizard", "seeded", "cv"}
    /\ row.synced => row.enough

\* "Clamped into the ES-safe range": whatever is stored, a match looks no farther than MaxKm
\* and no nearer than MinKm.
RadiusSafe == run.made => run.km \in MinKm..MaxKm

\* The distance the match page gives is the one the match used.
SummaryTrue == run.made => Summary(row).km = run.km

\* "map shows a home marker => matcher has a centre" (service.ts:277-278).
MarkerCentred == run.made /\ row.coords # Nowhere => run.kind # "none"

\* The distance chosen on the slider is the one the match uses, or the nearest that it
\* allows.
ChosenKept == seen.moved > 0 => EffectiveKm(row.prefs, row.cv) = Clamp(seen.moved)

\* "Show the education-derived default the match will actually use": a slider left alone
\* shows the distance the match uses.
ShownUsed == seen.shown # None /\ seen.moved = None => EffectiveKm(row.prefs, row.cv) = seen.shown

\* "Sliding to 0 means no explicit radius, so the education-level default keeps driving the match".
UnsetIsUnset == seen.moved = 0 => EffectiveKm(row.prefs, row.cv) = TravelDefault(row.cv)

\* The summary tells the recruiter that the distance comes from the education when nobody
\* chose it and there is a degree.
SaysWhy ==
    seen.shown # None /\ seen.moved \in {None, 0} /\ HighestTier(row.cv) # "unknown"
        => Summary(row).says = "education"

\* The coordinates of the home are those of its city.
PlaceTrue == row.coords # Nowhere => row.coords = row.city

\* What a form lets be submitted is not refused as invalid.
FormAccepted == ~form.refused

\* A candidate who confirms the seeded form as it is ...
Confirmed == form.pc = "seeded" /\ ~form.edited /\ row'.status = "kept" /\ row' # row
\* ... keeps the radius, the home, the wish to work remotely, which the page seeds,
SeededKept ==
    Confirmed => /\ row'.prefs.remote = row.prefs.remote
                 /\ row.prefs.radius > 0 => EffectiveKm(row'.prefs, row'.cv) = Clamp(row.prefs.radius)
                 /\ row'.city = row.city /\ row'.coords = row.coords
\* ... and the rest of what the recruiter captured: regions and mode of work,
CapturedKept ==
    Confirmed => row'.prefs.regions = row.prefs.regions /\ row'.prefs.mode = row.prefs.mode
\* ... the extracted profile, without which schooling is never sent,
EducationKept == Confirmed => row'.cv = row.cv
\* ... and a skill of unknown level stays unknown.
LevelNotInvented == Confirmed => row'.level = row.level
=============================================================================
