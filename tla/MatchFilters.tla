----------------------------- MODULE MatchFilters -----------------------------
(* The jobs a candidate was matched with, in the browser: the filters over the *)
(* rows of the run, their seeds from the candidate's preferences, the controls *)
(* that are rendered for them, the names of what hides the rows, and the city  *)
(* search that matches again around another place. The rows are replaced by    *)
(* every refresh of the page while the filter stands.                          *)
EXTENDS Integers, FiniteSets

CONSTANTS Jobs,
          Job,            \* what is known of each: city, source, hours, travel, ...
          RowLists,       \* the sets of jobs that a rendering may show
          Preferences,    \* contracts, remote, hours, salary of the candidate
          Lower,          \* a contract type of a feed in lower case
          Preset,         \* the travel filter offered: its mode and maximum
          HasOrigin,      \* is the centre of the run known?
          CityOrder,      \* the alphabetical place of a city
          Queries, Short, \* city searches, and those too short to look up
          Facets,         \* the facets that the recruiter touches
          MaxEdits, MaxReloads


VARIABLES rows,           \* the jobs of the last rendering
          status,         \* the status of its run
          filter,         \* the state of every facet
          touched,        \* has the recruiter changed a facet?
          city,           \* the text of the city search
          lookup,         \* its debounced request
          geo, geoOpen,   \* the search whose cities are suggested; is the list open?
          pending,        \* a new match around another centre
          edits, reloads

vars == <<rows, status, filter, touched, city, lookup, geo, geoOpen, pending, edits, reloads>>

Unknown == -1
NoSalary == [min |-> Unknown, max |-> Unknown]
None == ""              \* no city, source or contract type
Modes == {"car", "bike", "ov"}

Values(field, R) == {Job[j][field] : j \in R} \ {None}

SeedContracts(R) ==
    {S \in SUBSET Values("contract", R) :
        /\ \A c \in S : Lower[c] \in Preferences.contracts
        /\ \A p \in Preferences.contracts :
             Cardinality({c \in S : Lower[c] = p}) =
                 IF \E c \in Values("contract", R) : Lower[c] = p THEN 1 ELSE 0}
SeedRemote(R) == Preferences.remote /\ \E j \in R : Job[j].remote

Cleared ==
    [agencies |-> FALSE, query |-> "", sources |-> {}, contracts |-> {}, cities |-> {},
     score |-> 0, origin |-> "all", remote |-> FALSE, published |-> "all", mode |-> "off",
     unknown |-> TRUE, km |-> 0, hours |-> FALSE, salary |-> FALSE, max |-> filter.max]

MatchFiltersInit ==
    /\ rows \in RowLists
    /\ status \in {"none", "MATCHING", "READY", "FAILED"}
    /\ rows # {} => status # "none"
    /\ \E S \in SeedContracts(rows) :
         filter = [agencies |-> TRUE, query |-> "", sources |-> {}, contracts |-> S, cities |-> {},
                   score |-> 0, origin |-> "all", remote |-> SeedRemote(rows), published |-> "all",
                   mode |-> "off", unknown |-> TRUE, km |-> 0, hours |-> FALSE, salary |-> FALSE,
                   max |-> Preset.max]
    /\ touched = FALSE
    /\ city = "" /\ lookup = "none"
    /\ geo = "" /\ geoOpen = FALSE
    /\ pending = FALSE
    /\ edits = 0 /\ reloads = 0

-----------------------------------------------------------------------------
\* A range whose one end is missing is a point; without both nothing can be said.
Known(v, other) == IF v = Unknown THEN other ELSE v
Misfit(low, high, slack, wishLow, wishHigh) ==
    /\ low # Unknown /\ high # Unknown
    /\ wishLow > high + slack \/ wishHigh < low - slack
MisfitHours(j) ==
    /\ Preferences.hours # Unknown
    /\ Misfit(Known(Job[j].hoursMin, Job[j].hoursMax), Known(Job[j].hoursMax, Job[j].hoursMin),
              2, Preferences.hours, Preferences.hours)
MisfitSalary(j) ==
    /\ Preferences.salary # NoSalary
    /\ Misfit(Known(Job[j].salaryLow, Job[j].salaryHigh), Known(Job[j].salaryHigh, Job[j].salaryLow),
              0, Preferences.salary.min, Preferences.salary.max)

TooFar(j) ==
    LET rank == Job[j].travel[filter.mode] IN
    IF rank = Unknown THEN ~filter.unknown ELSE rank > filter.max

\* Does a facet, as it is set, drop a job?
Drops(facet, j) ==
    CASE facet = "agencies" -> filter.agencies /\ Job[j].agency
      [] facet = "query" -> filter.query # "" /\ filter.query \notin Job[j].words
      [] facet = "origin" -> filter.origin # "all" /\ (filter.origin = "ownpool") # Job[j].own
      [] facet = "remote" -> filter.remote /\ ~Job[j].remote
      [] facet = "published" ->
            filter.published # "all" /\
            (Job[j].age = Unknown \/ Job[j].age > (IF filter.published = "7d" THEN 7 ELSE 30))
      [] facet = "cities" -> filter.cities # {} /\ Job[j].city \notin filter.cities
      [] facet = "sources" -> filter.sources # {} /\ Job[j].source \notin filter.sources
      [] facet = "contracts" -> filter.contracts # {} /\ Job[j].contract \notin filter.contracts
      [] facet = "score" -> Job[j].score < filter.score
      [] facet = "hours" -> filter.hours /\ MisfitHours(j)
      [] facet = "salary" -> filter.salary /\ MisfitSalary(j)
      [] facet = "distance" ->
            filter.km > 0 /\ HasOrigin /\ Job[j].km # Unknown /\ Job[j].km > filter.km
      [] facet = "travel" -> filter.mode # "off" /\ TooFar(j)

AllFacets == {"agencies", "query", "origin", "remote", "published", "cities", "sources",
              "contracts", "score", "hours", "salary", "distance", "travel"}

Hiding(j) == {f \in AllFacets : Drops(f, j)}
Visible == {j \in rows : Hiding(j) = {}}

HasTravel == \E j \in rows : \E m \in Modes : Job[j].travel[m] # Unknown
HasOv == \E j \in rows : Job[j].travel["ov"] # Unknown

\* The facets that differ from "off".
On == {f \in AllFacets :
    CASE f = "agencies" -> filter.agencies
      [] f = "query" -> filter.query # ""
      [] f = "origin" -> filter.origin # "all"
      [] f = "remote" -> filter.remote
      [] f = "published" -> filter.published # "all"
      [] f = "cities" -> filter.cities # {}
      [] f = "sources" -> filter.sources # {}
      [] f = "contracts" -> filter.contracts # {}
      [] f = "score" -> filter.score > 0
      [] f = "hours" -> filter.hours
      [] f = "salary" -> filter.salary
      [] f = "distance" -> filter.km > 0
      [] f = "travel" -> filter.mode # "off"}

\* The names that an empty list gives for what hides its rows.
Powerless(travel) == {f \in {"agencies", "travel"} :
    \/ f = "agencies" /\ \A j \in rows : ~Job[j].agency
    \/ f = "travel" /\ ~travel}
Named == On \ Powerless(HasTravel \/ ~filter.unknown)

CanFitHours ==
    /\ Preferences.hours # Unknown
    /\ \E j \in rows : Job[j].hoursMin # Unknown \/ Job[j].hoursMax # Unknown
CanFitSalary ==
    /\ Preferences.salary # NoSalary
    /\ \E j \in rows : Job[j].salaryLow # Unknown \/ Job[j].salaryHigh # Unknown
Controls ==
    {"agencies", "query", "score"}
    \cup {f \in AllFacets :
        CASE f = "origin" -> (\E j \in rows : Job[j].own) /\ \E j \in rows : ~Job[j].own
          [] f = "remote" -> \E j \in rows : Job[j].remote
          [] f = "published" -> \E j \in rows : Job[j].age # Unknown
          [] f = "hours" -> CanFitHours
          [] f = "salary" -> CanFitSalary
          [] f = "distance" -> HasOrigin /\ \E j \in rows : Job[j].km # Unknown
          [] f = "travel" -> HasTravel
          [] f = "cities" -> Values("city", rows) # {}
          [] f = "sources" -> Values("source", rows) # {}
          [] f = "contracts" -> Values("contract", rows) # {}
          [] OTHER -> FALSE}

\* The first three cities, in their order, have a chip.
CityChips == {c \in Values("city", rows) :
                Cardinality({d \in Values("city", rows) : CityOrder[d] < CityOrder[c]}) < 3}

\* The panel is rendered for rows, or for a run that is ready.
PanelShown == rows # {} \/ status = "READY"
-----------------------------------------------------------------------------
Toggle(S, v) == (S \ {v}) \cup ({v} \ S)

\* What each control can make of the filter.
ListEdits ==
    {[filter EXCEPT !.cities = Toggle(@, c)] : c \in CityChips}
    \cup {[filter EXCEPT !.sources = Toggle(@, c)] : c \in Values("source", rows)}
    \cup {[filter EXCEPT !.contracts = Toggle(@, c)] : c \in Values("contract", rows)}
TravelEdits ==
    LET asked == {m \in Modes : m = "ov" => HasOv} IN
    {[filter EXCEPT !.mode = IF @ = m THEN "off" ELSE m] : m \in asked}
    \cup (IF filter.mode = "off" /\ Preset.mode # "off"
          THEN {[filter EXCEPT !.mode = Preset.mode, !.max = Preset.max]}
          ELSE {})
    \cup (IF filter.mode # "off"
          THEN {[filter EXCEPT !.max = m] : m \in {0, 2}} \cup {[filter EXCEPT !.unknown = ~@]}
          ELSE {})
FlagEdits(facet) ==
    CASE facet = "agencies" -> {[filter EXCEPT !.agencies = ~@]}
      [] facet = "remote" -> {[filter EXCEPT !.remote = ~@]}
      [] facet = "hours" -> {[filter EXCEPT !.hours = ~@]}
      [] facet = "salary" -> {[filter EXCEPT !.salary = ~@]}
      [] OTHER -> {}
RangeEdits(facet) ==
    CASE facet = "query" -> {[filter EXCEPT !.query = w] : w \in {"", "nurse"}}
      [] facet = "origin" -> {[filter EXCEPT !.origin = o] : o \in {"all", "ownpool", "open"}}
      [] facet = "published" -> {[filter EXCEPT !.published = p] : p \in {"all", "7d", "30d"}}
      [] facet = "score" -> {[filter EXCEPT !.score = n] : n \in {0, 50}}
      [] facet = "distance" -> {[filter EXCEPT !.km = n] : n \in {0, 20}}
      [] OTHER -> {}
Edits(facet) ==
    IF facet = "travel" THEN TravelEdits
    ELSE IF facet \in {"cities", "sources", "contracts"}
    THEN {f \in ListEdits : \A other \in {"cities", "sources", "contracts"} \ {facet} : f[other] = filter[other]}
    ELSE FlagEdits(facet) \cup RangeEdits(facet)

\* A control of the panel is used.
Touch ==
    /\ PanelShown /\ edits < MaxEdits
    /\ \E facet \in Facets \cap Controls : \E f \in Edits(facet) \ {filter} : filter' = f
    /\ touched' = TRUE /\ edits' = edits + 1
    /\ UNCHANGED <<rows, status, city, lookup, geo, geoOpen, pending, reloads>>

\* The button under an empty list.
ShowAll ==
    /\ rows # {} /\ Visible = {}
    /\ filter' = Cleared
    /\ touched' = TRUE
    /\ UNCHANGED <<rows, status, city, lookup, geo, geoOpen, pending, edits, reloads>>

-----------------------------------------------------------------------------
TypeCity(q) ==
    /\ PanelShown /\ "city" \in Facets /\ q # city /\ edits < MaxEdits
    /\ city' = q
    /\ lookup' = IF q \in Short THEN "none" ELSE q
    /\ geo' = IF q \in Short THEN "" ELSE geo
    /\ edits' = edits + 1
    /\ UNCHANGED <<rows, status, filter, touched, geoOpen, pending, reloads>>

\* The answer of the request: cities, perhaps none; a failed one changes nothing.
CitiesFound ==
    /\ lookup # "none"
    /\ lookup' = "none"
    /\ \/ geo' \in {lookup, ""} /\ geoOpen' = TRUE
       \/ UNCHANGED <<geo, geoOpen>>
    /\ UNCHANGED <<rows, status, filter, touched, city, pending, edits, reloads>>

\* The field gets the focus, or 150 ms have passed since it lost it.
FocusCity ==
    /\ PanelShown /\ geo # "" /\ geoOpen' = TRUE
    /\ UNCHANGED <<rows, status, filter, touched, city, lookup, geo, pending, edits, reloads>>
LeaveCity ==
    /\ geoOpen /\ geoOpen' = FALSE
    /\ UNCHANGED <<rows, status, filter, touched, city, lookup, geo, pending, edits, reloads>>

\* A suggested city is pressed: match again around it.
RematchNear ==
    /\ PanelShown /\ geoOpen /\ geo # "" /\ ~pending
    /\ reloads < MaxReloads
    /\ geoOpen' = FALSE /\ city' = "" /\ geo' = "" /\ lookup' = "none"
    /\ pending' = TRUE
    /\ UNCHANGED <<rows, status, filter, touched, edits, reloads>>

\* Back to the candidate's home.
ResetToHome ==
    /\ PanelShown /\ "city" \in Facets /\ ~pending
    /\ reloads < MaxReloads
    /\ pending' = TRUE
    /\ UNCHANGED <<rows, status, filter, touched, city, lookup, geo, geoOpen, edits, reloads>>

\* The page is rendered again, by the answer of a rematch or by the poll: other
\* rows, perhaps another status; the filter is not seeded again.
Rerender ==
    /\ reloads < MaxReloads
    /\ rows' \in RowLists
    /\ status' \in {"MATCHING", "READY", "FAILED"}
    /\ reloads' = reloads + 1
Rematched ==
    /\ pending /\ pending' = FALSE
    /\ \/ Rerender
       \/ UNCHANGED <<rows, status, reloads>>
    /\ UNCHANGED <<filter, touched, city, lookup, geo, geoOpen, edits>>
Refresh ==
    /\ Rerender
    /\ UNCHANGED <<filter, touched, city, lookup, geo, geoOpen, pending, edits>>

MatchFiltersNext ==
    \/ Touch \/ ShowAll
    \/ \E q \in Queries : TypeCity(q)
    \/ CitiesFound \/ FocusCity \/ LeaveCity
    \/ RematchNear \/ ResetToHome \/ Rematched \/ Refresh

MatchFiltersSpec == MatchFiltersInit /\ [][MatchFiltersNext]_vars

-----------------------------------------------------------------------------
(* Properties.                                                               *)

\* Types of the variables.
TypeOK ==
    /\ rows \in RowLists /\ status \in {"none", "MATCHING", "READY", "FAILED"}
    /\ filter.cities \subseteq DOMAIN CityOrder /\ filter.contracts \subseteq DOMAIN Lower
    /\ filter.origin \in {"all", "ownpool", "open"} /\ filter.mode \in Modes \cup {"off"}
    /\ city \in Queries /\ lookup \in Queries \cup {"none"} /\ geo \in Queries

\* Every facet that hides a row is named by the empty list (match-client.tsx:
\* "shows exactly WHICH filters hid the rows").
HidingIsNamed == \A j \in rows : Hiding(j) \subseteq Named

\* What a preference switched on at the first rendering has its control there.
SeedsHaveControls == ~touched /\ reloads = 0 => On \subseteq Controls

\* A row that a facet hides can be shown again: the facet has its control, with a
\* chip for a chosen city, or nothing is left and the button for all rows is there
\* ("the loaded rows are always reachable").
Reachable ==
    Visible = {} \/ \A j \in rows : \A f \in Hiding(j) :
        /\ f \in Controls
        /\ f = "cities" => filter.cities \cap CityChips # {}

\* The button shows every row, at once.
AllShown == ShowAll => Visible' = rows'

\* Cities are suggested only for a search: none for a text that is too short.
SuggestedForSearch == city \in Short => geo = ""

\* Until the recruiter touches a facet the preferences drive the list: contract types
\* and remote work as the rows at hand offer them.
PreferencesDrive == ~touched => filter.contracts \in SeedContracts(rows) /\ filter.remote = SeedRemote(rows)
=============================================================================
