---------------------------- MODULE ShortlistGrid ----------------------------
(* The cards of a shortlist in the browser: the filters over the rows that the *)
(* page was rendered with, and the favourite and stage of a card, which are    *)
(* shown before the server answers. Rows come and go with the refreshes of the *)
(* page, also while a filter stands and a call is under way.                   *)
EXTENDS Integers, FiniteSetsExt

CONSTANTS Cards,          \* matches of the project
          Card,           \* what is known of each: sources, skills, edu, ...
          AtFirst,        \* the cards of the first rendering
          Streams,        \* how rows change: "grow" and "shrink"
          Facets,         \* the facets of the filter that are touched
          Stages,
          MaxEdits,       \* changes of the filter
          MaxCalls        \* favourites and moves

VARIABLES present,        \* the cards in the database
          stored,         \* the favourite and the stage of each card there
          rows, seen,     \* the cards of the last rendering and what it read
          render,         \* a rendering under way, with what it read
          filters,        \* the filter
          touched,        \* has the user changed the filter since its reset?
          drift,          \* have renderings since then brought "more" levels or "fewer"?
          overrides,      \* favourite and stage shown before and after a call
          call,           \* the call under way of each card
          edits, calls

vars == <<present, stored, rows, seen, render, filters, touched, drift, overrides, call, edits, calls>>

Unknown == -1
NoStage == "none"
NoCall == [at |-> "none", kind |-> "none", stage |-> NoStage, prev |-> NoStage, ok |-> FALSE, favorite |-> FALSE]
Fresh == [c \in Cards |-> [favorite |-> FALSE, stage |-> CHOOSE s \in Stages : TRUE]]
NoRender == [at |-> "idle", rows |-> {}, seen |-> Fresh]

\* The education levels among the rows, in their order; a level is filtered by its
\* place among them.
Levels(R) == UNION {Card[c].edu : c \in R}
Place(l, R) == Cardinality({k \in Levels(R) : k < l})
EduMaxIndex(R) == Max({0, Cardinality(Levels(R)) - 1})
Best(c, R) == IF Card[c].edu = {} THEN Unknown ELSE Place(Max(Card[c].edu), R)

EmptyFilters(eduMax) ==
    [sources |-> {}, skills |-> {}, logic |-> "and", include |-> {}, exclude |-> {},
     functions |-> {}, sectors |-> {}, yearsMin |-> 0, yearsMax |-> 3, yearsUnknown |-> TRUE,
     eduMin |-> 0, eduMax |-> eduMax, eduUnknown |-> TRUE, mustHave |-> FALSE, location |-> "",
     language |-> "", minScore |-> 0, favoritesOnly |-> FALSE, stage |-> "all",
     travelMode |-> "off", travelMax |-> 1, travelUnknown |-> TRUE]

ShortlistGridInit ==
    /\ present = AtFirst
    /\ stored = Fresh
    /\ rows = AtFirst /\ seen = stored
    /\ render = NoRender
    /\ filters = EmptyFilters(EduMaxIndex(AtFirst))
    /\ touched = FALSE /\ drift = {}
    /\ overrides = [c \in Cards |-> [favorite |-> "none", stage |-> NoStage]]
    /\ call = [c \in Cards |-> NoCall]
    /\ edits = 0 /\ calls = 0

\* What a card shows: its override before what its row says.
Favorite(c) == IF overrides[c].favorite = "none" THEN seen[c].favorite ELSE overrides[c].favorite = "yes"
StageOf(c) == IF overrides[c].stage = NoStage THEN seen[c].stage ELSE overrides[c].stage

SomeIn(chosen, own) == chosen = {} \/ chosen \cap own # {}
InRange(v, low, high, unknown) == IF v = Unknown THEN unknown ELSE low <= v /\ v <= high
EduTouched(f) == f.eduMin # 0 \/ f.eduMax # EduMaxIndex(rows) \/ ~f.eduUnknown

\* Does a card pass the filter?
Passes(c) ==
    LET f == filters k == Card[c] IN
    /\ SomeIn(f.sources, k.sources) /\ SomeIn(f.functions, k.functions) /\ SomeIn(f.sectors, k.sectors)
    /\ f.mustHave => k.must
    /\ f.favoritesOnly => Favorite(c)
    /\ f.stage \in {"all", StageOf(c)}
    /\ k.score >= f.minScore
    /\ IF f.logic = "and" THEN f.skills \subseteq k.skills ELSE SomeIn(f.skills, k.skills)
    /\ f.include \subseteq k.words /\ f.exclude \cap k.words = {}
    /\ InRange(k.years, f.yearsMin, f.yearsMax, f.yearsUnknown)
    /\ Levels(rows) # {} /\ EduTouched(f) => InRange(Best(c, rows), f.eduMin, f.eduMax, f.eduUnknown)
    /\ f.location \in {"", k.location} /\ f.language \in {""} \cup k.languages
    /\ f.travelMode # "off" => InRange(k.travel[f.travelMode], 0, f.travelMax, f.travelUnknown)

Visible == {c \in rows : Passes(c)}

FiltersActive ==
    LET f == filters IN
    \/ f.sources # {} \/ f.skills # {} \/ f.include # {} \/ f.exclude # {} \/ f.functions # {} \/ f.sectors # {}
    \/ f.yearsMin # 0 \/ f.yearsMax # 3 \/ ~f.yearsUnknown
    \/ EduTouched(f)
    \/ f.mustHave \/ f.location # "" \/ f.language # "" \/ f.minScore > 0
    \/ f.favoritesOnly \/ f.stage # "all" \/ f.travelMode # "off"

\* --- The filter -----------------------------------------------------------

\* A chip chosen or dropped, a token added or removed.
Flip(S, x) == IF x \in S THEN S \ {x} ELSE S \cup {x}
Lower(a, b) == IF a < b THEN a ELSE b
Higher(a, b) == IF a > b THEN a ELSE b

YearsEdits(f) ==
    {[f EXCEPT !.yearsMin = v, !.yearsMax = Higher(v, @)] : v \in 0..3}
    \cup {[f EXCEPT !.yearsMax = v, !.yearsMin = Lower(v, @)] : v \in 0..3}
    \cup {[f EXCEPT !.yearsUnknown = ~@]}
EduEdits(f) ==
    LET places == 0..(Cardinality(Levels(rows)) - 1) IN
    {[f EXCEPT !.eduMin = v, !.eduMax = Higher(v, @)] : v \in places}
    \cup {[f EXCEPT !.eduMax = v, !.eduMin = Lower(v, @)] : v \in places}
    \cup (IF places = {} THEN {} ELSE {[f EXCEPT !.eduUnknown = ~@]})
SkillEdits(f) ==
    {[f EXCEPT !.skills = Flip(@, x)] : x \in UNION {Card[c].skills : c \in Cards}}
    \cup {[f EXCEPT !.logic = l] : l \in {"and", "or"}}
KeywordEdits(f) ==
    LET words == UNION {Card[c].words : c \in Cards} IN
    {[f EXCEPT !.include = Flip(@, x)] : x \in words} \cup {[f EXCEPT !.exclude = Flip(@, x)] : x \in words}
ChipEdits(f) ==
    LET pools == UNION {Card[c].sources : c \in rows} IN
    (IF Cardinality(pools) > 1 THEN {[f EXCEPT !.sources = Flip(@, x)] : x \in pools} ELSE {})
    \cup {[f EXCEPT !.functions = Flip(@, x)] : x \in UNION {Card[c].functions : c \in rows}}
    \cup {[f EXCEPT !.sectors = Flip(@, x)] : x \in UNION {Card[c].sectors : c \in rows}}
TextEdits(f) ==
    {[f EXCEPT !.location = x] : x \in {""} \cup {Card[c].location : c \in Cards}}
    \cup {[f EXCEPT !.language = x] : x \in {""} \cup UNION {Card[c].languages : c \in Cards}}
TravelEdits(f) ==
    {[f EXCEPT !.travelMode = IF @ = m THEN "off" ELSE m] : m \in {"car", "bike"}}
    \cup (IF f.travelMode = "off" THEN {}
          ELSE {[f EXCEPT !.travelMax = v] : v \in 0..3} \cup {[f EXCEPT !.travelUnknown = ~@]})
ScoreEdits(f) == {[f EXCEPT !.minScore = v] : v \in {0} \cup {Card[c].score : c \in Cards}}
FlagEdits(f) ==
    {[f EXCEPT !.mustHave = ~@], [f EXCEPT !.favoritesOnly = ~@]}
    \cup {[f EXCEPT !.stage = s] : s \in {"all"} \cup Stages}

Edits(f) ==
    UNION {CASE x = "years" -> YearsEdits(f) [] x = "edu" -> EduEdits(f) [] x = "skills" -> SkillEdits(f)
             [] x = "keywords" -> KeywordEdits(f) [] x = "chips" -> ChipEdits(f) [] x = "texts" -> TextEdits(f)
             [] x = "travel" -> TravelEdits(f) [] x = "score" -> ScoreEdits(f) [] x = "flags" -> FlagEdits(f) : x \in Facets}

Edit ==
    /\ edits < MaxEdits /\ edits' = edits + 1
    /\ filters' \in Edits(filters)
    /\ touched' = TRUE
    /\ UNCHANGED <<present, stored, rows, seen, render, drift, overrides, call, calls>>
ClearFilters ==
    /\ filters' = EmptyFilters(EduMaxIndex(rows))
    /\ touched' = FALSE /\ drift' = {}
    /\ UNCHANGED <<present, stored, rows, seen, render, overrides, call, edits, calls>>

\* --- Rows -----------------------------------------------------------------

\* A hydration adds and removes matches.
RowsChange ==
    /\ \/ "grow" \in Streams /\ \E c \in Cards \ present : present' = present \cup {c}
       \/ "shrink" \in Streams /\ \E c \in present : present' = present \ {c}
    /\ UNCHANGED <<stored, rows, seen, render, filters, touched, drift, overrides, call, edits, calls>>
\* A refresh of the page, asked for by the panel, an action or another tab's work.
RenderRead ==
    /\ render.at = "idle"
    /\ render' = [at |-> "made", rows |-> present, seen |-> stored]
    /\ UNCHANGED <<present, stored, rows, seen, filters, touched, drift, overrides, call, edits, calls>>
Clamp(f, R) == [f EXCEPT !.eduMax = Lower(@, EduMaxIndex(R))]
Shown ==
    /\ render.at = "made"
    /\ rows' = render.rows /\ seen' = render.seen
    /\ filters' = Clamp(filters, render.rows)
    /\ LET old == EduMaxIndex(rows) new == EduMaxIndex(render.rows)
       IN  drift' = drift \cup (IF new > old THEN {"more"} ELSE {}) \cup (IF new < old THEN {"fewer"} ELSE {})
    /\ render' = NoRender
    /\ UNCHANGED <<present, stored, touched, overrides, call, edits, calls>>

\* --- A card ---------------------------------------------------------------

\* The controls of a card are disabled while its call is under way.
Free(c) == c \in Visible /\ call[c].at = "none" /\ calls < MaxCalls

OnFavorite(c) ==
    /\ Free(c) /\ calls' = calls + 1
    /\ overrides' = [overrides EXCEPT ![c].favorite = IF Favorite(c) THEN "no" ELSE "yes"]
    /\ call' = [call EXCEPT ![c] = [NoCall EXCEPT !.at = "sent", !.kind = "favorite"]]
    /\ UNCHANGED <<present, stored, rows, seen, render, filters, touched, drift, edits>>
OnStageId(c) ==
    /\ Free(c) /\ calls' = calls + 1
    /\ \E s \in Stages \ {StageOf(c)} :
         /\ overrides' = [overrides EXCEPT ![c].stage = s]
         /\ call' = [call EXCEPT ![c] = [NoCall EXCEPT !.at = "sent", !.kind = "stage", !.stage = s, !.prev = StageOf(c)]]
    /\ UNCHANGED <<present, stored, rows, seen, render, filters, touched, drift, edits>>

\* The server turns the favourite it holds, or moves the card; a move can be refused.
ToggleFavorite(c) ==
    /\ call[c].at = "sent" /\ call[c].kind = "favorite"
    /\ stored' = [stored EXCEPT ![c].favorite = ~@]
    /\ call' = [call EXCEPT ![c].at = "answer", ![c].ok = TRUE, ![c].favorite = ~stored[c].favorite]
    /\ UNCHANGED <<present, rows, seen, render, filters, touched, drift, overrides, edits, calls>>
MoveCandidate(c) ==
    /\ call[c].at = "sent" /\ call[c].kind = "stage"
    /\ \/ stored' = [stored EXCEPT ![c].stage = call[c].stage] /\ call' = [call EXCEPT ![c].at = "answer", ![c].ok = TRUE]
       \/ UNCHANGED stored /\ call' = [call EXCEPT ![c].at = "answer"]
    /\ UNCHANGED <<present, rows, seen, render, filters, touched, drift, overrides, edits, calls>>

\* The answer: the favourite and the stage of the server stay as overrides, and a
\* refused move is taken back.
FavoriteAnswered(c) ==
    /\ call[c].at = "answer" /\ call[c].kind = "favorite"
    /\ overrides' = [overrides EXCEPT ![c].favorite = IF call[c].favorite THEN "yes" ELSE "no"]
    /\ call' = [call EXCEPT ![c] = NoCall]
    /\ UNCHANGED <<present, stored, rows, seen, render, filters, touched, drift, edits, calls>>
StageAnswered(c) ==
    /\ call[c].at = "answer" /\ call[c].kind = "stage"
    /\ overrides' = IF call[c].ok THEN [overrides EXCEPT ![c].stage = call[c].stage]
                    ELSE IF overrides[c].stage # call[c].stage THEN overrides
                    ELSE [overrides EXCEPT ![c].stage = call[c].prev]
    /\ call' = [call EXCEPT ![c] = NoCall]
    /\ UNCHANGED <<present, stored, rows, seen, render, filters, touched, drift, edits, calls>>

CardStep == \E c \in Cards : OnFavorite(c) \/ OnStageId(c) \/ ToggleFavorite(c) \/ MoveCandidate(c)
                             \/ FavoriteAnswered(c) \/ StageAnswered(c)

ShortlistGridNext == Edit \/ ClearFilters \/ RowsChange \/ RenderRead \/ Shown \/ CardStep

ShortlistGridSpec == ShortlistGridInit /\ [][ShortlistGridNext]_vars

-----------------------------------------------------------------------------
(* Properties.                                                               *)

\* Types of the variables, with the ranges in order.
TypeOK ==
    /\ rows \subseteq Cards /\ present \subseteq Cards
    /\ filters.yearsMin \in 0..3 /\ filters.yearsMax \in 0..3
    /\ filters.eduMin \in Nat /\ filters.eduMax \in Nat
    /\ \A c \in Cards : stored[c].stage \in Stages /\ overrides[c].stage \in Stages \cup {NoStage}

\* A range of years is never upside down.
YearsInOrder == filters.yearsMin <= filters.yearsMax

\* A card is hidden only while the filter button has its dot.
HiddenOnlyWhenActive == Visible # rows => FiltersActive

\* The reset shows every card.
ResetShowsAll == ClearFilters => (~FiltersActive)' /\ Visible' = rows'

\* Without a filter of the user's every card is shown, also when renderings take levels
\* away, unless one brought more levels (shortlist-grid.tsx: "Keep eduMax in sync if rows
\* ... change after mount").
UntouchedShowsAll == ~touched /\ "more" \notin drift => Visible = rows

\* The upper end of the education range is a level of the rows, and the lower one is not
\* above it, unless a rendering took levels away (the same comment: "so an out-of-range
\* value never paints").
EduInRange ==
    /\ filters.eduMax <= EduMaxIndex(rows)
    /\ "fewer" \notin drift => filters.eduMin <= filters.eduMax

\* Once a card has no call under way it shows the favourite and the stage that the
\* server holds, whatever refresh was read before and shown after the call.
ShownIsStored ==
    \A c \in rows : call[c].at = "none" => StageOf(c) = stored[c].stage /\ Favorite(c) = stored[c].favorite
=============================================================================
