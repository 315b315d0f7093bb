------------------------------ MODULE SkillTiles ------------------------------
(* The skill suggestions of the project wizard, for one of the three groups.   *)
(* A request is the pool, the search language and the role; its suggestions    *)
(* have an order. A first batch is loaded when a request or a step changes,    *)
(* the next one is staged ahead, and "+5 more" appends the staged batch, or    *)
(* loads one when none is staged. A call made for an older request is not      *)
(* taken back: only the first batch of it is dropped.                          *)
EXTENDS Naturals, Sequences, FiniteSets

CONSTANTS Keys,        \* requests (suggestionsKey)
          Ranking,     \* the suggestions of each request, in their order
          Batch,       \* tiles per batch (5)
          MinSkills, MaxSkills,         \* to go on, and at most (3, 20)
          MaxMoves, MaxMores, MaxFaults

VARIABLES ui,          \* what is rendered
          first,       \* the first batch that is being loaded, or None
          staging,     \* the staged batch, its guard, and the prefetches
          more,        \* the load of a click on "+5 more", or None
          moves, mores, faults

vars == <<ui, first, staging, more, moves, mores, faults>>

None == "none"
NoLoad == [of |-> None, skills |-> {}, batch |-> <<>>]
Ids(tiles) == {tiles[i].id : i \in DOMAIN tiles}

\* suggestSkills: the first suggestions of the request that are not excluded.
NextBatch(k, excluded) ==
    LET left == SelectSeq(Ranking[k], LAMBDA id : id \notin excluded)
        taken == SubSeq(left, 1, IF Len(left) < Batch THEN Len(left) ELSE Batch)
    IN [i \in DOMAIN taken |-> [id |-> taken[i], of |-> k]]

SkillTilesInit ==
    /\ \E k \in Keys :
         ui = [step |-> 1, key |-> k, tiles |-> <<>>, resolved |-> None, exhausted |-> None,
               floor |-> FALSE, reveal |-> FALSE, skills |-> {}]
    /\ first = None
    /\ staging = [buffer |-> <<>>, busy |-> FALSE, calls |-> <<>>]
    /\ more = NoLoad
    /\ moves = 0 /\ mores = 0 /\ faults = 0

Loading(u) == u.step >= 2 /\ u.resolved # u.key
Visible(u) == u.step = 3 /\ ~Loading(u) /\ u.reveal
Open(u) == Ids(u.tiles) \ u.skills

\* appendBatch: tiles whose skill is shown already are left out.
Merge(tiles, batch) == tiles \o SelectSeq(batch, LAMBDA t : t.id \notin Ids(tiles))

\* prefetchNextRound, with the request and the skills of the closure it runs in.
Stage(st, k, shown, skills) ==
    IF st.busy \/ st.buffer # <<>> THEN st
    ELSE [st EXCEPT !.busy = TRUE,
                    !.calls = Append(@, [shown |-> shown, batch |-> NextBatch(k, shown \union skills)])]

\* The effect that stages the round after the tiles shown.
AutoStage(u, st) ==
    IF u.step = 3 /\ u.reveal /\ u.tiles # <<>>
    THEN Stage(st, u.key, Ids(u.tiles), u.skills) ELSE st

\* The effect that arms the timer of the skeleton: it runs when the step or the
\* loading changed.
RearmOnStep(u) == IF u.step = ui.step THEN u ELSE [u EXCEPT !.floor = u.step = 3 /\ ~Loading(u)]
Rearm(u) == IF u.step = ui.step /\ Loading(u) = Loading(ui) THEN u
            ELSE [u EXCEPT !.floor = u.step = 3 /\ ~Loading(u)]

\* The effect that loads the first batch and empties the staged one.
Reload(u) ==
    IF u.step < 2
    THEN first' = None /\ UNCHANGED staging
    ELSE /\ first' = u.key
         /\ staging' = [staging EXCEPT !.buffer = <<>>, !.busy = FALSE]

Move(s) ==
    /\ moves < MaxMoves /\ s \in {ui.step - 1, ui.step + 1} \cap 1..4
    /\ ui.step = 3 /\ s = 4 => Cardinality(ui.skills) >= MinSkills
    /\ ui' = Rearm([ui EXCEPT !.step = s, !.reveal = FALSE])
    /\ Reload(ui')
    /\ moves' = moves + 1
    /\ UNCHANGED <<more, mores, faults>>

\* Another role on the first of these steps, another search language on three.
Switch(k) ==
    /\ moves < MaxMoves /\ ui.step \in 1..3 /\ k # ui.key
    /\ ui' = Rearm([ui EXCEPT !.key = k, !.reveal = FALSE])
    /\ Reload(ui')
    /\ moves' = moves + 1
    /\ UNCHANGED <<more, mores, faults>>

Answered(ok) == /\ ok \/ faults < MaxFaults
                /\ faults' = IF ok THEN faults ELSE faults + 1

FirstLands(ok) ==
    /\ first # None /\ Answered(ok)
    /\ ui' = Rearm([ui EXCEPT !.tiles = IF ok THEN NextBatch(first, {}) ELSE <<>>, !.resolved = first])
    /\ staging' = AutoStage(ui', staging)
    /\ first' = None
    /\ UNCHANGED <<more, moves, mores>>

FloorPasses ==
    /\ ui.floor
    /\ ui' = [ui EXCEPT !.floor = FALSE, !.reveal = TRUE]
    /\ staging' = AutoStage(ui', staging)
    /\ UNCHANGED <<first, more, moves, mores, faults>>

PrefetchLands(i, ok) ==
    /\ i \in DOMAIN staging.calls /\ Answered(ok)
    /\ LET call == staging.calls[i] IN
       staging' = [buffer |-> IF ok THEN SelectSeq(call.batch, LAMBDA t : t.id \notin call.shown) ELSE <<>>,
                   busy |-> FALSE,
                   calls |-> SubSeq(staging.calls, 1, i - 1) \o SubSeq(staging.calls, i + 1, Len(staging.calls))]
    /\ UNCHANGED <<ui, first, more, moves, mores>>

AddSkill(id) ==
    /\ Visible(ui) /\ id \in Open(ui) /\ Cardinality(ui.skills) < MaxSkills
    /\ ui' = [ui EXCEPT !.skills = @ \union {id}]
    /\ staging' = AutoStage(ui', staging)
    /\ UNCHANGED <<first, more, moves, mores, faults>>

RemoveSkill(id) ==
    /\ ui.step = 3 /\ id \in ui.skills /\ moves < MaxMoves
    /\ ui' = [ui EXCEPT !.skills = @ \ {id}]
    /\ staging' = AutoStage(ui', staging)
    /\ moves' = moves + 1
    /\ UNCHANGED <<first, more, mores, faults>>

\* "+5 more" with a staged batch. An update is queued already when the tiles are
\* appended, so React runs the updater later: the ids it returns are none yet,
\* and the following round is staged without them.
MoreStaged ==
    /\ Visible(ui) /\ Open(ui) # {} /\ ui.exhausted # ui.key /\ more = NoLoad
    /\ mores < MaxMores /\ staging.buffer # <<>>
    /\ mores' = mores + 1
    /\ ui' = [ui EXCEPT !.tiles = Merge(@, staging.buffer)]
    /\ staging' = AutoStage(ui', Stage([staging EXCEPT !.buffer = <<>>], ui.key, {}, ui.skills))
    /\ UNCHANGED <<first, more, moves, faults>>

\* "+5 more" before a batch is staged.
MoreLoads ==
    /\ Visible(ui) /\ Open(ui) # {} /\ ui.exhausted # ui.key /\ more = NoLoad
    /\ mores < MaxMores /\ staging.buffer = <<>>
    /\ mores' = mores + 1
    /\ more' = [of |-> ui.key, skills |-> ui.skills,
                batch |-> NextBatch(ui.key, Ids(ui.tiles) \union ui.skills)]
    /\ UNCHANGED <<ui, first, staging, moves, faults>>

\* React may or may not run the updater of the tiles at once.
MoreLands(ok, atonce) ==
    /\ more # NoLoad /\ Answered(ok)
    /\ IF ok /\ more.batch # <<>>
       THEN /\ ui' = [ui EXCEPT !.tiles = Merge(@, more.batch)]
            /\ staging' = AutoStage(ui', Stage(staging, more.of, IF atonce THEN Ids(ui'.tiles) ELSE {},
                                               more.skills))
       ELSE /\ ui' = [ui EXCEPT !.exhausted = more.of]
            /\ UNCHANGED staging
    /\ more' = NoLoad
    /\ UNCHANGED <<first, moves, mores>>

Calls == \/ \E ok, atonce \in BOOLEAN : FirstLands(ok) \/ MoreLands(ok, atonce)
         \/ \E ok \in BOOLEAN, i \in DOMAIN staging.calls : PrefetchLands(i, ok)

User == \/ \E s \in 1..4 : Move(s)
        \/ \E k \in Keys : Switch(k)
        \/ \E id \in Ids(ui.tiles) \union ui.skills : AddSkill(id) \/ RemoveSkill(id)
        \/ MoreStaged \/ MoreLoads

SkillTilesNext == Calls \/ FloorPasses \/ User

SkillTilesSpec == SkillTilesInit /\ [][SkillTilesNext]_vars

\* A call is answered in the end, and the timer of the skeleton runs out.
LiveSkillTilesSpec == SkillTilesSpec /\ WF_vars(Calls) /\ WF_vars(FloorPasses)

-----------------------------------------------------------------------------
(* Properties.                                                               *)

Tiles == [id : 1..7, of : Keys]

\* Types of every variable.
TypeOK ==
    /\ ui.step \in 1..4 /\ ui.key \in Keys /\ ui.tiles \in Seq(Tiles)
    /\ {ui.resolved, ui.exhausted, first} \subseteq Keys \union {None}
    /\ ui.skills \subseteq 1..7 /\ Cardinality(ui.skills) <= MaxSkills
    /\ staging.buffer \in Seq(Tiles) /\ staging.busy \in BOOLEAN
    /\ \A i \in DOMAIN staging.calls : staging.calls[i].batch \in Seq(Tiles)
    /\ more.of \in Keys \union {None} /\ more.batch \in Seq(Tiles)

\* No skill is offered twice, whatever batches were appended in whatever order
\* (appendBatch de-dupes).
NoTileTwice == Cardinality(Ids(ui.tiles)) = Len(ui.tiles)

\* When the wizard is done loading, the tiles begin with a batch of the request
\* that is asked for now, not with the late answer of an older one.
HeadIsCurrent == ~Loading(ui) /\ ui.step >= 2 /\ ui.tiles # <<>> => ui.tiles[1].of = ui.key

\* Whoever stays on the skills step sees tiles in the end, however the language
\* was switched while batches were loading.
Blank == ui.step = 3 /\ ~Visible(ui)

\* No tile of an older role is appended (wizard.tsx: the buffer is cleared "so we
\* don't append stale tiles from a previous role").
NoStaleTiles ==
    ~Loading(ui) /\ ui.step >= 2 => \A i \in DOMAIN ui.tiles : ui.tiles[i].of = ui.key

\* What is staged is not shown yet (wizard.tsx: "the staged batch excludes both
\* the shown ids and anything already in the buffer").
StagedIsNew == Ids(staging.buffer) \intersect Ids(ui.tiles) = {}

\* Two prefetches of a group never run at a time (wizard.tsx: "Guarded so we never
\* run two prefetches for the same bucket").
OnePrefetch == Len(staging.calls) <= 1

\* The button goes only when there are no more suggestions (wizard.tsx: "No
\* further distinct suggestions for this bucket -- hide the button").
GoneMeansNoMore ==
    ui.exhausted = ui.key /\ ui.step >= 2 /\ ~Loading(ui)
      => NextBatch(ui.key, Ids(ui.tiles) \union ui.skills) = <<>>
=============================================================================
