------------------------------ MODULE Pipeline ------------------------------
(***************************************************************************)
(* The Kanban board of one organization: its stages (lib/pipeline.ts,       *)
(* app/app/settings/pipeline/actions.ts) and the cards each recruiter puts  *)
(* in them (app/app/projects/[id]/pipeline/actions.ts).  Server actions are *)
(* processes that interleave at every await; a transaction is one step.     *)
(* Stage ids are numbers in the order of creation, 0 is a null stageId.     *)
(***************************************************************************)
EXTENDS Naturals, Sequences, FiniteSets, SequencesExt

CONSTANTS
  Recruiters,  \* members of the organization
  Matches,     \* Match rows of its projects
  Talent,      \* the talent of a match, and
  Tenant,      \* the pool it was found in
  Defaults,    \* the seeded stages in order: [gated, terminal]; the last is "rejected"
  LegacyKey,   \* the default stage a legacy ShortlistStage value stands for
  Requests,    \* slots for server actions in progress
  Kinds,       \* server actions and events in this instance
  MaxStages,   \* bound on the stages ever created
  MaxOps       \* bound on the server actions and events

PipelineAssumption ==
  /\ DOMAIN Talent = Matches /\ DOMAIN Tenant = Matches
  /\ Defaults \in Seq([gated : BOOLEAN, terminal : BOOLEAN]) /\ Defaults # <<>>
  /\ \A v \in DOMAIN LegacyKey : LegacyKey[v] \in DOMAIN Defaults
  /\ "NEW" \in DOMAIN LegacyKey
  /\ Kinds \subseteq {"open", "add", "rename", "up", "down", "remove", "move",
                      "legacy", "reveal", "expire"}
  /\ MaxStages \in Nat /\ MaxOps \in Nat

VARIABLES
  stages,    \* PipelineStage rows
  entry,     \* ShortlistEntry rows, by recruiter and match
  revealed,  \* the (talent, tenant) pairs each recruiter has an active reveal of,
  ever,      \* and those each ever had
  request, ops

rows == <<stages, entry>>
lockVars == <<revealed, ever>>
pipelineVars == <<stages, entry, revealed, ever, request, ops>>

StageIds == 1..MaxStages
NoStage == [row |-> "none", pos |-> 0, name |-> 0, gated |-> TRUE, terminal |-> FALSE]
NoEntry == [row |-> FALSE, stage |-> 0, legacy |-> "NEW"]
Live == {s \in StageIds : stages[s].row = "live"}
\* getOrgStages: by position, then by creation.
Board == SetToSortSeq(Live, LAMBDA a, b :
           stages[a].pos < stages[b].pos \/ (stages[a].pos = stages[b].pos /\ a < b))
NextId == Cardinality({s \in StageIds : stages[s].row # "none"}) + 1
Pair(m) == <<Talent[m], Tenant[m]>>

DefaultStage(i) == [row |-> "live", pos |-> i - 1, name |-> i,
                    gated |-> Defaults[i].gated, terminal |-> Defaults[i].terminal]
\* createMany of the defaults, in ids from n on.
SeededFrom(n) == [s \in StageIds |->
  IF s \in n..(n + Len(Defaults) - 1) THEN DefaultStage(s - n + 1) ELSE stages[s]]

NoRequest == [pc |-> "idle", kind |-> "open", by |-> CHOOSE u \in Recruiters : TRUE,
              stage |-> 0, match |-> CHOOSE m \in Matches : TRUE, seen |-> <<>>,
              seeds |-> 0]

\* A board nobody has opened yet, or one that was seeded.
PipelineInit ==
  /\ \E seeded \in BOOLEAN : stages = [s \in StageIds |->
       IF seeded /\ s <= Len(Defaults) THEN DefaultStage(s) ELSE NoStage]
  /\ entry = [u \in Recruiters |-> [m \in Matches |-> NoEntry]]
  /\ revealed = [u \in Recruiters |-> {}] /\ ever = revealed
  /\ request = [r \in Requests |-> NoRequest]
  /\ ops = 0

---------------------------------------------------------------------------
(* Requests: each one first makes sure the organization has stages *)

At(r, pc) == request[r].pc = pc
GoTo(r, pc) == request' = [request EXCEPT ![r].pc = pc]
Done(r) == request' = [request EXCEPT ![r] = NoRequest]
Counts == ops < MaxOps /\ ops' = ops + 1
Reads == UNCHANGED <<rows, lockVars, ops>>

\* addStage seeds once more itself.
Begin(r) ==
  /\ At(r, "idle") /\ Counts
  /\ \E k \in Kinds \ {"legacy", "reveal", "expire"}, u \in Recruiters,
        s \in IF Live = {} THEN {0} ELSE Live, m \in Matches :
       /\ k \in {"open", "add"} => s = IF Live = {} THEN 0 ELSE Head(Board)
       /\ k # "move" => m = NoRequest.match /\ u = NoRequest.by
       /\ request' = [request EXCEPT ![r] =
            [NoRequest EXCEPT !.pc = "seed", !.kind = k, !.by = u, !.stage = s,
                              !.match = m, !.seeds = IF k = "add" THEN 2 ELSE 1]]
  /\ UNCHANGED <<rows, lockVars>>

\* Where a request goes on once the stages are there.
Seeded(r) ==
  LET q == request[r] IN
  request' = [request EXCEPT ![r] =
    IF q.seeds > 1 THEN [q EXCEPT !.pc = "seed", !.seeds = 1]
    ELSE CASE q.kind = "open" -> NoRequest
           [] q.kind = "add" -> [q EXCEPT !.pc = "max"]
           [] q.kind = "move" -> [q EXCEPT !.pc = "stages"]
           [] OTHER -> [q EXCEPT !.pc = "owned"]]

ReadStages(r) ==
  /\ At(r, "seed")
  /\ IF Live # {} THEN Seeded(r) ELSE GoTo(r, "create")
  /\ Reads

\* No key forbids a second set; a full table of ids is the bound of the instance.
SeedStages(r) ==
  /\ At(r, "create") /\ NextId + Len(Defaults) - 1 \in StageIds
  /\ stages' = SeededFrom(NextId)
  /\ Seeded(r)
  /\ UNCHANGED <<entry, lockVars, ops>>

---------------------------------------------------------------------------
(* Stages: settings/pipeline/actions.ts *)

ReadMax(r) ==
  /\ At(r, "max")
  /\ LET top == {stages[s].pos + 1 : s \in Live} \cup {0} IN
     request' = [request EXCEPT ![r].pc = "insert",
                   ![r].stage = CHOOSE p \in top : \A o \in top : o <= p]
  /\ Reads

\* revealRequired is left to its default.
AddStage(r) ==
  /\ At(r, "insert") /\ NextId \in StageIds /\ Done(r)
  /\ \E t \in BOOLEAN :
       stages' = [stages EXCEPT ![NextId] =
         [NoStage EXCEPT !.row = "live", !.pos = request[r].stage, !.terminal = t]]
  /\ UNCHANGED <<entry, lockVars, ops>>

\* ownedStageOrg, then the read of the order for moves and removals.
OwnedStage(r) ==
  /\ At(r, "owned")
  /\ IF request[r].stage \notin Live THEN Done(r)
     ELSE GoTo(r, IF request[r].kind = "rename" THEN "rename" ELSE "order")
  /\ Reads

UpdateStage(r) ==
  /\ At(r, "rename") /\ Done(r)
  /\ IF request[r].stage \in Live
       THEN \E t \in BOOLEAN :
              stages' = [stages EXCEPT ![request[r].stage].name = 0,
                                       ![request[r].stage].terminal = t]
       ELSE UNCHANGED stages
  /\ UNCHANGED <<entry, lockVars, ops>>

Index(seq, s) == CHOOSE i \in DOMAIN seq : seq[i] = s
\* The order with the stage and its neighbour swapped.
Swapped(seq, s, dir) ==
  LET i == Index(seq, s)
      j == IF dir = "up" THEN i - 1 ELSE i + 1 IN
  [seq EXCEPT ![i] = seq[j], ![j] = seq[i]]
AtEdge(seq, s, dir) == IF dir = "up" THEN Head(seq) = s ELSE Last(seq) = s

ReadOrder(r) ==
  LET q == request[r] IN
  /\ At(r, "order")
  /\ request' = [request EXCEPT ![r] =
       IF q.kind = "remove"
       THEN IF Len(Board) <= 1 THEN NoRequest
            ELSE [q EXCEPT !.pc = "remove", !.seen = Board]
       ELSE IF q.stage \notin Live \/ AtEdge(Board, q.stage, q.kind) THEN NoRequest
            ELSE [q EXCEPT !.pc = "swap", !.seen = Swapped(Board, q.stage, q.kind)]]
  /\ Reads

\* One transaction gives every stage of the order that was read its index; it
\* fails as a whole when one of them is gone.
MoveStage(r) ==
  LET order == request[r].seen IN
  /\ At(r, "swap") /\ Done(r)
  /\ stages' = IF Range(order) \subseteq Live
               THEN [s \in StageIds |-> IF s \in Range(order)
                       THEN [stages[s] EXCEPT !.pos = Index(order, s) - 1] ELSE stages[s]]
               ELSE stages
  /\ UNCHANGED <<entry, lockVars, ops>>

\* The first stage that remains, in the order that was read.
FirstRemaining(order, s) == SelectSeq(order, LAMBDA t : t # s)[1]
\* The live stages without s, renumbered in their order.
Renumbered(s) ==
  LET left == SelectSeq(Board, LAMBDA t : t # s) IN
  [t \in StageIds |-> CASE t = s -> [stages[t] EXCEPT !.row = "gone"]
                        [] t \in Range(left) -> [stages[t] EXCEPT !.pos = Index(left, t) - 1]
                        [] OTHER -> stages[t]]
OnStage(s) == {um \in Recruiters \X Matches : entry[um[1]][um[2]].stage = s}

\* One transaction: cards to the first remaining stage, delete, renumber.  A card
\* cannot be given a stage that is gone.
RemoveStage(r) ==
  LET s == request[r].stage
      to == FirstRemaining(request[r].seen, s) IN
  /\ At(r, "remove") /\ Done(r)
  /\ IF s \in Live /\ (OnStage(s) = {} \/ to \in Live)
       THEN /\ stages' = Renumbered(s)
            /\ entry' = [u \in Recruiters |-> [m \in Matches |->
                 IF entry[u][m].stage = s THEN [entry[u][m] EXCEPT !.stage = to]
                 ELSE entry[u][m]]]
       ELSE UNCHANGED rows
  /\ UNCHANGED <<lockVars, ops>>

---------------------------------------------------------------------------
(* Cards: moveCandidate, setStage, and the reveals they depend on *)

\* The board's own boundary: how many seeded stages come before the first gated one.
Boundary == Cardinality({i \in DOMAIN Defaults : \A j \in 1..i : ~Defaults[j].gated})

\* isPostRevealStage goes by the stage, not by where it stands.
IsPostReveal(s) == stages[s].gated

ReadTarget(r) ==
  LET s == request[r].stage IN
  /\ At(r, "stages")
  /\ IF s \notin Live THEN Done(r)
     ELSE GoTo(r, IF IsPostReveal(s) THEN "gate" ELSE "upsert")
  /\ Reads

\* hasActiveReveal: the recruiter's own, for this talent in this pool.
HasActiveReveal(u, m) == Pair(m) \in revealed[u]
CheckReveal(r) ==
  /\ At(r, "gate")
  /\ IF HasActiveReveal(request[r].by, request[r].match) THEN GoTo(r, "upsert") ELSE Done(r)
  /\ Reads

\* Whether the upsert will find its stage.
Refused(r) == request[r].stage \notin Live
MoveCandidate(r) ==
  LET q == request[r] IN
  /\ At(r, "upsert") /\ Done(r)
  /\ entry' = IF Refused(r) THEN entry
              ELSE [entry EXCEPT ![q.by][q.match].row = TRUE,
                                 ![q.by][q.match].stage = q.stage]
  /\ UNCHANGED <<stages, lockVars, ops>>

\* setStage of the shortlist page: one upsert, of the legacy value.
SetStage(u, m, v) ==
  /\ "legacy" \in Kinds /\ Counts
  /\ entry' = [entry EXCEPT ![u][m].row = TRUE, ![u][m].legacy = v]
  /\ UNCHANGED <<stages, lockVars, request>>

Reveal(u, m) ==
  /\ "reveal" \in Kinds /\ Counts
  /\ revealed' = [revealed EXCEPT ![u] = @ \cup {Pair(m)}]
  /\ ever' = [ever EXCEPT ![u] = @ \cup {Pair(m)}]
  /\ UNCHANGED <<rows, request>>

Expire(u, m) ==
  /\ "expire" \in Kinds /\ Counts /\ Pair(m) \in revealed[u]
  /\ revealed' = [revealed EXCEPT ![u] = @ \ {Pair(m)}]
  /\ UNCHANGED <<rows, ever, request>>

StageStep(r) ==
  \/ ReadStages(r) \/ SeedStages(r) \/ ReadMax(r) \/ AddStage(r) \/ OwnedStage(r)
  \/ UpdateStage(r) \/ ReadOrder(r) \/ MoveStage(r) \/ RemoveStage(r)
Event ==
  \E u \in Recruiters, m \in Matches :
    Reveal(u, m) \/ Expire(u, m) \/ \E v \in DOMAIN LegacyKey : SetStage(u, m, v)

PipelineNext ==
  \/ \E r \in Requests :
       Begin(r) \/ StageStep(r) \/ ReadTarget(r) \/ CheckReveal(r) \/ MoveCandidate(r)
  \/ Event

PipelineSpec == PipelineInit /\ [][PipelineNext]_pipelineVars

---------------------------------------------------------------------------
(* What the board shows *)

\* resolveEntryStageId: the entry's own stage, else the default its legacy value
\* stands for, by name, else the last terminal stage of a rejected one, else the first.
EntryStage(e) ==
  LET named == {s \in Live : stages[s].name = LegacyKey[e.legacy]}
      terminal == SelectSeq(Board, LAMBDA s : stages[s].terminal) IN
  CASE Board = <<>> -> 0
    [] e.stage \in Live -> e.stage
    [] e.stage \notin Live /\ named # {} -> SelectSeq(Board, LAMBDA s : s \in named)[1]
    [] e.stage \notin Live /\ named = {} /\ LegacyKey[e.legacy] = Len(Defaults)
         /\ terminal # <<>> -> Last(terminal)
    [] OTHER -> Head(Board)

---------------------------------------------------------------------------
(* Properties *)

\* Types: stage ids, positions and entries stay within the instance.
PipelineTypeOK ==
  /\ stages \in [StageIds -> [row : {"none", "live", "gone"}, pos : Nat, name : 0..Len(Defaults),
                              gated : BOOLEAN, terminal : BOOLEAN]]
  /\ entry \in [Recruiters -> [Matches -> [row : BOOLEAN, stage : 0..MaxStages,
                                           legacy : DOMAIN LegacyKey]]]
  /\ \A u \in Recruiters : revealed[u] \subseteq ever[u]

\* "A candidate whose name has not been revealed may never be moved into a stage
\* with revealRequired" (PipelineStage in the schema), wherever reordering has put
\* that stage meanwhile.
GatedNeedsReveal ==
  \A u \in Recruiters, m \in Matches :
    /\ entry'[u][m].stage # entry[u][m].stage
    /\ entry'[u][m].stage \in Live /\ stages[entry'[u][m].stage].gated
    => Pair(m) \in ever[u]

\* Reordering, renaming and removing leave no card without a stage: an entry's
\* stage is one of the board.
NoOrphanedCard ==
  \A u \in Recruiters, m \in Matches : entry[u][m].stage \in Live \cup {0}

\* "Removing the last remaining stage is blocked": a board that has stages keeps one.
KeepsAStage == Live # {} => Live' # {}

\* "A second caller that loses the race simply finds the rows already present": the
\* default stages are there once.
SeededOnce ==
  \A s, t \in Live : stages[s].name = stages[t].name /\ stages[s].name # 0 => s = t

\* A card the recruiter has placed shows where it was put, whatever the legacy value
\* of the shortlist page says, and an untouched one on some stage of the board.
ShownWhereItIs ==
  \A u \in Recruiters, m \in Matches : Live # {} =>
    /\ EntryStage(entry[u][m]) \in Live
    /\ entry[u][m].stage # 0 => EntryStage(entry[u][m]) = entry[u][m].stage
=============================================================================
