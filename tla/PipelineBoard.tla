--------------------------- MODULE PipelineBoard ---------------------------
(***************************************************************************)
(* The Kanban board one recruiter has open (components/pipeline/            *)
(* pipeline-board.tsx), on top of Pipeline: the columns and cards it was    *)
(* rendered with, the local overrides that make a drop feel instant, the    *)
(* dialog that confirms a move, and the moves under way.  Server actions of *)
(* one page run one at a time, in the order in which they were called.      *)
(***************************************************************************)
EXTENDS Pipeline

CONSTANTS
  Viewer,        \* the recruiter at the board
  Slot,          \* the request slot of the board's server actions
  Confirm        \* the organization's confirmStageMoves

BoardAssumption ==
  /\ Viewer \in Recruiters /\ Slot \in Requests /\ Confirm \in BOOLEAN

VARIABLES
  columns,   \* stage ids in order, as rendered
  cards,     \* the cards shown: stage and whether the name is, as rendered
  override,  \* local stage by card; 0 is none
  pending,   \* the moves waiting for confirmation
  calls,     \* the moves sent, the first one being served
  answer     \* what the server made of the first one: none, ok, failed

boardVars == <<columns, cards, override, pending, calls, answer>>
allVars == <<stages, entry, revealed, ever, request, ops,
             columns, cards, override, pending, calls, answer>>

\* One card per talent survives dedupAcrossPools: either may have the better score.
ShownSets == {S \in SUBSET Matches : /\ \A x, y \in S : Talent[x] = Talent[y] => x = y
                                     /\ \A x \in Matches : \E y \in S : Talent[x] = Talent[y]}
\* The names are looked up by talent: the survivor may be of another pool.
NameShown(x) == \E p \in revealed[Viewer] : p[1] = Talent[x]
Rendered(S) == [x \in S |-> [stage |-> EntryStage(entry[Viewer][x]), named |-> NameShown(x)]]

BoardInit ==
  /\ PipelineInit /\ Live # {}
  /\ columns = Board
  /\ \E S \in ShownSets : cards = Rendered(S)
  /\ override = [x \in DOMAIN cards |-> 0]
  /\ pending = {} /\ calls = <<>> /\ answer = "none"

EffectiveStage(x) == IF override[x] # 0 THEN override[x] ELSE cards[x].stage
\* byColumn: a card whose stage has no column goes to the first one.
ShownIn(x) == IF EffectiveStage(x) \in Range(columns) THEN EffectiveStage(x)
              ELSE Head(columns)
\* The board's gate goes by the index of the column.
IsPostRevealColumn(s) == Index(columns, s) > Boundary
ClientRefuses(x, s) == ~cards[x].named /\ IsPostRevealColumn(s)

---------------------------------------------------------------------------

Commit(x, s) ==
  /\ override' = [override EXCEPT ![x] = s]
  /\ calls' = Append(calls, [match |-> x, stage |-> s])

\* onDragEnd
Drop(x, s) ==
  /\ pending = {} /\ Counts
  /\ s # EffectiveStage(x) /\ ~ClientRefuses(x, s)
  /\ IF Confirm THEN pending' = {[match |-> x, stage |-> s]} /\ UNCHANGED <<override, calls>>
                ELSE Commit(x, s) /\ UNCHANGED pending
  /\ UNCHANGED <<rows, lockVars, request, columns, cards, answer>>

Confirmed(go) ==
  \E p \in pending :
    /\ pending' = {}
    /\ IF go THEN Commit(p.match, p.stage) ELSE UNCHANGED <<override, calls>>
    /\ UNCHANGED <<pipelineVars, columns, cards, answer>>

\* The first call starts its moveCandidate.
Send ==
  /\ calls # <<>> /\ answer = "none" /\ At(Slot, "idle")
  /\ request' = [request EXCEPT ![Slot] =
       [NoRequest EXCEPT !.pc = "stages", !.kind = "move", !.by = Viewer,
                         !.match = Head(calls).match, !.stage = Head(calls).stage]]
  /\ answer' = "sent"
  /\ UNCHANGED <<rows, lockVars, ops, columns, cards, override, pending, calls>>

\* moveCandidate at work; only an upsert that finds its stage answers ok.
Serve ==
  /\ answer = "sent"
  /\ ReadTarget(Slot) \/ CheckReveal(Slot) \/ MoveCandidate(Slot)
  /\ answer' = IF request'[Slot].pc # "idle" THEN "sent"
               ELSE IF At(Slot, "upsert") /\ ~Refused(Slot) THEN "ok" ELSE "failed"
  /\ UNCHANGED <<columns, cards, override, pending, calls>>

\* As if a refused move were never taken off the list.
RollBackOnly ==
  /\ answer = "failed"
  /\ override' = [override EXCEPT ![Head(calls).match] = 0]
  /\ UNCHANGED <<pipelineVars, columns, cards, pending, calls, answer>>

\* A failed move takes back its own override, unless a newer one has replaced it.
RollBack ==
  /\ answer = "failed"
  /\ override' = [override EXCEPT ![Head(calls).match] =
                    IF @ = Head(calls).stage THEN 0 ELSE @]
  /\ calls' = Tail(calls) /\ answer' = "none"
  /\ UNCHANGED <<pipelineVars, columns, cards, pending>>


\* A move that went through revalidates the page; the override stays.
Revalidate ==
  /\ answer = "ok"
  /\ columns' = Board /\ cards' = Rendered(DOMAIN cards)
  /\ calls' = Tail(calls) /\ answer' = "none"
  /\ UNCHANGED <<pipelineVars, override, pending>>

\* Opening the page anew, when nothing is under way.
Reload ==
  /\ calls = <<>> /\ pending = {} /\ Live # {}
  /\ columns' = Board
  /\ \E S \in ShownSets : cards' = Rendered(S) /\ override' = [x \in S |-> 0]
  /\ UNCHANGED <<pipelineVars, pending, calls, answer>>

\* Everybody else: colleagues, other pages, reveals.
Elsewhere ==
  /\ \/ Event
     \/ \E r \in Requests \ {Slot} :
          Begin(r) \/ StageStep(r) \/ ReadTarget(r) \/ CheckReveal(r) \/ MoveCandidate(r)
  /\ UNCHANGED boardVars

BoardNext ==
  \/ \E x \in DOMAIN cards, s \in Range(columns) : Drop(x, s)
  \/ \E go \in BOOLEAN : Confirmed(go)
  \/ Send \/ Serve \/ RollBack \/ Revalidate \/ Reload \/ Elsewhere

BoardSpec == BoardInit /\ [][BoardNext]_allVars
\* A call that was sent is answered, and the answer is applied.
CallHandling == Send \/ Serve \/ RollBack \/ Revalidate
LiveBoardSpec == BoardSpec /\ WF_allVars(CallHandling)

---------------------------------------------------------------------------
(* Properties *)

BoardTypeOK ==
  /\ columns \in Seq(StageIds)
  /\ DOMAIN cards \in SUBSET Matches /\ DOMAIN override = DOMAIN cards
  /\ \A x \in DOMAIN cards : cards[x] \in [stage : StageIds, named : BOOLEAN]
                              /\ override[x] \in 0..MaxStages
  /\ pending \subseteq [match : DOMAIN cards, stage : StageIds]
  /\ calls \in Seq([match : DOMAIN cards, stage : StageIds])
  /\ answer \in {"none", "sent", "ok", "failed"}

\* However fast the recruiter drops a card again and whichever of the moves the
\* server refuses: when the last one is answered, the board shows every card in
\* the stage the server has it in (the "request-aware" rollback).
SettledAsStored ==
  calls = <<>> => \A x \in DOMAIN cards : ShownIn(x) = EntryStage(entry[Viewer][x])

\* Every move the recruiter commits is settled in the end.
MovesPending == calls # <<>>

\* "Mirrored by the authoritative server-side check": what the board refuses, as
\* rendered, is what the server would refuse.
GatesAgree ==
  \A x \in DOMAIN cards, s \in Range(columns) :
    s \in Live => (IsPostRevealColumn(s) <=> IsPostReveal(s))

\* "Derived the same way the pipeline page surfaces the revealed name": a card that
\* shows a name when it is rendered is one the server counts as revealed.
NamedIsRevealed ==
  \A x \in DOMAIN cards : NameShown(x) => HasActiveReveal(Viewer, x)
=============================================================================
