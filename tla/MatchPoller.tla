---------------------------- MODULE MatchPoller ----------------------------
(* The shortlist page while a match runs. The server renders what has landed;  *)
(* a panel on the page starts the hydration once, asks for the status again    *)
(* and again, refreshes the page when matches landed and when the match is     *)
(* settled, and gives up after a number of questions or when access is lost.   *)
(* A refresh keeps the panel, with its state, as long as the page still shows  *)
(* it. The state is that of one tab; the match may be run again meanwhile.     *)
EXTENDS Naturals

CONSTANTS MaxPolls,       \* questions after which the panel gives up
          MaxMatches,     \* matches that a run can leave
          MaxRuns,        \* runs of the match
          Retranslates    \* may a refresh hand the panel a new translation function?

VARIABLES match,          \* run, busy (a pool is matching) and count, in the database
          access,         \* may the tab's session see the project?
          page,           \* run, matching and rows, as last rendered
          render,         \* a refresh: asked, its pools read, and what it read
          panel,          \* the mounted panel: done, capped, polls, ...
          poll,           \* the timer and the question it leads to
          kick            \* the request that starts the hydration

vars == <<match, access, page, render, panel, poll, kick>>

NoRender == [asked |-> FALSE, at |-> "idle", run |-> 0, matching |-> FALSE, rows |-> 0]
NoPoll == [at |-> "none", settled |-> FALSE, count |-> 0, denied |-> FALSE]

\* A panel as it mounts: its effect sends the kick and sets the first timer.
Mounted == [done |-> FALSE, capped |-> FALSE, cancelled |-> FALSE, polls |-> 0, refreshed |-> 0]

MatchPollerInit ==
    /\ match = [run |-> 1, busy |-> TRUE, count |-> 0]
    /\ access = TRUE
    /\ page = [run |-> 1, matching |-> TRUE, rows |-> 0]
    /\ render = NoRender
    /\ panel = Mounted
    /\ poll = [NoPoll EXCEPT !.at = "timer"]
    /\ kick = "sent"

Land ==
    /\ match.busy
    /\ \E n \in {match.count - 1, match.count + 1} \cap (0..MaxMatches) : match' = [match EXCEPT !.count = n]
    /\ UNCHANGED <<access, page, render, panel, poll, kick>>
Settle ==
    /\ match.busy
    /\ match' = [match EXCEPT !.busy = FALSE]
    /\ UNCHANGED <<access, page, render, panel, poll, kick>>
\* Another tab, a colleague or the saved search runs the match again.
Rerun ==
    /\ ~match.busy /\ match.run < MaxRuns
    /\ match' = [match EXCEPT !.run = @ + 1, !.busy = TRUE]
    /\ UNCHANGED <<access, page, render, panel, poll, kick>>
LoseAccess ==
    /\ access /\ access' = FALSE
    /\ UNCHANGED <<match, page, render, panel, poll, kick>>

Refreshed == [render EXCEPT !.asked = TRUE]

\* The kick is answered when the hydration is through, or fails.
Kicked ==
    /\ kick = "sent"
    /\ kick' = "none"
    /\ render' \in {render} \cup (IF panel.cancelled THEN {} ELSE {Refreshed})
    /\ UNCHANGED <<match, access, page, panel, poll>>

\* The timer ends and the question is sent; the server reads the pools and counts
\* the matches, or refuses; a question can also fail.
AskStatus ==
    /\ poll.at = "timer"
    /\ poll' = [poll EXCEPT !.at = "sent"]
    /\ UNCHANGED <<match, access, page, render, panel, kick>>
ReadPools ==
    /\ poll.at = "sent"
    /\ poll' = IF access THEN [poll EXCEPT !.at = "read", !.settled = ~match.busy]
                         ELSE [NoPoll EXCEPT !.at = "answer", !.denied = TRUE]
    /\ UNCHANGED <<match, access, page, render, panel, kick>>
CountMatches ==
    /\ poll.at = "read"
    /\ poll' = [poll EXCEPT !.at = "answer", !.count = match.count]
    /\ UNCHANGED <<match, access, page, render, panel, kick>>

GoOn(p) ==
    LET asked == [p EXCEPT !.polls = @ + 1] IN
    IF p.cancelled THEN panel' = p /\ poll' = NoPoll
    ELSE IF asked.polls < MaxPolls
         THEN panel' = asked /\ poll' = [NoPoll EXCEPT !.at = "timer"]
         ELSE panel' = [asked EXCEPT !.capped = TRUE] /\ poll' = NoPoll

Refused == panel' = [panel EXCEPT !.capped = ~panel.cancelled] /\ poll' = NoPoll /\ UNCHANGED render
SettledNow == panel' = [panel EXCEPT !.done = TRUE] /\ poll' = NoPoll /\ render' = Refreshed
StillMatching ==
    /\ GoOn([panel EXCEPT !.refreshed = IF poll.count > @ THEN poll.count ELSE @])
    /\ render' = IF poll.count > panel.refreshed THEN Refreshed ELSE render

Answered ==
    /\ poll.at = "answer"
    /\ IF poll.denied THEN Refused
       ELSE IF panel.cancelled THEN GoOn(panel) /\ UNCHANGED render
       ELSE IF poll.settled THEN SettledNow ELSE StillMatching
    /\ UNCHANGED <<match, access, page, kick>>
PollFails ==
    /\ poll.at \in {"sent", "answer"} /\ ~poll.denied
    /\ GoOn(panel)
    /\ UNCHANGED <<match, access, page, render, kick>>

\* The button of a panel that gave up.
Reload ==
    /\ page.matching /\ panel.capped /\ ~render.asked
    /\ render' = Refreshed
    /\ UNCHANGED <<match, access, page, panel, poll, kick>>

\* The page is rendered: its pools are read, then its matches; what was read
\* replaces what is shown. A refresh asked for meanwhile follows.
RenderPools ==
    /\ render.asked /\ render.at = "idle" /\ access
    /\ render' = [render EXCEPT !.asked = FALSE, !.at = "pools", !.run = match.run, !.matching = match.busy]
    /\ UNCHANGED <<match, access, page, panel, poll, kick>>
RenderMatches ==
    /\ render.at = "pools"
    /\ render' = [render EXCEPT !.at = "made", !.rows = match.count]
    /\ UNCHANGED <<match, access, page, panel, poll, kick>>
\* The panel that stays keeps its state; with a new translation function its
\* effect is cleaned up and, being started, not run again. A panel that was not
\* shown before mounts.
Shown ==
    /\ render.at = "made"
    /\ render' = [NoRender EXCEPT !.asked = render.asked]
    /\ page' = [run |-> render.run, matching |-> render.matching, rows |-> render.rows]
    /\ IF ~render.matching THEN panel' = [panel EXCEPT !.cancelled = TRUE] /\ UNCHANGED <<poll, kick>>
       ELSE IF page.matching
            THEN panel' \in {panel} \cup (IF Retranslates THEN {[panel EXCEPT !.cancelled = TRUE]} ELSE {})
                 /\ UNCHANGED <<poll, kick>>
            ELSE panel' = Mounted /\ poll' = [NoPoll EXCEPT !.at = "timer"] /\ kick' = "sent"
    /\ UNCHANGED <<match, access>>
\* The session is gone: the page leads away.
Away ==
    /\ render.at = "idle" /\ render.asked /\ ~access
    /\ render' = NoRender
    /\ page' = [page EXCEPT !.matching = FALSE, !.run = 0]
    /\ panel' = [panel EXCEPT !.cancelled = TRUE]
    /\ UNCHANGED <<match, access, poll, kick>>

PanelStep == Kicked \/ AskStatus \/ ReadPools \/ CountMatches \/ Answered
PageStep == RenderPools \/ RenderMatches \/ Shown \/ Away

MatchPollerNext == Land \/ Settle \/ Rerun \/ LoseAccess \/ PanelStep \/ PollFails \/ Reload \/ PageStep

MatchPollerSpec == MatchPollerInit /\ [][MatchPollerNext]_vars
\* Timers end, questions and renders are answered; a match does not run for ever,
\* for the status question itself sweeps one that does.
LiveMatchPollerSpec == MatchPollerSpec /\ WF_vars(PanelStep) /\ WF_vars(PageStep) /\ WF_vars(Settle)

-----------------------------------------------------------------------------
(* Properties.                                                               *)

\* Types of every variable.
TypeOK ==
    /\ match.run \in 1..MaxRuns /\ match.count \in 0..MaxMatches
    /\ page.rows \in 0..MaxMatches /\ page.run <= match.run
    /\ panel.polls \in 0..MaxPolls /\ panel.refreshed \in 0..MaxMatches
    /\ poll.at \in {"none", "timer", "sent", "read", "answer"}
    /\ render.at \in {"idle", "pools", "made"} /\ kick \in {"none", "sent"}

\* A panel that counts seconds is one that still asks (match-poller.tsx: "a
\* stale/abandoned tab never sits there counting").
CountsOnlyWhileAsking ==
    page.matching /\ ~panel.done /\ ~panel.capped => poll.at # "none" /\ ~panel.cancelled

\* A page that no longer shows the panel shows every match of the run it saw settled.
SettledPageIsComplete ==
    page.run = match.run /\ ~page.matching => page.rows = match.count

\* The panel never stands at its end over a match that goes on: when no refresh is
\* under way and the panel is done, the page it was rendered with does not match
\* (page.tsx: "While matching we always show the live progress panel").
LiveWhileMatching ==
    page.matching /\ panel.done => render.asked \/ render.at # "idle"

\* The panel asks no more than its cap, and a panel that gave up asks no more.
GivesUp == panel.capped /\ page.matching /\ page'.matching => poll' = poll /\ panel'.polls = panel.polls

\* Whoever watches a match sees it out: the panel gives up or the page shows the
\* settled list.
Watching == page.matching /\ ~panel.capped
=============================================================================
