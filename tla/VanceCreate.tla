---------------------------- MODULE VanceCreate ----------------------------
(* One create call of the 8vance client: the POST of a talent or a job, the    *)
(* recovery of a talent whose source 8vance does not know, and the rows of     *)
(* skills, languages and so on that are attached under a concurrency limit.    *)
(* A talent keeps whatever rows land; a job insists on its skills.             *)
EXTENDS Naturals, FiniteSets, Sequences, SequencesExt

CONSTANTS Kinds,        \* of "talent" and "job"
          Skills,       \* the distinct skills of the body, at least three
          Slugs,        \* source slugs of the company
          Feeds,        \* the slugs that look like external feeds
          Unknown,      \* a configured slug that the company does not have
          Concurrency,  \* ATTACH_CONCURRENCY
          Retries,      \* MAX_5XX_RETRIES
          LosesAnswers  \* a POST may land although its answer is lost

VARIABLES call,         \* the create call
          objects,      \* talents or jobs that exist because of it
          surfaced,     \* the sources of another talent, in the order given
          queue,        \* rows waiting in the limiter
          active,       \* rows being posted
          landed        \* rows that exist at 8vance

vars == <<call, objects, surfaced, queue, active, landed>>

None == "none"

Phases(kind) ==
    IF kind = "talent"
    THEN <<"visibility", "skill", "language", "location", "education", "experience", "function">>
    ELSE <<"skill", "language", "degree", "visibility">>

Rows(phase) == IF phase = "skill" THEN {<<phase, s>> : s \in Skills} ELSE {<<phase, 1>>}

\* Only the skills of a job reject the create; every other row is best-effort.
Strict(kind, phase) == kind = "job" /\ phase = "skill"

NewCall(kind, slug) ==
    [kind |-> kind, at |-> "post", phase |-> 0, net |-> Retries, slug |-> slug, recovered |-> FALSE]

Listings == {l \in UNION {[1..n -> Slugs \union {Unknown}] : n \in 0..3} : IsInjective(l)}

CreateInit ==
    /\ \E kind \in Kinds : \E slug \in IF kind = "talent" THEN Slugs \union {Unknown} ELSE {None} :
         call = NewCall(kind, slug)
    /\ objects = 0
    /\ surfaced \in Listings
    /\ queue = <<>>
    /\ active = {}
    /\ landed = {}

Fail == call' = [call EXCEPT !.at = "failed"]

-----------------------------------------------------------------------------
(* The POST. *)

Enter(n) ==
    /\ call' = [call EXCEPT !.at = "attach", !.phase = n]
    /\ queue' = SetToSeq(Rows(Phases(call.kind)[n]))

Posted ==
    /\ call.at = "post" /\ call.slug # Unknown
    /\ objects' = objects + 1
    /\ Enter(1)
    /\ UNCHANGED <<surfaced, active, landed>>

UnansweredForever ==
    /\ call.at = "post"
    /\ call' = [call EXCEPT !.net = IF @ > 0 THEN @ - 1 ELSE Retries]
    /\ UNCHANGED <<objects, surfaced, queue, active, landed>>

\* The request is retried whether or not the lost one reached 8vance.
Unanswered ==
    /\ call.at = "post"
    /\ IF call.net > 0 THEN call' = [call EXCEPT !.net = @ - 1] ELSE Fail
    /\ \/ UNCHANGED objects
       \/ LosesAnswers /\ call.slug # Unknown /\ objects' = objects + 1
    /\ UNCHANGED <<surfaced, queue, active, landed>>

\* A 400 that names the source: look for another one, once.
Rejected ==
    /\ call.at = "post" /\ call.slug = Unknown
    /\ call' = [call EXCEPT !.at = IF call.recovered THEN "failed" ELSE "recover"]
    /\ UNCHANGED <<objects, surfaced, queue, active, landed>>

FirstOf(list) == IF list = <<>> THEN None ELSE Head(list)

Recovered(wanted) ==
    LET own == SelectSeq(surfaced, LAMBDA s : s \notin Feeds)
    IN  IF Contains(surfaced, wanted) THEN wanted
        ELSE IF own # <<>> THEN Head(own) ELSE FirstOf(surfaced)

Recover ==
    /\ call.at = "recover"
    /\ \/ Recovered(call.slug) \in {None, call.slug} /\ Fail
       \/ /\ Recovered(call.slug) \notin {None, call.slug}
          /\ call' = [call EXCEPT !.at = "post", !.slug = Recovered(call.slug),
                                  !.recovered = TRUE, !.net = Retries]
    /\ UNCHANGED <<objects, surfaced, queue, active, landed>>

\* The listing of another talent's sources fails: the first error is thrown.
Undiscovered ==
    /\ call.at = "recover"
    /\ Fail
    /\ UNCHANGED <<objects, surfaced, queue, active, landed>>

-----------------------------------------------------------------------------
(* The rows, under pLimit. Whatever happened to the call, the limiter goes on. *)

StartRow ==
    /\ queue # <<>> /\ Cardinality(active) < Concurrency
    /\ active' = active \union {Head(queue)}
    /\ queue' = Tail(queue)
    /\ UNCHANGED <<call, objects, surfaced, landed>>

RowLands(r) ==
    /\ r \in active
    /\ active' = active \ {r}
    /\ landed' = landed \union {r}
    /\ UNCHANGED <<call, objects, surfaced, queue>>

RowFails(r) ==
    /\ r \in active
    /\ active' = active \ {r}
    /\ IF Strict(call.kind, r[1]) /\ call.at = "attach" THEN Fail ELSE UNCHANGED call
    /\ UNCHANGED <<objects, surfaced, queue, landed>>

\* All rows of the phase are settled: the next phase, or the answer.
NextPhase ==
    /\ call.at = "attach" /\ queue = <<>> /\ active = {}
    /\ \/ call.phase < Len(Phases(call.kind)) /\ Enter(call.phase + 1)
       \/ /\ call.phase = Len(Phases(call.kind))
          /\ call' = [call EXCEPT !.at = "returned"]
          /\ UNCHANGED queue
    /\ UNCHANGED <<objects, surfaced, active, landed>>

RowStep == StartRow \/ \E r \in active : RowLands(r) \/ RowFails(r)

CallStep == Posted \/ Unanswered \/ Rejected \/ Recover \/ Undiscovered \/ NextPhase

CreateNext == CallStep \/ RowStep

CreateSpec == CreateInit /\ [][CreateNext]_vars

\* Every request ends, by its answer or by its time limit.
LiveCreateSpec == CreateSpec /\ WF_vars(CallStep) /\ WF_vars(RowStep)

-----------------------------------------------------------------------------
(* Properties.                                                               *)

AllRows == UNION {Rows(p) : p \in {Phases(k)[n] : k \in {call.kind}, n \in 1..Len(Phases(call.kind))}}

\* Types of every variable.
TypeOK ==
    /\ call \in [kind : Kinds, at : {"post", "recover", "attach", "returned", "failed"},
                 phase : 0..7, net : 0..Retries, slug : Slugs \union {Unknown, None},
                 recovered : BOOLEAN]
    /\ objects \in Nat
    /\ surfaced \in Listings
    /\ active \subseteq AllRows
    /\ landed \subseteq AllRows
    /\ ToSet(queue) \subseteq AllRows

\* A talent that exists is returned, whichever of its rows fail: a create that
\* throws leaves no talent behind for its retry to duplicate (the try blocks
\* around the rows of talent.create).
TalentKept == call.kind = "talent" /\ call.at = "failed" => objects = 0

\* A job that is returned has all its skills, on which its completeness depends
\* (the Promise.all over the skills of job.create).
CompleteJob == call.kind = "job" /\ call.at = "returned" => Rows("skill") \subseteq landed

\* Source recovery labels a talent with a feed only when the company shows
\* nothing else (the ownLike preference of talent.create).
OwnSource ==
    call.recovered /\ objects > 0 /\ call.slug \in Feeds => ToSet(surfaced) \subseteq Feeds

\* Once the create of a job failed on a skill, none of its other rows land.
AllOrNothing == call.at = "failed" => landed' = landed

\* Every create call returns or throws, and its limiter runs empty.
Settled == call.at \in {"returned", "failed"} /\ queue = <<>> /\ active = {}
=============================================================================
