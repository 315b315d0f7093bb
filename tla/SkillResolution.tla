--------------------------- MODULE SkillResolution ---------------------------
(* The names of a CV's skills are looked up in the taxonomy (the route         *)
(* extract-skills and, for the portal, lib/candidate/resolve-skills.ts): in    *)
(* batches, the searches of a batch at the same time, each name with ever      *)
(* more general forms until one is found.                                      *)
EXTENDS Integers, Sequences, FiniteSets

CONSTANTS Listed,         \* what a CV may list: sequences of [term, bucket]
          Forms,          \* [term] -> its forms, the most specific one first
          Finds,          \* [form] -> the skills of the taxonomy that it finds and that match it
          Max,            \* skills after which no further batch is looked up
          Conc,           \* names of a batch
          MaxFailures

VARIABLES pairs,          \* the names to look up
          from,           \* where the present batch begins
          work,           \* [place in pairs] -> the form that is searched, 0 when not
          hits,           \* the skills found, in the order found
          unresolved,
          authError,
          failed,         \* the places whose search failed
          stage

vars == <<pairs, from, work, hits, unresolved, authError, failed, stage>>

\* Each name once; the first bucket that has it keeps it.
DistinctPairs(listed) ==
    SelectSeq([i \in DOMAIN listed |-> [n |-> i, term |-> listed[i].term, bucket |-> listed[i].bucket]],
              LAMBDA p : \A j \in 1 .. p.n - 1 : listed[j].term # p.term)

Batch(f, ps) == {i \in DOMAIN ps : i >= f /\ i < f + Conc}
Opened(f, ps) == [i \in DOMAIN ps |-> IF i \in Batch(f, ps) THEN 1 ELSE 0]

SkillInit ==
    \E listed \in Listed :
        /\ pairs = DistinctPairs(listed)
        /\ from = 1
        /\ work = Opened(1, pairs)
        /\ hits = <<>> /\ unresolved = <<>>
        /\ authError = FALSE
        /\ failed = {}
        /\ stage = IF pairs = <<>> THEN "done" ELSE "searching"

-----------------------------------------------------------------------------
Found(hs) == {hs[k].id : k \in DOMAIN hs}
Form(i) == Forms[pairs[i].term][work[i]]
\* What the search returns, less the names that only contain the form loosely.
Related(i) == Finds[Form(i)]

Taken(i, id) ==
    hits' = IF id \in Found(hits) THEN hits
            ELSE Append(hits, [id |-> id, term |-> pairs[i].term, bucket |-> pairs[i].bucket])
Match(i) ==
    /\ stage = "searching" /\ work[i] # 0
    /\ Related(i) # {}
    /\ \E id \in Related(i) : Taken(i, id)
    /\ work' = [work EXCEPT ![i] = 0]
    /\ UNCHANGED <<pairs, from, unresolved, authError, failed, stage>>

NextForm(i) ==
    IF work[i] < Len(Forms[pairs[i].term])
    THEN work' = [work EXCEPT ![i] = work[i] + 1] /\ unresolved' = unresolved
    ELSE work' = [work EXCEPT ![i] = 0] /\ unresolved' = Append(unresolved, pairs[i].term)
NoMatch(i) ==
    /\ stage = "searching" /\ work[i] # 0
    /\ Related(i) = {}
    /\ NextForm(i)
    /\ UNCHANGED <<pairs, from, hits, authError, failed, stage>>

\* A search fails, with or without being refused: the name is told as not found.
SearchFails(i) ==
    /\ stage = "searching" /\ work[i] # 0 /\ Cardinality(failed) < MaxFailures
    /\ work' = [work EXCEPT ![i] = 0]
    /\ unresolved' = Append(unresolved, pairs[i].term)
    /\ failed' = failed \cup {i}
    /\ \E refused \in BOOLEAN : authError' = (authError \/ refused)
    /\ UNCHANGED <<pairs, from, hits, stage>>

\* All of the batch are answered: the next one, unless enough is found.
Enough == from + Conc > Len(pairs) \/ Len(hits) >= Max
NextBatch ==
    /\ stage = "searching" /\ \A i \in DOMAIN work : work[i] = 0
    /\ IF Enough THEN stage' = "done" /\ UNCHANGED <<from, work>>
       ELSE /\ from' = from + Conc
            /\ work' = Opened(from + Conc, pairs)
            /\ stage' = stage
    /\ UNCHANGED <<pairs, hits, unresolved, authError, failed>>

SkillNext ==
    \/ \E i \in DOMAIN work : Match(i) \/ NoMatch(i) \/ SearchFails(i)
    \/ NextBatch

SkillSpec == SkillInit /\ [][SkillNext]_vars
LiveSkillSpec == SkillSpec /\ WF_vars(SkillNext)

\* What is answered: the skills, those of each bucket, and whether the credentials of
\* the tenant are at fault.
Grouped(bucket) == {hits[k].id : k \in {k \in DOMAIN hits : hits[k].bucket = bucket}}
authFailed == hits = <<>> /\ authError

-----------------------------------------------------------------------------
Told == {unresolved[k] : k \in DOMAIN unresolved}
Reached == {i \in DOMAIN pairs : i < from + Conc}

\* Types of the variables.
TypeOK ==
    /\ from \in Nat /\ stage \in {"searching", "done"}
    /\ DOMAIN work = DOMAIN pairs
    /\ \A i \in DOMAIN work : work[i] \in 0 .. Len(Forms[pairs[i].term])
    /\ Found(hits) \subseteq UNION {Finds[f] : f \in DOMAIN Finds}
    /\ authError \in BOOLEAN
    /\ failed \subseteq DOMAIN pairs

\* However the searches of a batch overlap, a skill is offered once and in one bucket:
\* that of a name that means it.
OnceEach ==
    /\ \A j, k \in DOMAIN hits : hits[j].id = hits[k].id => j = k
    /\ \A k \in DOMAIN hits : \E i \in DOMAIN pairs :
          /\ pairs[i].term = hits[k].term /\ pairs[i].bucket = hits[k].bucket
          /\ \A j \in 1 .. i - 1 : pairs[j].term # pairs[i].term

\* A name that was looked up is never lost: one of its skills is there, or it is told.
LookedUpTold ==
    stage = "done" => \A i \in Reached :
        \/ pairs[i].term \in Told
        \/ \E k \in DOMAIN Forms[pairs[i].term] : Finds[Forms[pairs[i].term][k]] \cap Found(hits) # {}

\* The most specific form that the taxonomy knows decides: no skill is there for the
\* general form of a name only, when a closer one would have matched.
ClosestForm ==
    \A k \in DOMAIN hits : \E f \in DOMAIN Forms[hits[k].term] :
        /\ hits[k].id \in Finds[Forms[hits[k].term][f]]
        /\ \A g \in 1 .. f - 1 : Finds[Forms[hits[k].term][g]] = {}

\* "creds broken" is not said of a CV of which something was found or no search failed.
FaultNamed == authFailed => hits = <<>> /\ failed # {}

\* The look-up ends.
Searching == stage # "done"

\* "Max distinct skills resolved per submit".
AtMostMax == Len(hits) <= Max
=============================================================================
