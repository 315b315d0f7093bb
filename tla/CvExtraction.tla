---------------------------- MODULE CvExtraction ----------------------------
(* What a CV says, by a paid language model with a plain reading of the text   *)
(* to fall back on (lib/candidate/cv-ai.ts). Calls overlap: the same CV is     *)
(* asked for twice, others begin with the same pages, the model fails.         *)
EXTENDS Integers, Sequences

CONSTANTS Requests,
          Cvs,            \* texts
          Scans,          \* the few characters that scans have as text
          Short,          \* those of fewer than ten characters
          Pages,           \* what is sent of a text: its first pages
          Named,          \* [head] -> the skills that the model names for it
          Plain,          \* [text] -> the skills that the plain reading finds
          Mentioned,      \* [text] -> the skills that occur in it
          Baseline,       \* [text] -> the level that its years and titles speak for, 0 if none
          TextKey, VisionKey,  \* is a model for texts, one for scans in place?
          MaxCalls, MaxFailures

CvAssumption ==
    /\ Short \subseteq Cvs /\ {TextKey, VisionKey} \subseteq BOOLEAN /\ {MaxCalls, MaxFailures} \subseteq Nat
    /\ \A c \in Cvs : Plain[c] \subseteq Mentioned[c] /\ Baseline[c] \in Nat

VARIABLES cache,          \* [text] -> {} or its one profile
          inflight,       \* [text] -> {} or the call that others join
          calls,          \* the calls of the model so far
          req,
          failures

vars == <<cache, inflight, calls, req, failures>>

Skills == UNION ({Mentioned[c] : c \in Cvs} \cup {Named[Pages[c]] : c \in Cvs})
NoProfile == [skills |-> {}, levels |-> {}, source |-> "none"]
Idle == [at |-> "idle", cv |-> "none", call |-> 0, profile |-> NoProfile]

CvInit ==
    /\ cache = [c \in Cvs |-> {}]
    /\ inflight = [c \in Cvs |-> {}]
    /\ calls = <<>>
    /\ req = [r \in Requests |-> Idle]
    /\ failures = 0

-----------------------------------------------------------------------------
(* Profiles *)

\* A skill has a level only if the text mentions it and speaks for a level.
Levels(cv, skills) ==
    IF Baseline[cv] = 0 THEN {} ELSE {[skill |-> s, level |-> Baseline[cv]] : s \in skills \cap Mentioned[cv]}

\* The plain reading (names, place, contact and skills), the model's answer cleaned
\* field by field, and what the model saw of a scan.
regexProfile(cv) == [skills |-> Plain[cv], levels |-> Levels(cv, Plain[cv]), source |-> "regex"]
Extracted(cv) == [skills |-> Named[Pages[cv]], levels |-> Levels(cv, Named[Pages[cv]]), source |-> "llm"]
Seen(cv) == [skills |-> Named[Pages[cv]], levels |-> {}, source |-> "vision"]

-----------------------------------------------------------------------------
(* A text: kept, under way, or asked of the model *)

KeyOfHead(cv) == CHOOSE c \in Cvs : Pages[c] = Pages[cv]
Key(cv) == cv

Got(r, cv, call, profile) ==
    req' = [req EXCEPT ![r] = [at |-> "got", cv |-> cv, call |-> call, profile |-> profile]]

Asks(r, cv) == req[r].at = "idle" \/ (req[r].at = "fallback" /\ req[r].cv = cv)

Plainly(r, cv) ==
    /\ Asks(r, cv) /\ (cv \in Short \/ ~TextKey)
    /\ Got(r, cv, 0, regexProfile(cv))
    /\ UNCHANGED <<cache, inflight, calls, failures>>
FromCache(r, cv) ==
    /\ Asks(r, cv) /\ cv \notin Short /\ TextKey
    /\ \E p \in cache[Key(cv)] : Got(r, cv, 0, p)
    /\ UNCHANGED <<cache, inflight, calls, failures>>
Join(r, cv) ==
    /\ Asks(r, cv) /\ cv \notin Short /\ TextKey
    /\ cache[Key(cv)] = {}
    /\ \E n \in inflight[Key(cv)] :
          req' = [req EXCEPT ![r] = [at |-> "waiting", cv |-> cv, call |-> n, profile |-> NoProfile]]
    /\ UNCHANGED <<cache, inflight, calls, failures>>
Unknown(cv) == cache[Key(cv)] = {} /\ inflight[Key(cv)] = {}
Call(r, cv) ==
    /\ Asks(r, cv) /\ cv \notin Short /\ TextKey
    /\ Unknown(cv)
    /\ Len(calls) < MaxCalls
    /\ calls' = Append(calls, [cv |-> cv, at |-> "running"])
    /\ inflight' = [inflight EXCEPT ![Key(cv)] = {Len(calls) + 1}]
    /\ req' = [req EXCEPT ![r] = [at |-> "waiting", cv |-> cv, call |-> Len(calls) + 1, profile |-> NoProfile]]
    /\ UNCHANGED <<cache, failures>>

KeptOf(p) == IF p.source # "regex" THEN {p} ELSE {}
InflightAfter(n, how) == [inflight EXCEPT ![Key(calls[n].cv)] = {}]
Ends(n, how, profile) ==
    /\ calls[n].at = "running"
    /\ calls' = [calls EXCEPT ![n].at = how]
    /\ cache' = IF KeptOf(profile) = {} THEN cache ELSE [cache EXCEPT ![Key(calls[n].cv)] = KeptOf(profile)]
    /\ inflight' = InflightAfter(n, how)
    /\ req' = [r \in Requests |->
                 IF req[r].at = "waiting" /\ req[r].call = n
                 THEN [req[r] EXCEPT !.at = "got", !.profile = profile] ELSE req[r]]
Lands(n) == n \in DOMAIN calls /\ Ends(n, "landed", Extracted(calls[n].cv)) /\ UNCHANGED failures
Fails(n) ==
    /\ n \in DOMAIN calls
    /\ failures < MaxFailures /\ failures' = failures + 1
    /\ Ends(n, "failed", regexProfile(calls[n].cv))

\* A scan is sent as it is, and neither joined nor kept; if that fails, the few
\* characters that it has as text are read as a text.
Look(r, cv) ==
    /\ req[r].at = "idle" /\ VisionKey /\ cv \in Scans
    /\ req' = [req EXCEPT ![r] = [at |-> "looking", cv |-> cv, call |-> 0, profile |-> NoProfile]]
    /\ UNCHANGED <<cache, inflight, calls, failures>>
Looked(r) ==
    /\ req[r].at = "looking"
    /\ Got(r, req[r].cv, 0, Seen(req[r].cv))
    /\ UNCHANGED <<cache, inflight, calls, failures>>
LookFails(r) ==
    /\ req[r].at = "looking" /\ failures < MaxFailures
    /\ failures' = failures + 1
    /\ req' = [req EXCEPT ![r].at = "fallback"]
    /\ UNCHANGED <<cache, inflight, calls>>

Leave(r) ==
    /\ req[r].at = "got"
    /\ req' = [req EXCEPT ![r] = Idle]
    /\ UNCHANGED <<cache, inflight, calls, failures>>
Expire(cv) ==
    /\ cache[cv] # {}
    /\ cache' = [cache EXCEPT ![cv] = {}]
    /\ UNCHANGED <<inflight, calls, req, failures>>

CvNext ==
    \/ \E r \in Requests, cv \in Cvs :
          Plainly(r, cv) \/ FromCache(r, cv) \/ Join(r, cv) \/ Call(r, cv) \/ Look(r, cv)
    \/ \E n \in 1 .. MaxCalls : Lands(n) \/ Fails(n)
    \/ \E r \in Requests : Looked(r) \/ LookFails(r) \/ Leave(r)
    \/ \E cv \in Cvs : Expire(cv)

CvSpec == CvInit /\ [][CvNext]_vars
CallEnds(n) == Lands(n) \/ Fails(n)
LookEnds(r) == Looked(r) \/ LookFails(r)
LiveCvSpec ==
    /\ CvSpec
    /\ \A n \in 1 .. MaxCalls : WF_vars(CallEnds(n))
    /\ \A r \in Requests : WF_vars(LookEnds(r))

-----------------------------------------------------------------------------
\* Types of the variables.
TypeOK ==
    /\ \A c \in Cvs : (\A p, q \in cache[c] : p = q) /\ inflight[c] \subseteq DOMAIN calls
    /\ \A n \in DOMAIN calls : calls[n].cv \in Cvs /\ calls[n].at \in {"running", "landed", "failed"}
    /\ \A r \in Requests :
          /\ req[r].at \in {"idle", "waiting", "looking", "fallback", "got"}
          /\ req[r].call \in 0 .. Len(calls)
          /\ req[r].profile.skills \subseteq Skills
    /\ failures \in 0 .. MaxFailures

\* "Re-uploading the same CV ... would pay twice": two calls for one text never run at
\* the same time, and what is known is not asked again.
PaidOnce ==
    /\ \A m, n \in DOMAIN calls : calls[m].at = "running" /\ calls[n].at = "running" /\ calls[m].cv = calls[n].cv => m = n
    /\ \A n \in DOMAIN calls : calls[n].at = "running" => cache[calls[n].cv] = {}

\* Nobody is given the profile of another text that begins alike: a level is that of
\* one's own text, for a skill that it mentions.
OwnProfile ==
    \A r \in Requests : req[r].at = "got" =>
        \A l \in req[r].profile.levels : l.level = Baseline[req[r].cv] /\ l.skill \in Mentioned[req[r].cv]

\* "we don't want a transient LLM outage to pin a degraded result": with a model in
\* place, a long text is read plainly only for who waited for a call that failed.
DegradedWithCause ==
    \A r \in Requests :
        /\ req[r].at = "got" /\ req[r].profile.source = "regex" /\ TextKey /\ req[r].cv \notin Short
        => req[r].call # 0 /\ calls[req[r].call].at = "failed"

\* Who waits for a call or looks at a scan; nobody does so for ever: there is a
\* profile in the end, or what a scan has as text is read.
Waits(r) == req[r].at \in {"waiting", "looking"}
=============================================================================
