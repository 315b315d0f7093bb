----------------------------- MODULE TravelTimes -----------------------------
(* Travel times from one origin to a batch of destinations (lib/travel): a     *)
(* cache, one provider for each way of travelling, an estimate where a         *)
(* provider has no answer, and buckets in place of times. The computations of  *)
(* several hydrations overlap. Times are in units of five minutes.             *)
EXTENDS Integers, Sequences, FiniteSets

CONSTANTS Requests,
          Points,         \* where talents live; those not in Located have no coordinates
          Located,
          Inside,         \* the points inside the box that public transport covers
          OriginInside,
          Cell,           \* the point's coordinates rounded to three decimals
          Route,          \* [way of travelling, point] -> the time by road or timetable, or NoTime
          Crow,           \* the same -> the estimate from the distance
          Batches,        \* what may be asked: sequences of points
          Modes,          \* in this order
          OrsKey,         \* is there a key for OpenRouteService?
          OvBy,           \* "google", "otp" or "none"
          MaxDests,       \* destinations a public transport provider takes
          Concurrency,    \* queries of one batch that are under way at OpenTripPlanner
          Dialects,       \* what the OpenTripPlanner server may speak: sets of dialects
          MaxFailures

NoTime == 99

VARIABLES cache,          \* [way, cell] -> {} or the one bucket that is kept
          learned,        \* the dialect that worked last
          serves,         \* what the server speaks
          req,            \* the computation of each hydration
          failures

vars == <<cache, learned, serves, req, failures>>

Ways == {Modes[i] : i \in DOMAIN Modes}
Buckets == {"lt15", "lt30", "lt45", "lt60", "gt60"}
Cells == {Cell[p] : p \in Located}
Idle == [at |-> "idle", dests |-> <<>>, mode |-> 0, out |-> <<>>, need |-> <<>>, got |-> <<>>,
         cursor |-> 0, job |-> {}, failed |-> FALSE]

TravelInit ==
    /\ cache = [x \in Ways \X Cells |-> {}]
    /\ learned = "none"
    /\ serves \in Dialects
    /\ req = [r \in Requests |-> Idle]
    /\ failures = 0

-----------------------------------------------------------------------------
(* Buckets *)

BucketOf(t) ==
    CASE t = NoTime -> "unknown"
      [] t < 3      -> "lt15"
      [] t >= 3 /\ t < 6  -> "lt30"
      [] t >= 6 /\ t < 9  -> "lt45"
      [] t >= 9 /\ t < 12 -> "lt60"
      [] OTHER      -> "gt60"
bucketRank == [lt15 |-> 0, lt30 |-> 1, lt45 |-> 2, lt60 |-> 3, gt60 |-> 4, unknown |-> 5]

Settled(mode, p, t) ==
    BucketOf(IF t = NoTime /\ mode # "ov" THEN Crow[mode, p] ELSE t)

-----------------------------------------------------------------------------
(* A computation *)

Way(q) == Modes[q.mode]
Kept(mode, p) == cache[mode, Cell[p]]
Outside(mode, p) == mode = "ov" /\ (~OriginInside \/ p \notin Inside)

\* The batch is gone through for one way of travelling: what has no coordinates or
\* lies outside is unknown, what is kept is taken, the rest is needed.
Need(dests, mode) ==
    SelectSeq([i \in 1 .. Len(dests) |-> i],
              LAMBDA i : dests[i] \in Located /\ ~Outside(mode, dests[i]) /\ Kept(mode, dests[i]) = {})
Scanned(q, m) ==
    LET mode == Modes[m]
        need == Need(q.dests, mode)
    IN  [q EXCEPT !.mode = m, !.need = need, !.got = [j \in 1 .. Len(need) |-> NoTime], !.cursor = 0,
                  !.job = {}, !.at = IF need = <<>> THEN "scanned" ELSE "asking",
                  !.out = [i \in 1 .. Len(q.dests) |->
                             LET p == q.dests[i]
                             IN  [@[i] EXCEPT ![mode] =
                                    IF p \notin Located \/ Outside(mode, p) THEN "unknown"
                                    ELSE IF Kept(mode, p) # {} THEN CHOOSE b \in Kept(mode, p) : TRUE
                                    ELSE "unset"]]]

Begin(r, batch) ==
    /\ req[r].at = "idle"
    /\ req' = [req EXCEPT ![r] =
                  Scanned([Idle EXCEPT !.dests = batch,
                                       !.out = [i \in 1 .. Len(batch) |-> [m \in Ways |-> "unset"]]], 1)]
    /\ UNCHANGED <<cache, learned, serves, failures>>

\* The answers are folded in and kept, the unknown ones too, and the next way of
\* travelling is gone through.
FoldedInOrder(q) ==
    [i \in 1 .. Len(q.dests) |->
        IF i \in DOMAIN q.need THEN [q.out[i] EXCEPT ![Way(q)] = BucketOf(q.got[i])] ELSE q.out[i]]
Folded(q) ==
    [i \in 1 .. Len(q.dests) |->
        IF \E j \in DOMAIN q.need : q.need[j] = i
        THEN [q.out[i] EXCEPT ![Way(q)] =
                 Settled(Way(q), q.dests[i], q.got[CHOOSE j \in DOMAIN q.need : q.need[j] = i])]
        ELSE q.out[i]]
KeptAfter(q) ==
    [x \in Ways \X Cells |->
        LET js == {j \in DOMAIN q.need : x = <<Way(q), Cell[q.dests[q.need[j]]]>>}
        IN  IF js = {} THEN cache[x]
            ELSE LET j == CHOOSE j \in js : \A k \in js : k <= j
                 IN  {Settled(Way(q), q.dests[q.need[j]], q.got[j])}]
Fold(r) ==
    /\ req[r].at = "answered"
    /\ cache' = KeptAfter(req[r])
    /\ req' = [req EXCEPT ![r] = [@ EXCEPT !.out = Folded(req[r]), !.at = "scanned"]]
    /\ UNCHANGED <<learned, serves, failures>>
NextWay(r) ==
    /\ req[r].at = "scanned"
    /\ req' = [req EXCEPT ![r] = IF @.mode < Len(Modes) THEN Scanned(@, @.mode + 1) ELSE [@ EXCEPT !.at = "done"]]
    /\ UNCHANGED <<cache, learned, serves, failures>>
Forget(r) ==
    /\ req[r].at = "done"
    /\ req' = [req EXCEPT ![r] = Idle]
    /\ UNCHANGED <<cache, learned, serves, failures>>

-----------------------------------------------------------------------------
(* The providers *)

ByOtp(q) == Way(q) = "ov" /\ OvBy = "otp"
Refused(q) ==
    \/ Way(q) = "ov" /\ (OvBy = "none" \/ Len(q.need) > MaxDests)
    \/ Way(q) # "ov" /\ ~OrsKey

\* Asked without a key, or for too much: no time is known.
Refuse(r) ==
    /\ req[r].at = "asking" /\ Refused(req[r])
    /\ req' = [req EXCEPT ![r].at = "answered"]
    /\ UNCHANGED <<cache, learned, serves, failures>>

\* One call for the whole batch, by road (a row, in the order asked) or at Google (the
\* pairs in any order, each with its index).
TimeFor(q, j) == Route[Way(q), q.dests[q.need[j]]]
Answer(r) ==
    /\ req[r].at = "asking" /\ ~Refused(req[r]) /\ ~ByOtp(req[r])
    /\ req' = [req EXCEPT ![r] = [@ EXCEPT !.at = "answered",
                                           !.got = [j \in DOMAIN @ |-> TimeFor(req[r], j)]]]
    /\ UNCHANGED <<cache, learned, serves, failures>>
Fail(r) ==
    /\ req[r].at = "asking" /\ ~Refused(req[r]) /\ ~ByOtp(req[r]) /\ failures < MaxFailures
    /\ failures' = failures + 1
    /\ req' = [req EXCEPT ![r] = [@ EXCEPT !.at = "answered", !.failed = TRUE]]
    /\ UNCHANGED <<cache, learned, serves>>

\* OpenTripPlanner: one query for each destination, a few at a time. A query goes out
\* in the dialect that worked last and, if that fails, in the other one.
Other(d) == IF d = "modern" THEN "legacy" ELSE "modern"
First(l) == IF l = "legacy" THEN "legacy" ELSE "modern"
Taken(q, l) ==
    IF q.cursor < Len(q.need)
    THEN [q EXCEPT !.cursor = @ + 1, !.job = @ \cup {[j |-> q.cursor + 1, dialect |-> First(l), again |-> FALSE]}]
    ELSE q
OtpStart(r) ==
    /\ req[r].at = "asking" /\ ~Refused(req[r]) /\ ByOtp(req[r]) /\ req[r].cursor = 0
    /\ LET n == IF Len(req[r].need) < Concurrency THEN Len(req[r].need) ELSE Concurrency
       IN  req' = [req EXCEPT ![r] = [@ EXCEPT !.cursor = n,
                      !.job = {[j |-> j, dialect |-> First(learned), again |-> FALSE] : j \in 1 .. n}]]
    /\ UNCHANGED <<cache, learned, serves, failures>>

Ended(q) == IF q.job = {} /\ q.cursor >= Len(q.need) THEN [q EXCEPT !.at = "answered"] ELSE q
OtpAnswer(r, job) ==
    /\ req[r].at = "asking" /\ job \in req[r].job /\ job.dialect \in serves
    /\ learned' = job.dialect
    /\ req' = [req EXCEPT ![r] =
                  Ended(Taken([@ EXCEPT !.job = @ \ {job}, !.got[job.j] = TimeFor(req[r], job.j)], job.dialect))]
    /\ UNCHANGED <<cache, serves, failures>>
OtpReject(r, job) ==
    /\ job.dialect \notin serves /\ failures' = failures
    /\ req[r].at = "asking" /\ job \in req[r].job
    /\ req' = [req EXCEPT ![r] =
                  IF job.again THEN Ended(Taken([@ EXCEPT !.job = @ \ {job}], learned))
                  ELSE [@ EXCEPT !.job = (@ \ {job}) \cup
                                            {[job EXCEPT !.dialect = Other(job.dialect), !.again = TRUE]}]]
    /\ UNCHANGED <<cache, learned, serves>>
OtpFail(r, job) ==
    /\ failures < MaxFailures /\ failures' = failures + 1
    /\ job.dialect \in serves
    /\ req[r].at = "asking" /\ job \in req[r].job
    /\ req' = [req EXCEPT ![r] =
                  IF job.again THEN Ended(Taken([@ EXCEPT !.job = @ \ {job}, !.failed = TRUE], learned))
                  ELSE [@ EXCEPT !.failed = TRUE,
                                 !.job = (@ \ {job}) \cup
                                            {[job EXCEPT !.dialect = Other(job.dialect), !.again = TRUE]}]]
    /\ UNCHANGED <<cache, learned, serves>>

\* An entry of the cache goes after a day, or for others.
Expire(x) ==
    /\ cache[x] # {} /\ cache' = [cache EXCEPT ![x] = {}]
    /\ UNCHANGED <<learned, serves, req, failures>>

RequestStep(r) ==
    \/ Fold(r) \/ NextWay(r)
    \/ Refuse(r) \/ Answer(r) \/ Fail(r)
    \/ OtpStart(r)
    \/ \E job \in req[r].job : OtpAnswer(r, job) \/ OtpReject(r, job) \/ OtpFail(r, job)

TravelNext ==
    \/ \E r \in Requests : RequestStep(r) \/ Forget(r)
    \/ \E r \in Requests, batch \in Batches : Begin(r, batch)
    \/ \E x \in Ways \X Cells : Expire(x)

TravelSpec == TravelInit /\ [][TravelNext]_vars
LiveTravelSpec == TravelSpec /\ \A r \in Requests : WF_vars(RequestStep(r))

-----------------------------------------------------------------------------
\* Types of the variables.
TypeOK ==
    /\ cache \in [Ways \X Cells -> SUBSET (Buckets \cup {"unknown"})]
    /\ \A x \in Ways \X Cells : Cardinality(cache[x]) <= 1
    /\ learned \in {"none", "modern", "legacy"}
    /\ serves \in SUBSET {"modern", "legacy"}
    /\ failures \in 0 .. MaxFailures
    /\ \A r \in Requests :
          /\ req[r].at \in {"idle", "asking", "answered", "scanned", "done"}
          /\ \A i \in DOMAIN req[r].out, m \in Ways : req[r].out[i][m] \in Buckets \cup {"unknown", "unset"}
          /\ Len(req[r].got) = Len(req[r].need)

\* Each destination gets its own time (or that of a point that is the same to three
\* decimals), whatever was kept, answered or left out before it in the batch.
Own ==
    \A r \in Requests : \A i \in DOMAIN req[r].out, m \in Ways :
        LET p == req[r].dests[i]
            b == req[r].out[i][m]
        IN  b \in Buckets => /\ p \in Located
                             /\ \E q \in Located : /\ Cell[q] = Cell[p]
                                                   /\ \/ b = BucketOf(Route[m, q])
                                                      \/ m # "ov" /\ b = BucketOf(Crow[m, q])

\* A time by public transport is the timetable's or unknown, and known only inside the
\* box: "Never invent OV times."
OvReal ==
    \A r \in Requests : \A i \in DOMAIN req[r].out :
        "ov" \in Ways /\ req[r].out[i]["ov"] \in Buckets =>
            /\ OvBy # "none" /\ OriginInside /\ req[r].dests[i] \in Inside
            /\ \E q \in Located : Cell[q] = Cell[req[r].dests[i]] /\ req[r].out[i]["ov"] = BucketOf(Route["ov", q])

\* Who filters on "at most half an hour" is shown nobody whose journey takes longer.
Limit == [lt15 |-> 3, lt30 |-> 6, lt45 |-> 9, lt60 |-> 12, gt60 |-> NoTime]
WithinLimit ==
    \A r \in Requests : \A i \in DOMAIN req[r].out, m \in Ways, l \in Buckets \ {"gt60"} :
        LET p == req[r].dests[i]
        IN  req[r].out[i][m] # "unset" /\ bucketRank[req[r].out[i][m]] <= bucketRank[l] =>
                \E q \in Located : Cell[q] = Cell[p] /\ (Route[m, q] < Limit[l] \/ Crow[m, q] < Limit[l])

\* A computation that is done has a word on every destination and way, and by road or
\* bicycle it is never "unknown" for who has coordinates.
Complete ==
    \A r \in Requests : req[r].at = "done" =>
        \A i \in DOMAIN req[r].out, m \in Ways :
            /\ req[r].out[i][m] # "unset"
            /\ req[r].dests[i] \in Located /\ m # "ov" => req[r].out[i][m] \in Buckets

\* Once a dialect has worked, no query starts in one that the server does not speak.
DialectKept ==
    \A r \in Requests : \A job \in req'[r].job \ req[r].job :
       ~job.again /\ learned' # "none" => job.dialect \in serves

\* Every computation ends.
Computing(r) == req[r].at \notin {"idle", "done"}

\* "hides the OV chip until real data lands": a computation in which nothing failed,
\* with a provider in place, knows every journey that the timetable has.
OvLands ==
    \A r \in Requests : req[r].at = "done" /\ ~req[r].failed /\ OvBy # "none" /\ OriginInside =>
        \A i \in DOMAIN req[r].out :
            LET p == req[r].dests[i]
            IN  p \in Inside /\ (\A q \in Located : Cell[q] = Cell[p] => Route["ov", q] # NoTime)
                  => req[r].out[i]["ov"] \in Buckets
=============================================================================
