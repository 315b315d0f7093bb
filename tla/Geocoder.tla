------------------------------ MODULE Geocoder ------------------------------
(* The look-up of places: by name, in the home country first and in the world  *)
(* if nothing is found there; and by point. Answers are kept for an hour. Any  *)
(* number of requests may be under way. A request to the geocoder may throw    *)
(* (no connection) or be refused (a status that is not ok).                    *)
EXTENDS Integers, Sequences, FiniteSets, SequencesExt

CONSTANTS Requests,        \* the requests, each made once
          Query,           \* [request] -> what it asks: [text, case] or [spot]
          Home, World,     \* [text] -> what is found there: sequences of results
          PlaceAt,              \* [spot] -> the address found at a point
          Faults,          \* what may happen: "throws", "refuses"
          MaxExpiries

VARIABLES req,             \* [request] -> its stage and, in the end, its rows
          cache,           \* [text] -> the rows kept, a set of at most one
          reverseCache,    \* [spot] -> the rows kept, a set of at most one
          refused,         \* what the geocoder has refused to answer so far
          expiries

vars == <<req, cache, reverseCache, refused, expiries>>

Texts == DOMAIN World
Spots == DOMAIN PlaceAt
IsReverse(r) == Query[r].kind = "reverse"

pickCity(x, byName) == IF x.city # "" THEN x.city ELSE IF byName THEN x.label ELSE ""

Row(x, byName) == [city |-> pickCity(x, byName), country |-> x.country, point |-> x.point]
Key(row) == <<row.city, row.country>>

RowsOf(results, byName) ==
    LET rows == [i \in 1 .. Len(results) |-> Row(results[i], byName)]
        usable(i) == rows[i].city # "" /\ rows[i].point # ""
        first(i) == \A k \in 1 .. i - 1 : usable(k) => Key(rows[k]) # Key(rows[i])
    IN  [n \in 1 .. Cardinality({i \in 1 .. Len(rows) : usable(i) /\ first(i)}) |->
            rows[CHOOSE i \in 1 .. Len(rows) :
                    /\ usable(i) /\ first(i)
                    /\ Cardinality({k \in 1 .. i : usable(k) /\ first(k)}) = n]]

\* A point for which the address has no city gives no row; a row's own point is
\* preferred to the one that was asked for.
ReverseRows(s) ==
    IF PlaceAt[s].city = "" THEN <<>>
    ELSE <<[city |-> PlaceAt[s].city, country |-> PlaceAt[s].country, point |-> IF PlaceAt[s].point = "" THEN s ELSE PlaceAt[s].point]>>

To(stage) == [stage |-> stage, rows |-> <<>>]
NoRequest == [stage |-> "new", rows |-> <<>>]
Done(rows) == [stage |-> "done", rows |-> rows]

\* The cache is looked up under the lowercased text; too short a text has no rows.
Short(r) == Query[r].text = ""
Ask(r) ==
    /\ req[r].stage = "new" /\ ~IsReverse(r)
    /\ req' = [req EXCEPT ![r] =
                 IF Short(r) THEN Done(<<>>)
                 ELSE IF cache[Query[r].text] # {} THEN Done(CHOOSE x \in cache[Query[r].text] : TRUE)
                 ELSE To("home")]
    /\ UNCHANGED <<cache, reverseCache, refused, expiries>>

\* What refusing a question leaves: nothing, except in the record of refusals.
Answer(question, ok) == refused' = IF ok THEN refused ELSE refused \cup {question}

AfterHome == To("world")
HomeFirst(rows) == rows # <<>>
HomeAnswers(r, ok) ==
    /\ req[r].stage = "home"
    /\ LET rows == IF ok THEN RowsOf(Home[Query[r].text], TRUE) ELSE <<>> IN
       IF HomeFirst(rows)
       THEN /\ req' = [req EXCEPT ![r] = Done(rows)]
            /\ cache' = [cache EXCEPT ![Query[r].text] = {rows}]
       ELSE /\ req' = [req EXCEPT ![r] = AfterHome]
            /\ UNCHANGED cache
    /\ Answer(<<"home", Query[r].text>>, ok)
    /\ UNCHANGED <<reverseCache, expiries>>

WorldAnswers(r, ok) ==
    /\ req[r].stage = "world"
    /\ LET rows == IF ok THEN RowsOf(World[Query[r].text], TRUE) ELSE <<>> IN
       /\ req' = [req EXCEPT ![r] = Done(rows)]
       /\ cache' = [cache EXCEPT ![Query[r].text] = {rows}]
    /\ Answer(<<"world", Query[r].text>>, ok)
    /\ UNCHANGED <<reverseCache, expiries>>

AskPoint(r) ==
    /\ req[r].stage = "new" /\ IsReverse(r)
    /\ req' = [req EXCEPT ![r] =
                 IF reverseCache[Query[r].spot] # {} THEN Done(CHOOSE x \in reverseCache[Query[r].spot] : TRUE)
                 ELSE To("reverse")]
    /\ UNCHANGED <<cache, reverseCache, refused, expiries>>

PointAnswers(r, ok) ==
    /\ req[r].stage = "reverse"
    /\ LET rows == IF ok THEN ReverseRows(Query[r].spot) ELSE <<>> IN
       /\ req' = [req EXCEPT ![r] = Done(rows)]
       /\ reverseCache' = [reverseCache EXCEPT ![Query[r].spot] = {rows}]
    /\ Answer(<<"reverse", Query[r].spot>>, ok)
    /\ UNCHANGED <<cache, expiries>>

KeptOfThrown(r) == UNCHANGED <<cache, reverseCache>>
Throws(r) ==
    /\ "throws" \in Faults /\ req[r].stage \in {"home", "world", "reverse"}
    /\ req' = [req EXCEPT ![r] = Done(<<>>)]
    /\ KeptOfThrown(r)
    /\ UNCHANGED <<refused, expiries>>

\* An hour passes for one entry, or it is the oldest of too many.
Expires ==
    /\ expiries < MaxExpiries
    /\ \/ \E x \in Texts : cache[x] # {} /\ cache' = [cache EXCEPT ![x] = {}] /\ UNCHANGED reverseCache
       \/ \E s \in Spots : reverseCache[s] # {} /\ reverseCache' = [reverseCache EXCEPT ![s] = {}] /\ UNCHANGED cache
    /\ expiries' = expiries + 1
    /\ UNCHANGED <<req, refused>>

GeocoderInit == /\ req = [r \in Requests |-> NoRequest]
                /\ cache = [x \in Texts |-> {}] /\ reverseCache = [s \in Spots |-> {}]
                /\ refused = {} /\ expiries = 0

OkOr(fault) == {TRUE} \union IF fault \in Faults THEN {FALSE} ELSE {}
GeocoderNext ==
    \/ \E r \in Requests : Ask(r)
    \/ \E r \in Requests, ok \in OkOr("refuses") : HomeAnswers(r, ok)
    \/ \E r \in Requests, ok \in OkOr("refuses") : WorldAnswers(r, ok)
    \/ \E r \in Requests : AskPoint(r)
    \/ \E r \in Requests, ok \in OkOr("refuses") : PointAnswers(r, ok)
    \/ \E r \in Requests : Throws(r)
    \/ Expires

\* The geocoder answers a request, or refuses it.
Answered(r) == \E ok \in BOOLEAN : HomeAnswers(r, ok) \/ WorldAnswers(r, ok) \/ PointAnswers(r, ok)

GeocoderSpec == GeocoderInit /\ [][GeocoderNext]_vars
LiveGeocoderSpec ==
    GeocoderSpec /\ \A r \in Requests :
        WF_vars(Answered(r))

-----------------------------------------------------------------------------
(* Properties.                                                                 *)

Usable(x, byName) == x.point # "" /\ (x.city # "" \/ (byName /\ x.label # ""))
Names(results) == {IF x.city # "" THEN x.city ELSE x.label : x \in {y \in ToSet(results) : Usable(y, TRUE)}}
Cities(rows) == {x.city : x \in ToSet(rows)}

\* A finished request has a stage, and the rows it gives are each of another
\* city and country, named and on the map.
TypeOK ==
    /\ \A r \in Requests : req[r].stage \in {"new", "home", "world", "reverse", "done"}
    /\ \A r \in Requests : \A i, k \in 1 .. Len(req[r].rows) :
          /\ req[r].rows[i].city # "" /\ req[r].rows[i].point # ""
          /\ Key(req[r].rows[i]) = Key(req[r].rows[k]) => i = k

\* What is kept of a text is what its country has, or the world if its country has
\* nothing; else the geocoder has refused the one, or both, and that is kept instead.
AtHome(x) == Names(Home[x])
Missed(where, x) == <<where, x>> \in refused
KeptTrue == \A x \in Texts : \A rows \in cache[x] :
    \/ AtHome(x) # {} /\ Cities(rows) = AtHome(x)
    \/ /\ AtHome(x) = {} \/ Missed("home", x)
       /\ Cities(rows) = Names(World[x]) \/ (Missed("world", x) /\ rows = <<>>)

\* A point is kept without a place only if there is none, or a request for it was refused.
NoHitOnly == \A s \in Spots : <<>> \in reverseCache[s] => PlaceAt[s].city = "" \/ Missed("reverse", s)

\* An answer from beyond the home country is given only if that has none, or has once
\* refused to answer for that text.
WorldOnlyIfNone == \A r \in Requests : req[r].stage = "done" /\ ~IsReverse(r) /\ req[r].rows # <<>> =>
    \/ Cities(req[r].rows) \subseteq AtHome(Query[r].text)
    \/ AtHome(Query[r].text) = {} \/ Missed("home", Query[r].text)

\* Two requests for one text are not answered by different places, whatever was kept,
\* expired or thrown in between, unless the home country refused one of them; and one of
\* them may be answered by none.
SameAnswer == \A r, q \in Requests :
    /\ req[r].stage = "done" /\ req[q].stage = "done" /\ Query[r] = Query[q]
    /\ req[r].rows # <<>> /\ req[q].rows # <<>>
    => req[r].rows = req[q].rows \/ Missed("home", Query[r].text)

\* A request that was made and is not answered; each one is in the end.
Open(r) == req[r].stage \notin {"new", "done"}
==============================================================================
