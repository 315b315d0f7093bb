----------------------------- MODULE TokenCache -----------------------------
(***************************************************************************)
(* The access tokens of one 8vance tenant (lib/eightvance/auth.ts) and the   *)
(* request loop that uses them (VanceClient.request in client.ts).  Each     *)
(* server process has a cache entry, an object that a getToken may hold on   *)
(* to over an await; Redis mirrors the newest token.  A refresh carries the  *)
(* name of the request that started it.  Tokens are numbered as minted.      *)
(***************************************************************************)
EXTENDS Naturals, FiniteSets

CONSTANTS
  Servers, Requests, ServerOf,   \* processes, requests and where each runs
  Redis,                         \* whether Upstash is configured
  AuthRetries, RateRetries, NetRetries,  \* budgets of one request (1, 2, 3)
  MaxAttempts,                   \* the loop's bound (16)
  Faults,    \* "net": no answer or a 5xx, "429", "mint": no token, "redis"
  MaxTokens, \* bound on the tokens minted
  MaxRevokes, MaxExpiries, MaxCalls   \* bounds on events and on requests made

Nobody == "nobody"
Settled == "settled"
TokenCacheAssumption ==
  /\ IsFiniteSet(Servers) /\ IsFiniteSet(Requests)
  /\ ServerOf \in [Requests -> Servers] /\ Redis \in BOOLEAN
  /\ {AuthRetries, RateRetries, NetRetries, MaxTokens, MaxRevokes, MaxExpiries, MaxCalls} \subseteq Nat
  /\ MaxAttempts \in Nat \ {0} /\ Faults \subseteq {"net", "429", "mint", "redis"}
  /\ {Nobody, Settled} \cap Requests = {}

VARIABLES
  heap,      \* cache entries: [access, inflight]
  cached,    \* the entry the map of each process holds, 0 for none
  refresh,   \* refreshes under way: [at, token], by the request that started it
  request,   \* each request: where its loop is, the entry or refresh it awaits on,
             \* its token, the tokens 8vance rejected, the budgets left, the rounds
  shared,    \* the token in Redis, 0 for none,
  orders,    \* and the commands on their way to it
  minted, expired, revoked,  \* the newest token, the newest past its cache
                             \* lifetime, the newest 8vance rejects
  revokes, expiries, calls

cacheVars == <<heap, cached, refresh>>
clockVars == <<minted, expired, revoked, revokes, expiries>>
tokenVars == <<heap, cached, refresh, request, shared, orders, clockVars, calls>>

Entries == 1..(Cardinality(Servers) + Cardinality(Requests) + 1)
Tokens == 0..MaxTokens
NoEntry == [access |-> 0, inflight |-> Nobody]
NoRefresh == [at |-> "none", token |-> 0]
NewRequest == [at |-> "idle", entry |-> 0, on |-> Nobody, token |-> 0, rejected |-> {},
               auth |-> AuthRetries, rate |-> RateRetries, net |-> NetRetries, attempt |-> 0]
Usable(t) == t > expired
\* An entry nobody refers to any more is collected, and reused for a new object.
Kept(h) == [e \in Entries |->
  IF (\E s \in Servers : cached'[s] = e) \/ (\E q \in Requests : request'[q].entry = e)
  THEN h[e] ELSE NoEntry]
Fresh == CHOOSE e \in Entries :
           (\A s \in Servers : cached[s] # e) /\ (\A q \in Requests : request[q].entry # e)
Order(q, op, t) == IF Redis THEN orders \cup {[by |-> q, op |-> op, token |-> t]} ELSE orders

TokenTypeOK ==
  /\ heap \in [Entries -> [access : Tokens, inflight : Requests \cup {Nobody, Settled}]]
  /\ cached \in [Servers -> Entries \cup {0}]
  /\ refresh \in [Requests -> [at : {"none", "asked", "minted", "refused"}, token : Tokens]]
  /\ request \in [Requests ->
       [at : {"idle", "acquire", "shared", "read", "waiting", "forced", "send", "done",
              "failed", "exhausted"},
        entry : Entries \cup {0}, on : Requests \cup {Nobody},
        token : Tokens, rejected : SUBSET Tokens,
        auth : 0..AuthRetries, rate : 0..RateRetries, net : 0..NetRetries,
        attempt : 0..MaxAttempts]]
  /\ shared \in Tokens
  /\ orders \subseteq [by : Requests, op : {"set", "del"}, token : Tokens]
  /\ {minted, expired, revoked} \subseteq Tokens
  /\ revokes \in 0..MaxRevokes /\ expiries \in 0..MaxExpiries /\ calls \in 0..MaxCalls

-----------------------------------------------------------------------------
TokenInit ==
  /\ heap = [e \in Entries |-> NoEntry] /\ cached = [s \in Servers |-> 0]
  /\ refresh = [q \in Requests |-> NoRefresh] /\ request = [q \in Requests |-> NewRequest]
  /\ shared = 0 /\ orders = {} /\ minted = 0 /\ expired = 0 /\ revoked = 0
  /\ revokes = 0 /\ expiries = 0 /\ calls = 0

Call(q) ==
  /\ request[q].at \in {"idle", "done", "failed"} /\ calls < MaxCalls
  /\ request' = [request EXCEPT ![q] = [NewRequest EXCEPT !.at = "acquire"]]
  /\ calls' = calls + 1
  /\ UNCHANGED <<cacheVars, shared, orders, clockVars>>

\* A round of the loop: acquire returned, getToken runs to its first await.
GetToken(q) ==
  LET e == cached[ServerOf[q]]
      held == IF e = 0 THEN NoEntry ELSE heap[e]
      next == [request[q] EXCEPT !.attempt = @ + 1]
  IN
  /\ request[q].at = "acquire" /\ request[q].attempt < MaxAttempts
  /\ request' = [request EXCEPT ![q] =
       IF Usable(held.access) THEN [next EXCEPT !.at = "send", !.token = held.access]
       ELSE IF held.inflight = Settled THEN [NewRequest EXCEPT !.at = "failed"]
       ELSE IF held.inflight # Nobody THEN [next EXCEPT !.at = "waiting", !.on = held.inflight]
       ELSE [next EXCEPT !.at = "shared", !.entry = e]]
  /\ UNCHANGED <<cacheVars, shared, orders, clockVars, calls>>

\* The loop's paranoia stop.
Exhaust(q) ==
  /\ request[q].at = "acquire" /\ request[q].attempt = MaxAttempts
  /\ request' = [request EXCEPT ![q] = [request[q] EXCEPT !.at = "exhausted"]]
  /\ UNCHANGED <<cacheVars, shared, orders, clockVars, calls>>

\* redisGetToken; without Redis, or on its error, there is no shared token.
ReadShared(q) ==
  /\ request[q].at = "shared"
  /\ \E t \in IF ~Redis THEN {0} ELSE IF "redis" \in Faults THEN {0, shared} ELSE {shared} :
       request' = [request EXCEPT ![q] = [request[q] EXCEPT !.at = "read", !.token = t]]
  /\ UNCHANGED <<cacheVars, shared, orders, clockVars, calls>>

SharedHit(q) ==
  LET e == Fresh IN
  /\ request[q].at = "read" /\ Usable(request[q].token)
  /\ cached' = [cached EXCEPT ![ServerOf[q]] = e]
  /\ request' = [request EXCEPT ![q] = [request[q] EXCEPT !.at = "send", !.entry = 0]]
  /\ heap' = Kept([heap EXCEPT ![e] = [access |-> request[q].token, inflight |-> Nobody]])
  /\ UNCHANGED <<refresh, shared, orders, clockVars, calls>>

\* doRefresh is started and stashed on the entry getToken saw before its await,
\* or on a placeholder; either becomes the entry of the map.
Stashed(q, e, held) ==
  /\ cached' = [cached EXCEPT ![ServerOf[q]] = e]
  /\ heap' = Kept([heap EXCEPT ![e] = [access |-> held.access, inflight |-> q]])
  /\ refresh' = [refresh EXCEPT ![q] = [at |-> "asked", token |-> 0]]
StartRefresh(q) ==
  LET e == request[q].entry IN
  /\ request[q].at = "read" /\ ~Usable(request[q].token)
  /\ request' = [request EXCEPT ![q] =
       [request[q] EXCEPT !.at = "waiting", !.on = q, !.token = 0, !.entry = 0]]
  /\ IF e = 0 THEN Stashed(q, Fresh, NoEntry) ELSE Stashed(q, e, heap[e])
  /\ UNCHANGED <<shared, orders, clockVars, calls>>

\* 8vance answers the token endpoint; past the bound it mints no more.
Mint(q) ==
  /\ refresh[q].at = "asked"
  /\ \/ /\ minted < MaxTokens /\ minted' = minted + 1
        /\ refresh' = [refresh EXCEPT ![q] = [at |-> "minted", token |-> minted + 1]]
     \/ /\ "mint" \in Faults \/ minted = MaxTokens
        /\ refresh' = [refresh EXCEPT ![q].at = "refused"] /\ UNCHANGED minted
  /\ UNCHANGED <<heap, cached, request, shared, orders, expired, revoked, revokes, expiries, calls>>

\* The refresh promise of q settles: the entry of the map, whichever it is now,
\* has its inflight cleared; one nobody finds any more keeps the settled promise.
Marked(h, q) == [e \in Entries |-> IF h[e].inflight = q THEN [h[e] EXCEPT !.inflight = Settled] ELSE h[e]]
Cleared(h, q, e) == IF e = 0 THEN Marked(h, q)
                    ELSE [Marked(h, q) EXCEPT ![e].inflight = Nobody]
\* The requests that await it go on; one that refreshed after a 401 makes a new round.
Resumed(q, t) == [r \in Requests |->
  IF request[r].on # q THEN request[r]
  ELSE IF t = 0 THEN [NewRequest EXCEPT !.at = "failed"]
  ELSE IF request[r].at = "forced" THEN [request[r] EXCEPT !.at = "acquire", !.on = Nobody]
  ELSE [request[r] EXCEPT !.at = "send", !.on = Nobody, !.token = t]]
Refreshed(q) ==
  LET e == Fresh
      t == refresh[q].token
  IN
  /\ refresh[q].at = "minted"
  /\ cached' = [cached EXCEPT ![ServerOf[q]] = e]
  /\ orders' = Order(q, "set", t)
  /\ refresh' = [refresh EXCEPT ![q] = NoRefresh] /\ request' = Resumed(q, t)
  /\ heap' = Kept(Cleared([heap EXCEPT ![e] = [access |-> t, inflight |-> Nobody]], q, e))
  /\ UNCHANGED <<shared, clockVars, calls>>
RefreshFails(q) ==
  /\ refresh[q].at = "refused"
  /\ heap' = Cleared(heap, q, cached[ServerOf[q]])
  /\ refresh' = [refresh EXCEPT ![q] = NoRefresh] /\ request' = Resumed(q, 0)
  /\ UNCHANGED <<cached, shared, orders, clockVars, calls>>

\* 8vance answers the request.
Answer(q) ==
  /\ request[q].at = "send" /\ request[q].token > revoked
  /\ request' = [request EXCEPT ![q] = [NewRequest EXCEPT !.at = "done"]]
  /\ UNCHANGED <<cacheVars, shared, orders, clockVars, calls>>
\* A network failure, a timeout or a 5xx, and a 429: another round, after a sleep.
Unanswered(q) ==
  /\ request[q].at = "send" /\ "net" \in Faults
  /\ request' = [request EXCEPT ![q] =
       IF request[q].net > 0 THEN [request[q] EXCEPT !.at = "acquire", !.net = request[q].net - 1]
       ELSE [NewRequest EXCEPT !.at = "failed"]]
  /\ UNCHANGED <<cacheVars, shared, orders, clockVars, calls>>
Throttled(q) ==
  /\ request[q].at = "send" /\ "429" \in Faults
  /\ request' = [request EXCEPT ![q] =
       IF request[q].rate > 0 THEN [request[q] EXCEPT !.at = "acquire", !.rate = request[q].rate - 1]
       ELSE [NewRequest EXCEPT !.at = "failed"]]
  /\ UNCHANGED <<cacheVars, shared, orders, clockVars, calls>>

\* A 401: once, the token is invalidated here and in Redis, and a refresh forced.
\* invalidateToken just emptied the map, so the refresh is never a shared one.
RejectedKeeping(q) ==
  /\ request[q].at = "send" /\ request[q].token <= revoked /\ request[q].auth > 0
  /\ request' = [request EXCEPT ![q] =
       [request[q] EXCEPT !.at = "acquire", !.token = 0, !.auth = @ - 1,
                          !.rejected = @ \cup {request[q].token}]]
  /\ orders' = Order(q, "del", 0)
  /\ UNCHANGED <<cacheVars, shared, clockVars, calls>>
Rejected(q) ==
  /\ request[q].at = "send" /\ request[q].token <= revoked /\ request[q].auth > 0
  /\ request' = [request EXCEPT ![q] =
       [request[q] EXCEPT !.at = "forced", !.on = q, !.token = 0, !.auth = @ - 1,
                          !.rejected = @ \cup {request[q].token}]]
  /\ Stashed(q, Fresh, NoEntry)
  /\ orders' = Order(q, "del", 0)
  /\ UNCHANGED <<shared, clockVars, calls>>
Unauthorized(q) ==
  /\ request[q].at = "send" /\ request[q].token <= revoked /\ request[q].auth = 0
  /\ request' = [request EXCEPT ![q] = [NewRequest EXCEPT !.at = "failed"]]
  /\ UNCHANGED <<cacheVars, shared, orders, clockVars, calls>>

\* A command reaches Redis, in any order, or is lost.
Deliver ==
  \E o \in orders :
    /\ orders' = orders \ {o}
    /\ \/ shared' = IF o.op = "set" THEN o.token ELSE 0
       \/ "redis" \in Faults /\ UNCHANGED shared
    /\ UNCHANGED <<cacheVars, request, clockVars, calls>>

\* The cache lifetime of the tokens so far passes; 8vance drops those so far.
Expire ==
  /\ expiries < MaxExpiries /\ expired < minted
  /\ expired' = minted /\ expiries' = expiries + 1
  /\ UNCHANGED <<cacheVars, request, shared, orders, minted, revoked, revokes, calls>>
Revoke ==
  /\ revokes < MaxRevokes /\ revoked < minted
  /\ revoked' = minted /\ revokes' = revokes + 1
  /\ UNCHANGED <<cacheVars, request, shared, orders, minted, expired, expiries, calls>>

RequestStep(q) ==
  \/ GetToken(q) \/ Exhaust(q) \/ ReadShared(q) \/ SharedHit(q) \/ StartRefresh(q)
  \/ Mint(q) \/ Refreshed(q) \/ RefreshFails(q)
  \/ Answer(q) \/ Unanswered(q) \/ Throttled(q) \/ Rejected(q) \/ Unauthorized(q)
TokenNext ==
  \/ \E q \in Requests : Call(q) \/ RequestStep(q)
  \/ Deliver \/ Expire \/ Revoke

TokenSpec == TokenInit /\ [][TokenNext]_tokenVars
\* Promises settle: 8vance, Redis or a timeout answers every call.
LiveTokenSpec == TokenSpec /\ \A q \in Requests : WF_tokenVars(RequestStep(q))

-----------------------------------------------------------------------------
\* The entry getToken finds never holds a refresh that has settled: whatever
\* entries were deleted, replaced or brought back in the meantime, a failed refresh
\* is not handed to later callers, and the next one asks 8vance again.
NoStuckRefresh ==
  \A s \in Servers : cached[s] # 0 => heap[cached[s]].inflight # Settled

\* After a 401 a request never sends the token 8vance rejected again.
NeverReplaysRejected ==
  \A q \in Requests : request[q].at = "send" => request[q].token \notin request[q].rejected

\* The three retry budgets end every request before the bound of the loop does.
NeverExhausted == \A q \in Requests : request[q].at # "exhausted"

\* Every request is answered or fails, whatever refresh it shares or loses.
UnderWay(q) == request[q].at \notin {"idle", "done", "failed", "exhausted"}

\* What auth.ts says: "at most one refresh per expiry", callers in one process share it.
OneRefresh ==
  \A s \in Servers : Cardinality({q \in Requests : ServerOf[q] = s /\ refresh[q].at # "none"}) <= 1
=============================================================================
