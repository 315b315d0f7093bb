---------------------------- MODULE RateLimiter ----------------------------
(***************************************************************************)
(* lib/eightvance/ratelimit.ts: one bucket of the 8vance limiter, in every   *)
(* server process that uses it, and the counter and penalty the processes   *)
(* share in Redis.  Time is discrete and relative: a deadline is the ticks   *)
(* left to it, and a round trip to Redis is shorter than a tick.  Tokens are *)
(* counted in units of 1/Window token, so a refill is exact.                *)
(***************************************************************************)
EXTENDS Naturals, Sequences, FiniteSetsExt

CONSTANTS
  Servers,     \* server processes
  Callers,     \* requests to 8vance on this bucket, each again and again,
  ServerOf,    \* and the process each runs in
  Capacity,    \* tokens per window
  Window,      \* ticks of a window
  MaxSleep,    \* the longest sleep of a round (5 s)
  MaxRounds,   \* rounds before acquire stops trying (1000)
  Penalties,   \* Retry-After values, in ticks
  Redis,       \* whether Upstash is configured
  Faults,      \* what may fail here: "read", "incr", "expire", "set", "crash"
  MaxFaults    \* bound on the failures

RateLimiterAssumption ==
  /\ ServerOf \in [Callers -> Servers]
  /\ Capacity \in Nat \ {0} /\ Window \in Nat \ {0} /\ MaxSleep \in Nat \ {0}
  /\ MaxRounds \in Nat \ {0} /\ Penalties \subseteq Nat \ {0}
  /\ Redis \in BOOLEAN /\ MaxFaults \in Nat
  /\ Faults \subseteq {"read", "incr", "expire", "set", "crash"}

VARIABLES
  tokens,     \* bucket of each process: its tokens,
  waitLeft,   \* the ticks until its waitUntil,
  queue,      \* and the acquires chained on its promise queue
  caller,     \* [at, round, sleep] of each acquire
  counter,    \* [n, ttl] of the shared window; n = 0: no key, ttl = 0: no expiry
  penalty,    \* ticks until the shared penalty deadline; 0: no key
  granted,    \* the tokens each process handed out in the last k ticks, for k up to a window,
  issued,     \* and those of all processes, of dead ones too
  faults

bucketVars == <<tokens, waitLeft, queue>>
redisVars == <<counter, penalty>>
limiterVars == <<tokens, waitLeft, queue, caller, counter, penalty, granted, issued, faults>>

NoGrants == [k \in 0..Window |-> 0]
OneMore(given) == [k \in 0..Window |-> given[k] + 1]
Resting == [at |-> "idle", round |-> 0, sleep |-> 0]
Sleeping(c, ticks) == [at |-> "asleep", round |-> caller[c].round + 1, sleep |-> ticks]
Ceil(a, b) == (a + b - 1) \div b
Least(a, b) == IF a <= b THEN a ELSE b
Greatest(a, b) == IF a >= b THEN a ELSE b
Less(n) == IF n > 0 THEN n - 1 ELSE 0
Fails(kind) == kind \in Faults /\ faults < MaxFaults /\ faults' = faults + 1
Works == UNCHANGED faults

TypeOK ==
  /\ tokens \in [Servers -> 0..(Capacity * Window)]
  /\ waitLeft \in [Servers -> Nat]
  /\ queue \in [Servers -> Seq(Callers)]
  /\ caller \in [Callers -> [at : {"idle", "queued", "round", "incr", "expire", "asleep"},
                             round : 0..MaxRounds, sleep : Nat]]
  /\ counter \in [n : Nat, ttl : 0..Window] /\ penalty \in Nat
  /\ granted \in [Servers -> [0..Window -> Nat]] /\ issued \in [0..Window -> Nat]
  /\ faults \in 0..MaxFaults

-----------------------------------------------------------------------------
LimiterInit ==
  /\ tokens = [s \in Servers |-> Capacity * Window]
  /\ waitLeft = [s \in Servers |-> 0] /\ queue = [s \in Servers |-> <<>>]
  /\ caller = [c \in Callers |-> Resting]
  /\ counter = [n |-> 0, ttl |-> 0] /\ penalty = 0
  /\ granted = [s \in Servers |-> NoGrants] /\ issued = NoGrants /\ faults = 0

\* acquire chains on the bucket's queue, whoever holds it.
Arrive(c) ==
  LET s == ServerOf[c] IN
  /\ caller[c].at = "idle"
  /\ caller' = [caller EXCEPT ![c].at = "queued"]
  /\ queue' = [queue EXCEPT ![s] = Append(@, c)]
  /\ UNCHANGED <<tokens, waitLeft, redisVars, granted, issued, faults>>

Begin(c) ==
  /\ caller[c].at = "queued" /\ Head(queue[ServerOf[c]]) = c
  /\ caller' = [caller EXCEPT ![c].at = "round"]
  /\ UNCHANGED <<bucketVars, redisVars, granted, issued, faults>>

\* The first half of a round: the shared penalty, then the local bucket.
\* As if the shared deadline were only honoured when it is the earlier one.
RoundIgnoringPenalty(c) ==
  LET s == ServerOf[c] IN
  /\ caller[c].at = "round" /\ Works
  /\ \/ /\ waitLeft[s] > 0
        /\ caller' = [caller EXCEPT ![c] = Sleeping(c, Least(waitLeft[s], MaxSleep))]
     \/ /\ waitLeft[s] = 0 /\ tokens[s] >= Window
        /\ caller' = [caller EXCEPT ![c].at = "incr"]
     \/ /\ waitLeft[s] = 0 /\ tokens[s] < Window
        /\ caller' = [caller EXCEPT ![c] =
                        Sleeping(c, Least(Ceil(Window - tokens[s], Capacity), MaxSleep))]
  /\ UNCHANGED <<tokens, waitLeft, queue, redisVars, granted, issued>>

Round(c) ==
  LET s == ServerOf[c] IN
  /\ caller[c].at = "round"
  /\ \E shared \in {0, penalty} :
       /\ IF shared = penalty \/ ~Redis THEN Works ELSE Fails("read")
       /\ LET wait == Greatest(waitLeft[s], IF Redis THEN shared ELSE 0) IN
          /\ waitLeft' = [waitLeft EXCEPT ![s] = wait]
          /\ caller' = [caller EXCEPT ![c] =
               IF wait > 0 THEN Sleeping(c, Least(wait, MaxSleep))
               ELSE IF tokens[s] >= Window THEN [@ EXCEPT !.at = "incr"]
               ELSE Sleeping(c, Least(Ceil(Window - tokens[s], Capacity), MaxSleep))]
  /\ UNCHANGED <<tokens, queue, redisVars, granted, issued>>

\* A token is taken and the queue released.
GrantKeepingTokens(c) ==
  LET s == ServerOf[c] IN
  /\ tokens' = tokens
  /\ granted' = [granted EXCEPT ![s] = OneMore(@)] /\ issued' = OneMore(issued)
  /\ caller' = [caller EXCEPT ![c] = Resting]
  /\ queue' = [queue EXCEPT ![s] = Tail(@)]
  /\ UNCHANGED waitLeft
Grant(c) ==
  LET s == ServerOf[c] IN
  /\ tokens' = [tokens EXCEPT ![s] = @ - Window]
  /\ granted' = [granted EXCEPT ![s] = OneMore(@)] /\ issued' = OneMore(issued)
  /\ caller' = [caller EXCEPT ![c] = Resting]
  /\ queue' = [queue EXCEPT ![s] = Tail(@)]
  /\ UNCHANGED waitLeft

\* The second half: INCR of the shared window.  An error, or no Redis, leaves
\* the decision to the local bucket; the error may hide an applied INCR.
\* Counts above the capacity are alike: CountUp stops two above it.
CountUp == [counter EXCEPT !.n = Least(@ + 1, Capacity + 2)]
Passes(n) == n <= Capacity
Incr(c) ==
  /\ caller[c].at = "incr"
  /\ \/ ~Redis /\ Works /\ Grant(c) /\ UNCHANGED redisVars
     \/ /\ Redis /\ Fails("incr") /\ Grant(c) /\ UNCHANGED penalty
        /\ counter' \in {counter, CountUp}
     \/ /\ Redis /\ Works /\ UNCHANGED penalty
        /\ counter' = CountUp
        /\ \/ /\ counter.n = 0
              /\ caller' = [caller EXCEPT ![c].at = "expire"]
              /\ UNCHANGED <<bucketVars, granted, issued>>
           \/ counter.n > 0 /\ Passes(counter'.n) /\ Grant(c)
           \/ /\ counter.n > 0 /\ ~Passes(counter'.n)
              /\ caller' = [caller EXCEPT ![c] = Sleeping(c, Least(Ceil(Window, Capacity), MaxSleep))]
              /\ UNCHANGED <<bucketVars, granted, issued>>

\* The first hit of a window sets its expiry, a command of its own.
Expire(c) ==
  /\ caller[c].at = "expire" /\ Grant(c) /\ UNCHANGED penalty
  /\ \/ Works /\ counter' = [counter EXCEPT !.ttl = Window]
     \/ Fails("expire") /\ UNCHANGED counter

\* After a sleep the next round starts, if there is one left.
UnboundedWake(c) ==
  /\ caller[c].at = "asleep" /\ caller[c].sleep = 0
  /\ caller' = [caller EXCEPT ![c].at = "round", ![c].round = 0]
  /\ UNCHANGED <<bucketVars, redisVars, granted, issued, faults>>
Wake(c) ==
  /\ caller[c].at = "asleep" /\ caller[c].sleep = 0 /\ caller[c].round < MaxRounds
  /\ caller' = [caller EXCEPT ![c].at = "round"]
  /\ UNCHANGED <<bucketVars, redisVars, granted, issued, faults>>

\* The loop runs out: acquire returns and the request goes, without a token.
GiveUp(c) ==
  LET s == ServerOf[c] IN
  /\ caller[c].at = "asleep" /\ caller[c].sleep = 0 /\ caller[c].round = MaxRounds
  /\ caller' = [caller EXCEPT ![c] = Resting]
  /\ queue' = [queue EXCEPT ![s] = Tail(@)]
  /\ UNCHANGED <<tokens, waitLeft, redisVars, granted, issued, faults>>

\* penalize: a 429 of a request of process s.  The shared SET replaces the key.
Penalize(s, ms) ==
  /\ waitLeft' = [waitLeft EXCEPT ![s] = Greatest(@, ms)]
  /\ \/ Redis /\ Works /\ penalty' = ms
     \/ Redis /\ Fails("set") /\ UNCHANGED penalty
     \/ ~Redis /\ Works /\ UNCHANGED penalty
  /\ UNCHANGED <<tokens, queue, caller, counter, granted, issued>>

\* A process dies and is started again; what it held in Redis stays.
Crash(s) ==
  /\ Fails("crash")
  /\ tokens' = [tokens EXCEPT ![s] = Capacity * Window]
  /\ waitLeft' = [waitLeft EXCEPT ![s] = 0]
  /\ queue' = [queue EXCEPT ![s] = <<>>]
  /\ granted' = [granted EXCEPT ![s] = NoGrants]
  /\ caller' = [c \in Callers |-> IF ServerOf[c] = s THEN Resting ELSE caller[c]]
  /\ UNCHANGED <<redisVars, issued>>

Refilled(s) == Least(Capacity * Window, tokens[s] + Capacity)
Aged(given) == [k \in 0..Window |-> IF k = 0 THEN 0 ELSE given[k - 1]]
Tick ==
  /\ \A c \in Callers : caller[c].at \in {"idle", "queued", "asleep"}
  /\ tokens' = [s \in Servers |-> Refilled(s)]
  /\ waitLeft' = [s \in Servers |-> Less(waitLeft[s])]
  /\ caller' = [c \in Callers |-> [caller[c] EXCEPT !.sleep = Less(@)]]
  /\ counter' = IF counter.ttl = 1 THEN [n |-> 0, ttl |-> 0]
                ELSE [counter EXCEPT !.ttl = Less(@)]
  /\ penalty' = Less(penalty)
  /\ granted' = [s \in Servers |-> Aged(granted[s])] /\ issued' = Aged(issued)
  /\ UNCHANGED <<queue, faults>>

CallerStep(c) == Begin(c) \/ Round(c) \/ Incr(c) \/ Expire(c) \/ Wake(c) \/ GiveUp(c)
LimiterNext ==
  \/ \E c \in Callers : Arrive(c) \/ CallerStep(c)
  \/ \E s \in Servers : Crash(s) \/ \E ms \in Penalties : Penalize(s, ms)
  \/ Tick

LimiterSpec == LimiterInit /\ [][LimiterNext]_limiterVars
\* Promises settle, timers fire and time passes.
LiveLimiterSpec ==
  LimiterSpec /\ WF_limiterVars(Tick) /\ \A c \in Callers : WF_limiterVars(CallerStep(c))

-----------------------------------------------------------------------------
GrantsWithin(s, ticks) == granted[s][ticks]
Granting(s) == granted'[s][0] > granted[s][0]

\* However its acquires interleave, sleep and are penalized, one process hands out
\* no more tokens in any stretch of time than a full bucket and its refill.
PacedGrants ==
  \A s \in Servers : \A ticks \in 0..Window :
    GrantsWithin(s, ticks) * Window <= Capacity * Window + ticks * Capacity

\* All processes together, restarted ones too, stay within two windows' worth of tokens
\* in any window-long stretch: the counter is a fixed window, so the last calls of one
\* window and the first of the next may meet.  Whatever goes wrong is worth at most one
\* token more: an INCR that Redis refuses leaves its one grant to the process.
SharedBudget == issued[Window - 1] <= 2 * Capacity + faults

\* What the configuration says: "capacity = tokens issued per windowMs".
WithinBudget ==
  issued[Window - 1] <= Capacity

\* A round that starts during a 429 penalty, of this process or of another one,
\* never goes on to claim a token, but for a read of the shared deadline that fails.
PenaltyKeepsOff ==
  \A c \in Callers : (caller[c].at = "round" /\ caller'[c].at = "incr")
    => (waitLeft[ServerOf[c]] = 0 /\ (Redis /\ faults' = faults => penalty = 0))

\* A penalty that lands while a round waits for Redis does not stop that round's token.
\* That is the last one: no other acquire of the process is past its check then.
PenaltyLetsOneGo ==
  \A s \in Servers : (Granting(s) /\ waitLeft[s] > 0)
    => \A c \in Callers : ServerOf[c] = s => caller'[c].at \notin {"incr", "expire"}

\* What the bucket says of waitUntil: until then "all acquires must wait".
PenaltyHonoured ==
  \A s \in Servers : Granting(s) => waitLeft[s] = 0

\* What penalize says of the deadline: it "never moves backward".
PenaltyNeverBackward ==
  penalty' >= Less(penalty)

\* What acquire says: it "awaits until a token is available", and so never
\* lets a request go without one.
ReturnsWithToken ==
  \A c \in Callers : (caller[c].at # "idle" /\ caller'[c].at = "idle")
    => Granting(ServerOf[c])

\* Every acquire returns, through contention, penalties and a shared counter that
\* lost its expiry: no request holds the queue of its bucket for good.
Busy(c) == caller[c].at # "idle"
=============================================================================
