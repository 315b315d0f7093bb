---------------------------- MODULE LoginThrottle -----------------------------
(* The throttle of failed logins of one address. Every server keeps its recent *)
(* failures and a cooldown; a shared store, when it answers, counts failures in *)
(* a fixed window and holds a cooldown of its own. A login passes the gate,     *)
(* has its password verified, and records a failure or a success.              *)
EXTENDS Naturals, Sequences, FiniteSets

CONSTANTS Servers,
          Logins,       \* concurrent logins
          MaxFailures,  \* MAX_FAILURES
          Window,       \* WINDOW_MS, in ticks
          Cooldown,     \* COOLDOWN_MS
          Shared,       \* the shared store is configured
          MaxTime, MaxLogins,
          MaxFaults     \* commands of the store that fail

\* The clock is past zero, which stands for "never".
ThrottleAssumption ==
    /\ MaxFailures \in Nat \ {0} /\ Window \in Nat \ {0} /\ Cooldown \in Nat \ {0}
    /\ Shared \in BOOLEAN

VARIABLES now,
          memory,   \* the Attempt objects of each server; the last one is in its map,
                    \* an earlier one was deleted and is held by a login
          store,    \* counter with its expiry, and cooldown, in the store
          login,    \* the logins under way
          log,      \* times of the failures
          since,    \* how many of them the last success followed
          started, faults

vars == <<now, memory, store, login, log, since, started, faults>>

NoAttempt == [failures |-> <<>>, blockedUntil |-> 0]
NoLogin == [pc |-> "idle", server |-> 0, entry |-> 0, at |-> 0, count |-> 0]
NoStore == [count |-> 0, expires |-> 0, block |-> 0]

ThrottleInit ==
    /\ now = 1
    /\ memory = [s \in Servers |-> <<NoAttempt>>]
    /\ store = NoStore
    /\ login = [l \in Logins |-> NoLogin]
    /\ log = <<>>
    /\ since = 0
    /\ started = 0
    /\ faults = 0

Fault == faults < MaxFaults /\ faults' = faults + 1
Goes(l, pc) == login' = [login EXCEPT ![l].pc = pc]
Leaves(l, pc) == login' = [login EXCEPT ![l] = [NoLogin EXCEPT !.pc = pc, !.server = login[l].server]]
Ends(l) == login' = [login EXCEPT ![l] = NoLogin]

\* The failures are in the order of time: those of the window are the last ones.
Old(x, t) == x + Window < t
Recent(times, t) ==
    LET first == CHOOSE n \in 1 .. Len(times) + 1 :
                   \A k \in 1 .. Len(times) : k < n <=> Old(times[k], t)
    IN  SubSeq(times, first, Len(times))

\* The object in the map, and the one that a login has read from it.
Newest(s) == Len(memory[s])
Attempt(l) == memory[login[l].server][login[l].entry]
Writes(l, a) == memory' = [memory EXCEPT ![login[l].server][login[l].entry] = a]

\* Time passes; the keys of the store expire.  Without a store a login waits for nothing
\* but the password's verification.
Tick ==
    /\ now < MaxTime
    /\ Shared \/ \A l \in Logins : login[l].pc \notin {"gate", "decide"}
    /\ now' = now + 1
    /\ store' = [count |-> IF store.expires # 0 /\ store.expires <= now' THEN 0 ELSE store.count,
                 expires |-> IF store.expires <= now' THEN 0 ELSE store.expires,
                 block |-> IF store.block <= now' THEN 0 ELSE store.block]
    /\ UNCHANGED <<memory, login, log, since, started, faults>>

\* The gate reads the clock and the map, asks the store for its cooldown ...
Begin(l, s) ==
    /\ login[l].pc = "idle" /\ started < MaxLogins
    /\ started' = started + 1
    /\ login' = [login EXCEPT ![l] = [pc |-> IF Shared THEN "ask" ELSE "gate", server |-> s,
                                      entry |-> Newest(s), at |-> now, count |-> 0]]
    /\ UNCHANGED <<now, memory, store, log, since, faults>>
Ask(l) ==
    /\ login[l].pc = "ask"
    /\ \/ login' = [login EXCEPT ![l].pc = "gate", ![l].count = store.block] /\ UNCHANGED faults
       \/ Fault /\ Goes(l, "gate")
    /\ UNCHANGED <<now, memory, store, log, since, started>>

GateOpen(a, t) == TRUE
Gate(a, t) == a.blockedUntil <= t
Blocked(l) == [Attempt(l) EXCEPT !.blockedUntil = IF login[l].count > @ THEN login[l].count ELSE @]

\* ... and lets the login through unless the server is in its cooldown. A
\* cooldown that is over starts the count from zero.
Pass(l) ==
    /\ login[l].pc = "gate"
    /\ LET t == login[l].at
           a == Blocked(l)
       IN  IF Gate(a, t)
           THEN /\ Writes(l, IF a.blockedUntil # 0 THEN NoAttempt
                             ELSE [a EXCEPT !.failures = Recent(@, t)])
                /\ Leaves(l, "verify")
           ELSE Writes(l, a) /\ Ends(l)
    /\ UNCHANGED <<now, store, log, since, started, faults>>

\* The password is wrong: the failure joins those of the window.
Failed(l) ==
    /\ login[l].pc = "verify"
    /\ LET s == login[l].server
           e == Newest(s)
       IN  /\ memory' = [memory EXCEPT ![s][e].failures = Append(Recent(@, now), now)]
           /\ login' = [login EXCEPT ![l] = [pc |-> IF Shared THEN "count" ELSE "decide", server |-> s,
                                             entry |-> e, at |-> now, count |-> 0]]
    /\ log' = Append(log, now)
    /\ UNCHANGED <<now, store, since, started, faults>>

\* INCR, which may be lost; the first one sets the expiry, by a command of its own, and
\* if that one fails the count is taken for unknown.
Count(l) ==
    /\ login[l].pc = "count"
    /\ \/ /\ store' = [store EXCEPT !.count = @ + 1]
          /\ login' = [login EXCEPT ![l].pc = IF store.count = 0 THEN "expire" ELSE "decide",
                                    ![l].count = store.count + 1]
          /\ UNCHANGED faults
       \/ Fault /\ Goes(l, "decide") /\ UNCHANGED store
    /\ UNCHANGED <<now, memory, log, since, started>>
Expire(l) ==
    /\ login[l].pc = "expire"
    /\ \/ /\ store' = [store EXCEPT !.expires = IF store.count = 0 THEN 0 ELSE now + Window]
          /\ Goes(l, "decide") /\ UNCHANGED faults
       \/ Fault /\ login' = [login EXCEPT ![l].pc = "decide", ![l].count = 0] /\ UNCHANGED store
    /\ UNCHANGED <<now, memory, log, since, started>>

TooMany(l) ==
    \/ login[l].count >= MaxFailures
    \/ Len(Attempt(l).failures) >= MaxFailures

\* Too many failures, here or in the store, start the cooldown.
Decide(l) ==
    /\ login[l].pc = "decide"
    /\ IF TooMany(l)
       THEN /\ Writes(l, [failures |-> <<>>, blockedUntil |-> login[l].at + Cooldown])
            /\ IF Shared THEN Goes(l, "block") ELSE Ends(l)
       ELSE Ends(l) /\ UNCHANGED memory
    /\ UNCHANGED <<now, store, log, since, started, faults>>

\* The store gets the cooldown and loses its count, each by a command that may fail, the
\* second only after the first.
Block(l) ==
    /\ login[l].pc = "block"
    /\ \/ store' = [store EXCEPT !.block = login[l].at + Cooldown] /\ Leaves(l, "uncount") /\ UNCHANGED faults
       \/ Fault /\ Ends(l) /\ UNCHANGED store
    /\ UNCHANGED <<now, memory, log, since, started>>
Uncount(l) ==
    /\ login[l].pc = "uncount"
    /\ \/ store' = [store EXCEPT !.count = 0, !.expires = 0] /\ UNCHANGED faults
       \/ Fault /\ UNCHANGED store
    /\ Ends(l)
    /\ UNCHANGED <<now, memory, log, since, started>>

\* The password is right: the object leaves the map, and stays with those who hold it ...
Holds(l, s) == login[l].server = s /\ login[l].pc \in {"ask", "gate", "count", "expire", "decide"}
Succeeded(l) ==
    /\ login[l].pc = "verify"
    /\ LET s == login[l].server
       IN  memory' = [memory EXCEPT ![s] =
                        IF \E k \in Logins : Holds(k, s) /\ login[k].entry = Newest(s)
                        THEN Append(@, NoAttempt) ELSE [@ EXCEPT ![Newest(s)] = NoAttempt]]
    /\ IF Shared THEN Leaves(l, "clear") ELSE Ends(l)
    /\ since' = Len(log)
    /\ UNCHANGED <<now, store, log, started, faults>>

\* ... and the store forgets the count and then the cooldown.
Clear(l) ==
    /\ login[l].pc = "clear"
    /\ \/ store' = [store EXCEPT !.count = 0, !.expires = 0] /\ Goes(l, "unblock") /\ UNCHANGED faults
       \/ Fault /\ Ends(l) /\ UNCHANGED store
    /\ UNCHANGED <<now, memory, log, since, started>>
Unblock(l) ==
    /\ login[l].pc = "unblock"
    /\ \/ store' = [store EXCEPT !.block = 0] /\ UNCHANGED faults
       \/ Fault /\ UNCHANGED store
    /\ Ends(l)
    /\ UNCHANGED <<now, memory, log, since, started>>

LoginStep(l) ==
    \/ Ask(l) \/ Pass(l) \/ Failed(l) \/ Count(l) \/ Expire(l) \/ Decide(l) \/ Block(l) \/ Uncount(l)
    \/ Succeeded(l) \/ Clear(l) \/ Unblock(l)

ThrottleNext ==
    \/ Tick
    \/ \E l \in Logins : LoginStep(l) \/ \E s \in Servers : Begin(l, s)

ThrottleSpec == ThrottleInit /\ [][ThrottleNext]_vars

-----------------------------------------------------------------------------
(* Properties.                                                               *)

Stages == {"idle", "ask", "gate", "verify", "count", "expire", "decide", "block", "uncount",
           "clear", "unblock"}

\* Types of every variable.
TypeOK ==
    /\ \A s \in Servers : \A e \in DOMAIN memory[s] :
          /\ memory[s][e].blockedUntil \in 0..MaxTime + Cooldown
          /\ Len(memory[s][e].failures) <= MaxFailures + Cardinality(Logins) - 1
    /\ store \in [count : 0..MaxLogins, expires : 0..MaxTime + Window,
                  block : 0..MaxTime + Cooldown]
    /\ \A l \in Logins : login[l].pc \in Stages

\* The failures of the window that begins at t, since the last success.
Within(t) == {k \in since + 1..Len(log) : log[k] \in t..t + Window - 1}

\* A window that slides holds no more failures than the limit and, twice, those of the
\* other logins that were past the gate when the cooldown began, until a success (the
\* head of login-ratelimit.ts, of one login at a time: "failures tolerated inside one
\* sliding window").
WindowBounded ==
    \A t \in 1..now : Cardinality(Within(t)) <= MaxFailures + 2 * (Cardinality(Logins) - 1)

\* Nobody is locked out for good: a login that comes a cooldown after the last
\* failure passes the gate.
LateLoginPasses ==
    \A l \in Logins :
      /\ login[l].pc = "gate"
      /\ \A k \in DOMAIN log : log[k] + Cooldown <= login[l].at
      => Gate(Blocked(l), login[l].at)

\* Fewer than MaxFailures failures since the last success lock nobody out: what a login
\* that failed before it still writes goes to the object that left the map.
SuccessClears ==
    \A s \in Servers : memory[s][Newest(s)].blockedUntil > now => Len(log) - since >= MaxFailures
=============================================================================
