------------------------------- MODULE LruCache -------------------------------
(* The in-memory cache of lib/cache/lru.ts, and the calls that use it: look    *)
(* up, ask the service behind it on a miss, store the answer. Calls overlap;   *)
(* the answer of the service may change while they do.                         *)
EXTENDS Integers, Sequences

CONSTANTS Keys,
          Callers,
          Versions,       \* the versions that the service's answer goes through: 0..n
          Max,            \* entries that are kept
          TTL,            \* how long
          MaxNow, MaxLookups

ASSUME LruAssumption ==
    /\ Max \in Nat /\ Max >= 1
    /\ TTL \in Nat /\ TTL >= 1
    /\ Versions \subseteq Nat /\ 0 \in Versions

VARIABLES store,          \* the entries, the one used longest ago first
          now,
          truth,          \* the present answer of the service for each key
          call,           \* what each caller is at
          lookups

vars == <<store, now, truth, call, lookups>>

NoCall == [at |-> "idle", key |-> "none", value |-> 0]

LruInit ==
    /\ store = <<>>
    /\ now = 0
    /\ truth = [k \in Keys |-> 0]
    /\ call = [c \in Callers |-> NoCall]
    /\ lookups = 0

-----------------------------------------------------------------------------
Has(s, key) == \E i \in DOMAIN s : s[i].key = key
At(s, key) == CHOOSE i \in DOMAIN s : s[i].key = key
Without(s, i) == SubSeq(s, 1, i - 1) \o SubSeq(s, i + 1, Len(s))
Removed(s, key) == IF Has(s, key) THEN Without(s, At(s, key)) ELSE s

\* An entry that is read moves to the end; its time does not change. One that has
\* expired is dropped.
Live(s, key) == Has(s, key) /\ s[At(s, key)].expires > now
AfterGetExtended(key) ==
    IF Live(store, key)
    THEN Append(Removed(store, key), [store[At(store, key)] EXCEPT !.expires = now + TTL])
    ELSE Removed(store, key)
AfterGet(key) ==
    IF Live(store, key) THEN Append(Removed(store, key), store[At(store, key)]) ELSE Removed(store, key)

Trimmed(s) == IF Len(s) > Max THEN Tail(s) ELSE s
AfterSet(key, value) ==
    Trimmed(Append(Removed(store, key), [key |-> key, value |-> value, expires |-> now + TTL]))

-----------------------------------------------------------------------------
\* A call: the look-up, with its answer at once if the entry is there.
Lookup(c, key) ==
    /\ call[c].at = "idle" /\ lookups < MaxLookups
    /\ store' = AfterGet(key)
    /\ call' = [call EXCEPT ![c] =
                   IF Live(store, key)
                   THEN [at |-> "hit", key |-> key, value |-> store[At(store, key)].value]
                   ELSE [at |-> "asking", key |-> key, value |-> 0]]
    /\ lookups' = lookups + 1
    /\ UNCHANGED <<now, truth>>

\* The service reads its answer ...
ReadAnswer(c) ==
    /\ call[c].at = "asking"
    /\ call' = [call EXCEPT ![c] = [at |-> "answered", key |-> call[c].key, value |-> truth[call[c].key]]]
    /\ UNCHANGED <<store, now, truth, lookups>>

\* ... which arrives, is stored and is given to the caller; or the call fails.
Land(c) ==
    /\ call[c].at = "answered"
    /\ store' = AfterSet(call[c].key, call[c].value)
    /\ call' = [call EXCEPT ![c] = [at |-> "fetched", key |-> call[c].key, value |-> call[c].value]]
    /\ UNCHANGED <<now, truth, lookups>>
Fail(c) ==
    /\ call[c].at \in {"asking", "answered"}
    /\ call' = [call EXCEPT ![c] = NoCall]
    /\ UNCHANGED <<store, now, truth, lookups>>
Done(c) ==
    /\ call[c].at \in {"hit", "fetched"}
    /\ call' = [call EXCEPT ![c] = NoCall]
    /\ UNCHANGED <<store, now, truth, lookups>>

Change(key) ==
    /\ truth[key] + 1 \in Versions
    /\ truth' = [truth EXCEPT ![key] = truth[key] + 1]
    /\ UNCHANGED <<store, now, call, lookups>>
Tick ==
    /\ now < MaxNow /\ now' = now + 1
    /\ UNCHANGED <<store, truth, call, lookups>>

LruNext ==
    \/ \E c \in Callers : ReadAnswer(c) \/ Land(c) \/ Fail(c) \/ Done(c)
    \/ \E c \in Callers, key \in Keys : Lookup(c, key)
    \/ \E key \in Keys : Change(key)
    \/ Tick

LruSpec == LruInit /\ [][LruNext]_vars

-----------------------------------------------------------------------------
\* Types of the variables.
TypeOK ==
    /\ store \in Seq([key : Keys, value : Versions, expires : Int])
    /\ now \in Nat
    /\ truth \in [Keys -> Versions]
    /\ call \in [Callers -> [at : {"idle", "hit", "asking", "answered", "fetched"},
                             key : Keys \cup {"none"}, value : Nat]]
    /\ \A c \in Callers : call[c].at # "idle" => call[c].key \in Keys
    /\ \A c \in Callers : call[c].at \in {"answered", "hit", "fetched"} => call[c].value \in Versions

\* No more than Max entries are kept, whatever calls overlap.
Bounded == Len(store) <= Max

\* A key has one entry.
Distinct == \A i, j \in DOMAIN store : store[i].key = store[j].key => i = j

\* The cache keeps what Cache promises.
Held == [k \in Keys |->
           {[value |-> store[i].value, since |-> store[i].expires - TTL] :
               i \in {i \in DOMAIN store : store[i].key = k /\ store[i].expires > now}}]
Given == [c \in Callers |->
            IF call[c].at = "hit" THEN {[key |-> call[c].key, value |-> call[c].value]} ELSE {}]
Promise == INSTANCE Cache WITH Values <- Versions, held <- Held, given <- Given
Refines == Promise!CacheSpec
=============================================================================
