-------------------------------- MODULE Cache --------------------------------
(* What the in-memory caches promise: a key holds at most one value, the last  *)
(* one that was stored under it; a value is gone, at the latest, when it has   *)
(* been there for TTL; any value may be forgotten at any time; and a caller is *)
(* given nothing but what its key holds.                                       *)
EXTENDS Integers

CONSTANTS Keys, Values, Callers, TTL

VARIABLES held,           \* of each key: the value with the time it was stored
          given,          \* what each caller has been given from the cache
          now

cacheVars == <<held, given, now>>

Nothing == {}

CacheInit ==
    /\ held = [k \in Keys |-> {}]
    /\ given = [c \in Callers |-> Nothing]
    /\ now = 0

Young(H, t) == \A k \in Keys : \A e \in H[k] : t - e.since < TTL

\* Time passes, values are forgotten.
Forget ==
    /\ \A k \in Keys : held'[k] \subseteq held[k]
    /\ now' >= now
    /\ Young(held', now')
    /\ given' = given

\* A value is stored under a key; others may be forgotten for it.
Store(key, value) ==
    /\ held'[key] = {[value |-> value, since |-> now]}
    /\ \A k \in Keys \ {key} : held'[k] \subseteq held[k]
    /\ Young(held', now)
    /\ UNCHANGED <<now, given>>

\* A caller is given what its key holds, and is done with it.
Hit(c, key) ==
    /\ \E e \in held[key] : given' = [given EXCEPT ![c] = {[key |-> key, value |-> e.value]}]
    /\ UNCHANGED <<held, now>>
Done(c) ==
    /\ given' = [given EXCEPT ![c] = Nothing]
    /\ UNCHANGED <<held, now>>

CacheNext ==
    \/ Forget
    \/ \E key \in Keys, value \in Values : Store(key, value)
    \/ \E c \in Callers : Done(c) \/ \E key \in Keys : Hit(c, key)

CacheSpec == CacheInit /\ [][CacheNext]_cacheVars
=============================================================================
