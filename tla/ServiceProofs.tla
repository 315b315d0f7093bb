----------------------------- MODULE ServiceProofs -----------------------------
(* What the server keeps in a process about the services it calls and about the *)
(* people who log in.  The LRU cache never holds more than Max entries nor a key *)
(* twice, and keeps what Cache promises, for any keys, callers, versions, Max    *)
(* and TTL.  The token cache never hands out a refresh that has settled, its     *)
(* requests end within their budgets, and without Redis none sends a rejected    *)
(* token again, for any processes, requests, budgets and faults.  The throttle   *)
(* of failed logins locks nobody out for good, whatever its store does; in one   *)
(* process it locks nobody out for fewer failures than its limit and keeps every *)
(* sliding window within it, for any limit, window and cooldown.  A process of   *)
(* the rate limiter hands out no more than a bucket and its refill, and its      *)
(* rounds wait for a penalty, for any processes, acquires, capacity and faults.  *)
(* Of a candidate: nobody is given what another CV says or pays twice for one at *)
(* a time, and the jobs of a match run are stored once, for any texts, requests, *)
(* executions, pages, crashes and overruns.                                      *)
EXTENDS LruCache, TokenCache, FiniteSetTheorems, WellFoundedInduction, TLAPS

(***************************************************************************)
(* The LRU cache (lib/cache/lru.ts).                                       *)
(***************************************************************************)

Entry == [key : Keys, value : Versions, expires : Int]

\* The inductive invariant of the cache.
IInv == TypeOK /\ Bounded /\ Distinct

-----------------------------------------------------------------------------
(* Sequences *)

\* A sequence without its i-th element.
LEMMA WithoutFacts ==
    ASSUME NEW R, NEW s \in Seq(R), NEW i \in DOMAIN s
    PROVE  /\ Without(s, i) \in Seq(R)
           /\ Len(Without(s, i)) = Len(s) - 1
           /\ \A j \in 1 .. Len(s) - 1 : Without(s, i)[j] = IF j < i THEN s[j] ELSE s[j + 1]
<1>1. i \in 1 .. Len(s) /\ Len(s) \in Nat
    OBVIOUS
<1>2. SubSeq(s, 1, i - 1) \in Seq(R) /\ Len(SubSeq(s, 1, i - 1)) = i - 1
      /\ \A j \in 1 .. i - 1 : SubSeq(s, 1, i - 1)[j] = s[j]
    BY <1>1
<1>3. SubSeq(s, i + 1, Len(s)) \in Seq(R) /\ Len(SubSeq(s, i + 1, Len(s))) = Len(s) - i
      /\ \A j \in 1 .. Len(s) - i : SubSeq(s, i + 1, Len(s))[j] = s[i + j]
    BY <1>1
<1> DEFINE f == SubSeq(s, 1, i - 1)
           g == SubSeq(s, i + 1, Len(s))
<1> HIDE DEF f, g
<1>4. f \in Seq(R) /\ g \in Seq(R) /\ Len(f) = i - 1 /\ Len(g) = Len(s) - i /\ Without(s, i) = f \o g
    BY <1>2, <1>3 DEF Without, f, g
<1>5. f \o g \in Seq(R) /\ Len(f \o g) = Len(s) - 1
    BY <1>1, <1>4
<1>6. \A j \in 1 .. Len(s) - 1 : (f \o g)[j] = IF j <= i - 1 THEN f[j] ELSE g[j - (i - 1)]
    BY <1>1, <1>4
<1>7. \A j \in 1 .. i - 1 : f[j] = s[j]
    BY <1>2 DEF f
<1>8. \A j \in 1 .. Len(s) - i : g[j] = s[i + j]
    BY <1>3 DEF g
<1>9. ASSUME NEW j \in 1 .. Len(s) - 1
      PROVE  (f \o g)[j] = IF j < i THEN s[j] ELSE s[j + 1]
  <2> DEFINE h == f \o g
  <2> HIDE DEF h
  <2>0. h[j] = IF j <= i - 1 THEN f[j] ELSE g[j - (i - 1)]
      BY <1>6 DEF h
  <2>1. CASE j < i
    <3>1. j <= i - 1 /\ j \in 1 .. i - 1
        BY <2>1, <1>1
    <3>2. h[j] = f[j] /\ f[j] = s[j]
        BY <3>1, <2>0, <1>7
    <3>3. QED
        BY <3>2, <2>1 DEF h
  <2>2. CASE ~(j < i)
    <3>1. j - (i - 1) \in 1 .. Len(s) - i /\ i + (j - (i - 1)) = j + 1 /\ ~(j <= i - 1)
        BY <2>2, <1>1
    <3>2. h[j] = g[j - (i - 1)] /\ g[j - (i - 1)] = s[i + (j - (i - 1))]
        BY <3>1, <2>0, <1>8
    <3>3. h[j] = s[j + 1]
        BY <3>1, <3>2
    <3>4. QED
        BY <3>3, <2>2 DEF h
  <2>3. QED
      BY <2>1, <2>2
<1>10. QED
    BY <1>4, <1>5, <1>9

\* Without any entry of a key: nothing else is lost, and nothing is gained.
LEMMA RemovedFacts ==
    ASSUME NEW s \in Seq(Entry), NEW key,
           \A i, j \in DOMAIN s : s[i].key = s[j].key => i = j
    PROVE  /\ Removed(s, key) \in Seq(Entry)
           /\ Len(Removed(s, key)) = IF Has(s, key) THEN Len(s) - 1 ELSE Len(s)
           /\ \A j \in DOMAIN Removed(s, key) :
                \E i \in DOMAIN s : s[i] = Removed(s, key)[j] /\ s[i].key # key
           /\ \A i, j \in DOMAIN Removed(s, key) : Removed(s, key)[i].key = Removed(s, key)[j].key => i = j
           /\ \A i \in DOMAIN s : s[i].key # key => \E j \in DOMAIN Removed(s, key) : Removed(s, key)[j] = s[i]
<1>1. CASE ~Has(s, key)
    BY <1>1 DEF Removed, Has
<1>2. CASE Has(s, key)
  <2> DEFINE a == At(s, key)
             r == Removed(s, key)
  <2>1. a \in DOMAIN s /\ s[a].key = key
    BY <1>2 DEF At, Has
  <2>2. /\ r = Without(s, a)
        /\ r \in Seq(Entry) /\ Len(r) = Len(s) - 1
        /\ \A j \in 1 .. Len(s) - 1 : r[j] = IF j < a THEN s[j] ELSE s[j + 1]
    BY <1>2, <2>1, WithoutFacts DEF Removed
  <2> HIDE DEF a, r
  <2>3. a \in 1 .. Len(s) /\ Len(s) \in Nat /\ DOMAIN s = 1 .. Len(s) /\ DOMAIN r = 1 .. Len(s) - 1
    BY <2>1, <2>2
  <2>4. \A j \in DOMAIN r : \E i \in DOMAIN s : s[i] = r[j] /\ s[i].key # key
    <3> SUFFICES ASSUME NEW j \in DOMAIN r
                 PROVE  \E i \in DOMAIN s : s[i] = r[j] /\ s[i].key # key
        OBVIOUS
    <3>1. CASE j < a
        BY <3>1, <2>1, <2>2, <2>3
    <3>2. CASE ~(j < a)
        <4>1. j + 1 \in DOMAIN s /\ j + 1 # a /\ r[j] = s[j + 1]
            BY <3>2, <2>2, <2>3
        <4>2. QED
            BY <4>1, <2>1
    <3>3. QED
        BY <3>1, <3>2
  <2>5. \A i, j \in DOMAIN r : r[i].key = r[j].key => i = j
    <3> SUFFICES ASSUME NEW i \in DOMAIN r, NEW j \in DOMAIN r, r[i].key = r[j].key
                 PROVE  i = j
        OBVIOUS
    <3> DEFINE p(n) == IF n < a THEN n ELSE n + 1
    <3>1. p(i) \in DOMAIN s /\ p(j) \in DOMAIN s /\ r[i] = s[p(i)] /\ r[j] = s[p(j)]
        BY <2>2, <2>3
    <3>2. p(i) = p(j)
        BY <3>1
    <3>3. QED
        BY <3>2, <2>3
  <2>6. \A i \in DOMAIN s : s[i].key # key => \E j \in DOMAIN r : r[j] = s[i]
    <3> SUFFICES ASSUME NEW i \in DOMAIN s, s[i].key # key
                 PROVE  \E j \in DOMAIN r : r[j] = s[i]
        OBVIOUS
    <3>1. i # a
        BY <2>1
    <3>2. CASE i < a
        <4>1. i \in 1 .. Len(s) - 1 /\ r[i] = s[i]
            BY <3>2, <2>2, <2>3
        <4>2. QED
            BY <4>1, <2>3
    <3>3. CASE i > a
        <4>1. i - 1 \in DOMAIN r /\ ~(i - 1 < a) /\ (i - 1) + 1 = i
            BY <3>3, <2>3
        <4>2. QED
            BY <4>1, <2>2, <2>3
    <3>4. QED
        BY <3>1, <3>2, <3>3, <2>3
  <2>7. QED
    BY <1>2, <2>2, <2>4, <2>5, <2>6 DEF r
<1>3. QED
    BY <1>1, <1>2
-----------------------------------------------------------------------------
OneEach(s) == \A i, j \in DOMAIN s : s[i].key = s[j].key => i = j

\* An entry of a new key at the end.
LEMMA AppendFacts ==
    ASSUME NEW s \in Seq(Entry), NEW e \in Entry, OneEach(s), \A j \in DOMAIN s : s[j].key # e.key
    PROVE  /\ Append(s, e) \in Seq(Entry) /\ Len(Append(s, e)) = Len(s) + 1
           /\ OneEach(Append(s, e))
<1> DEFINE r == Append(s, e)
<1>1. /\ r \in Seq(Entry) /\ Len(r) = Len(s) + 1 /\ Len(s) \in Nat
      /\ DOMAIN s = 1 .. Len(s) /\ DOMAIN r = 1 .. Len(s) + 1
      /\ r[Len(s) + 1] = e /\ \A j \in 1 .. Len(s) : r[j] = s[j]
    OBVIOUS
<1> HIDE DEF r
<1>2. ASSUME NEW i \in DOMAIN r, NEW j \in DOMAIN r, r[i].key = r[j].key
      PROVE  i = j
  <2>1. CASE i \in DOMAIN s /\ j \in DOMAIN s
      BY <1>1, <1>2, <2>1 DEF OneEach
  <2>2. CASE i = Len(s) + 1 /\ j \in DOMAIN s
      BY <1>1, <1>2, <2>2
  <2>3. CASE i \in DOMAIN s /\ j = Len(s) + 1
      BY <1>1, <1>2, <2>3
  <2>4. CASE i = Len(s) + 1 /\ j = Len(s) + 1
      BY <2>4
  <2>5. QED
      BY <1>1, <2>1, <2>2, <2>3, <2>4
<1>3. QED
    BY <1>1, <1>2 DEF OneEach, r

\* The first entry goes.
LEMMA TailFacts ==
    ASSUME NEW s \in Seq(Entry), s # <<>>, OneEach(s)
    PROVE  /\ Tail(s) \in Seq(Entry) /\ Len(Tail(s)) = Len(s) - 1
           /\ OneEach(Tail(s))
           /\ \A j \in DOMAIN Tail(s) : j + 1 \in DOMAIN s /\ Tail(s)[j] = s[j + 1]
<1> DEFINE r == Tail(s)
<1>1. /\ r \in Seq(Entry) /\ Len(r) = Len(s) - 1 /\ Len(s) \in Nat /\ Len(s) >= 1
      /\ DOMAIN s = 1 .. Len(s) /\ DOMAIN r = 1 .. Len(s) - 1
      /\ \A j \in 1 .. Len(s) - 1 : r[j] = s[j + 1]
    OBVIOUS
<1> HIDE DEF r
<1>2. \A j \in DOMAIN r : j + 1 \in DOMAIN s /\ r[j] = s[j + 1]
    BY <1>1
<1>3. OneEach(r)
  <2> SUFFICES ASSUME NEW i \in DOMAIN r, NEW j \in DOMAIN r, r[i].key = r[j].key
               PROVE  i = j
      BY DEF OneEach
  <2>1. i + 1 = j + 1
      BY <1>2 DEF OneEach
  <2>2. QED
      BY <2>1, <1>1
<1>4. QED
    BY <1>1, <1>2, <1>3 DEF r

-----------------------------------------------------------------------------
(* The two operations *)

\* Reading keeps the cache bounded and its keys distinct.
LEMMA AfterGetFacts ==
    ASSUME IInv, NEW key \in Keys
    PROVE  AfterGet(key) \in Seq(Entry) /\ Len(AfterGet(key)) <= Max /\ OneEach(AfterGet(key))
<1> DEFINE r == Removed(store, key)
           e == store[At(store, key)]
<1>1. store \in Seq(Entry) /\ Len(store) <= Max /\ OneEach(store)
    BY DEF IInv, TypeOK, Bounded, Distinct, OneEach, Entry
<1>2. /\ r \in Seq(Entry) /\ OneEach(r)
      /\ Len(r) = IF Has(store, key) THEN Len(store) - 1 ELSE Len(store)
      /\ \A j \in DOMAIN r : r[j].key # key
    <2>1. \A i, j \in DOMAIN store : store[i].key = store[j].key => i = j
        BY <1>1 DEF OneEach
    <2>2. QED
        BY <1>1, <2>1, RemovedFacts DEF OneEach
<1>3. Max \in Nat /\ Len(store) \in Nat
    BY <1>1, LruAssumption
<1> HIDE DEF r, e
<1>4. CASE Live(store, key)
  <2>1. Has(store, key) /\ e \in Entry /\ e.key = key
      BY <1>1, <1>4 DEF Live, Has, At, e
  <2>2. Append(r, e) \in Seq(Entry) /\ Len(Append(r, e)) = Len(r) + 1 /\ OneEach(Append(r, e))
      BY <1>2, <2>1, AppendFacts
  <2>3. AfterGet(key) = Append(r, e)
      BY <1>4 DEF AfterGet, r, e
  <2>4. QED
      BY <1>1, <1>2, <1>3, <2>1, <2>2, <2>3
<1>5. CASE ~Live(store, key)
  <2>1. AfterGet(key) = r
      BY <1>5 DEF AfterGet, r
  <2>2. QED
      BY <1>1, <1>2, <1>3, <2>1
<1>6. QED
    BY <1>4, <1>5

\* So does storing.
LEMMA AfterSetFacts ==
    ASSUME IInv, NEW key \in Keys, NEW value \in Versions
    PROVE  AfterSet(key, value) \in Seq(Entry) /\ Len(AfterSet(key, value)) <= Max /\ OneEach(AfterSet(key, value))
<1> DEFINE r == Removed(store, key)
           e == [key |-> key, value |-> value, expires |-> now + TTL]
           t == Append(r, e)
<1>1. store \in Seq(Entry) /\ Len(store) <= Max /\ OneEach(store) /\ now \in Nat
    BY DEF IInv, TypeOK, Bounded, Distinct, OneEach, Entry
<1>2. /\ r \in Seq(Entry) /\ OneEach(r)
      /\ Len(r) = IF Has(store, key) THEN Len(store) - 1 ELSE Len(store)
      /\ \A j \in DOMAIN r : r[j].key # key
    <2>1. \A i, j \in DOMAIN store : store[i].key = store[j].key => i = j
        BY <1>1 DEF OneEach
    <2>2. CASE Has(store, key)
        BY <1>1, <2>1, <2>2, RemovedFacts DEF OneEach
    <2>3. CASE ~Has(store, key)
        BY <1>1, <2>1, <2>3, RemovedFacts DEF OneEach
    <2>4. QED
        BY <2>2, <2>3
<1>3. Max \in Nat /\ Len(store) \in Nat /\ Len(r) \in Nat /\ Max >= 1
    BY <1>1, <1>2, LruAssumption
<1>4. e \in Entry /\ e.key = key
    BY <1>1, LruAssumption DEF Entry
<1> HIDE DEF r, e
<1>5. t \in Seq(Entry) /\ Len(t) = Len(r) + 1 /\ OneEach(t) /\ Len(r) <= Len(store)
    BY <1>2, <1>3, <1>4, AppendFacts
<1>6. AfterSet(key, value) = Trimmed(t)
    BY DEF AfterSet, r, e
<1> HIDE DEF t
<1>7. CASE Len(t) > Max
  <2>1. t # <<>>
      BY <1>3, <1>5
  <2>2. Tail(t) \in Seq(Entry) /\ Len(Tail(t)) = Len(t) - 1 /\ OneEach(Tail(t))
      BY <1>5, <2>1, TailFacts
  <2>3. QED
      BY <1>1, <1>3, <1>5, <1>6, <1>7, <2>2 DEF Trimmed
<1>8. CASE ~(Len(t) > Max)
    BY <1>3, <1>5, <1>6, <1>8 DEF Trimmed
<1>9. QED
    BY <1>7, <1>8
-----------------------------------------------------------------------------
(* The invariant *)

LEMMA EntryTyped == IInv => \A i \in DOMAIN store : store[i] \in Entry
<1>1. IInv => store \in Seq(Entry)
    BY DEF IInv, TypeOK, Entry
<1>2. QED
    BY <1>1

LEMMA InitHolds == LruInit => IInv
<1> SUFFICES ASSUME LruInit PROVE IInv
    OBVIOUS
<1>1. store = <<>> /\ Len(store) = 0 /\ DOMAIN store = {}
    BY DEF LruInit
<1>2. TypeOK
    BY <1>1, LruAssumption DEF LruInit, TypeOK, NoCall
<1>3. Bounded /\ Distinct
    BY <1>1, LruAssumption DEF Bounded, Distinct
<1>4. QED
    BY <1>2, <1>3 DEF IInv

LEMMA StepHolds == IInv /\ [LruNext]_vars => IInv'
<1> SUFFICES ASSUME IInv, [LruNext]_vars PROVE IInv'
    OBVIOUS
<1>1. ASSUME NEW c \in Callers, NEW key \in Keys, Lookup(c, key)
      PROVE  IInv'
  <2>1. store' \in Seq(Entry) /\ Len(store') <= Max /\ OneEach(store')
      BY <1>1, AfterGetFacts DEF Lookup
  <2>2. ASSUME Live(store, key) PROVE store[At(store, key)].value \in Versions
    <3>1. At(store, key) \in DOMAIN store
        BY <2>2 DEF Live, Has, At
    <3>2. store[At(store, key)] \in Entry
        BY <3>1, EntryTyped
    <3>3. QED
        BY <3>2 DEF Entry
  <2>3. TypeOK'
      BY <1>1, <2>1, <2>2, LruAssumption DEF Lookup, IInv, TypeOK, Entry
  <2>4. QED
      BY <2>1, <2>3 DEF IInv, Bounded, Distinct, OneEach
<1>2. ASSUME NEW c \in Callers, Land(c)
      PROVE  IInv'
  <2>1. call[c].key \in Keys /\ call[c].value \in Versions
      BY <1>2 DEF Land, IInv, TypeOK
  <2>2. store' \in Seq(Entry) /\ Len(store') <= Max /\ OneEach(store')
      BY <1>2, <2>1, AfterSetFacts DEF Land
  <2>3. TypeOK'
      BY <1>2, <2>1, <2>2, LruAssumption DEF Land, IInv, TypeOK, Entry
  <2>4. QED
      BY <2>2, <2>3 DEF IInv, Bounded, Distinct, OneEach
<1>3. ASSUME UNCHANGED store, TypeOK'
      PROVE  IInv'
    BY <1>3 DEF IInv, Bounded, Distinct
<1>4. ASSUME NEW c \in Callers, ReadAnswer(c) \/ Fail(c) \/ Done(c)
      PROVE  IInv'
  <2>1. UNCHANGED store /\ UNCHANGED <<now, truth>>
      BY <1>4 DEF ReadAnswer, Fail, Done
  <2>2. TypeOK'
    <3>1. CASE ReadAnswer(c)
        BY <3>1, LruAssumption DEF ReadAnswer, IInv, TypeOK
    <3>2. CASE Fail(c) \/ Done(c)
      <4>1. call' = [call EXCEPT ![c] = NoCall]
          BY <3>2 DEF Fail, Done
      <4>2. NoCall \in [at : {"idle", "hit", "asking", "answered", "fetched"}, key : Keys \cup {"none"}, value : Nat]
          BY DEF NoCall
      <4>3. call' \in [Callers -> [at : {"idle", "hit", "asking", "answered", "fetched"},
                                    key : Keys \cup {"none"}, value : Nat]]
          BY <4>1, <4>2 DEF IInv, TypeOK
      <4>4. \A d \in Callers : call'[d] = IF d = c THEN NoCall ELSE call[d]
          BY <4>1 DEF IInv, TypeOK
      <4>5. NoCall.at = "idle"
          BY DEF NoCall
      <4>6. QED
          BY <4>3, <4>4, <4>5, <2>1 DEF IInv, TypeOK
    <3>3. QED
        BY <1>4, <3>1, <3>2
  <2>3. QED
      BY <2>1, <2>2, <1>3
<1>5. ASSUME NEW key \in Keys, Change(key)
      PROVE  IInv'
    BY <1>3, <1>5 DEF Change, IInv, TypeOK
<1>6. CASE Tick
    BY <1>3, <1>6 DEF Tick, IInv, TypeOK
<1>7. CASE UNCHANGED vars
    BY <1>3, <1>7 DEF vars, IInv, TypeOK
<1>8. QED
    BY <1>1, <1>2, <1>4, <1>5, <1>6, <1>7 DEF LruNext

LEMMA Invariant == LruSpec => []IInv
    BY InitHolds, StepHolds, PTL DEF LruSpec

\* Every variable keeps its type.
THEOREM TypeCorrect == LruSpec => []TypeOK
    BY Invariant, PTL DEF IInv

\* The cache never holds more than Max entries, however its calls overlap.
THEOREM BoundedAlways == LruSpec => []Bounded
    BY Invariant, PTL DEF IInv

\* No key ever has two entries, however its calls overlap.
THEOREM DistinctAlways == LruSpec => []Distinct
    BY Invariant, PTL DEF IInv

-----------------------------------------------------------------------------
(* The promise *)

Seen(e) == [value |-> e.value, since |-> e.expires - TTL]

\* What a key holds, by the entries.
LEMMA HeldFacts ==
    ASSUME NEW k \in Keys, NEW v
    PROVE  v \in Held[k] <=> \E i \in DOMAIN store : store[i].key = k /\ store[i].expires > now /\ v = Seen(store[i])
    BY DEF Held, Seen

LEMMA HeldNext ==
    ASSUME NEW k \in Keys, NEW v
    PROVE  v \in Held'[k] <=> \E i \in DOMAIN store' : store'[i].key = k /\ store'[i].expires > now' /\ v = Seen(store'[i])
    BY DEF Held, Seen

\* Whatever a key holds is younger than TTL.
LEMMA AllYoung == IInv => Promise!Young(Held, now)
<1> SUFFICES ASSUME IInv, NEW k \in Keys, NEW e \in Held[k] PROVE now - e.since < TTL
    BY DEF Promise!Young
<1>1. PICK i \in DOMAIN store : store[i].key = k /\ store[i].expires > now /\ e = Seen(store[i])
    BY HeldFacts
<1>2. store[i] \in Entry
    BY EntryTyped
<1>3. store[i].expires \in Int /\ now \in Nat /\ TTL \in Nat
    BY <1>2, LruAssumption DEF IInv, TypeOK, Entry
<1>4. QED
    BY <1>1, <1>3 DEF Seen

\* Both have the same live entries of a key: it holds the same.
LEMMA SameHeld ==
    ASSUME NEW k \in Keys,
           \A i \in DOMAIN store : store[i].key = k /\ store[i].expires > now =>
               \E j \in DOMAIN store' : store'[j] = store[i],
           \A j \in DOMAIN store' : store'[j].key = k => \E i \in DOMAIN store : store[i] = store'[j],
           now' = now
    PROVE  Held'[k] = Held[k]
<1>1. ASSUME NEW v \in Held[k] PROVE v \in Held'[k]
  <2>1. PICK i \in DOMAIN store : store[i].key = k /\ store[i].expires > now /\ v = Seen(store[i])
      BY HeldFacts
  <2>2. PICK j \in DOMAIN store' : store'[j] = store[i]
      BY <2>1
  <2>3. QED
      BY <2>1, <2>2, HeldNext
<1>2. ASSUME NEW v \in Held'[k] PROVE v \in Held[k]
  <2>1. PICK j \in DOMAIN store' : store'[j].key = k /\ store'[j].expires > now' /\ v = Seen(store'[j])
      BY HeldNext
  <2>2. PICK i \in DOMAIN store : store[i] = store'[j]
      BY <2>1
  <2>3. QED
      BY <2>1, <2>2, HeldFacts
<1>3. QED
    BY <1>1, <1>2

\* The entries of the store after a look-up: those that were there, without an
\* expired one of the key.
LEMMA LookupEntries ==
    ASSUME IInv, NEW key \in Keys
    PROVE  /\ \A j \in DOMAIN AfterGet(key) : \E i \in DOMAIN store : store[i] = AfterGet(key)[j]
           /\ \A i \in DOMAIN store : store[i].expires > now =>
                 \E j \in DOMAIN AfterGet(key) : AfterGet(key)[j] = store[i]
<1> DEFINE r == Removed(store, key)
           a == At(store, key)
<1>1. store \in Seq(Entry) /\ \A i, j \in DOMAIN store : store[i].key = store[j].key => i = j
    BY DEF IInv, TypeOK, Distinct, Entry
<1>2. /\ r \in Seq(Entry)
      /\ \A j \in DOMAIN r : \E i \in DOMAIN store : store[i] = r[j]
      /\ \A i \in DOMAIN store : store[i].key # key => \E j \in DOMAIN r : r[j] = store[i]
    BY <1>1, RemovedFacts
<1>3. Has(store, key) => a \in DOMAIN store /\ store[a].key = key
    BY DEF Has, At
<1>4. \A i \in DOMAIN store : store[i].key = key => Has(store, key) /\ i = a
    BY <1>1, <1>3 DEF Has
<1> HIDE DEF r, a
<1>5. CASE Live(store, key)
  <2>1. AfterGet(key) = Append(r, store[a]) /\ Has(store, key)
      BY <1>5 DEF AfterGet, Live, r, a
  <2>2. /\ DOMAIN r = 1 .. Len(r) /\ DOMAIN Append(r, store[a]) = 1 .. Len(r) + 1 /\ Len(r) \in Nat
        /\ Append(r, store[a])[Len(r) + 1] = store[a]
        /\ \A j \in 1 .. Len(r) : Append(r, store[a])[j] = r[j]
      BY <1>2
  <2>3. \A j \in DOMAIN AfterGet(key) : j \in DOMAIN r \/ j = Len(r) + 1
      BY <2>1, <2>2
  <2>4. \A j \in DOMAIN r : j \in DOMAIN AfterGet(key) /\ AfterGet(key)[j] = r[j]
      BY <2>1, <2>2
  <2>5. Len(r) + 1 \in DOMAIN AfterGet(key) /\ AfterGet(key)[Len(r) + 1] = store[a]
      BY <2>1, <2>2
  <2>6. \A j \in DOMAIN AfterGet(key) : \E i \in DOMAIN store : store[i] = AfterGet(key)[j]
      BY <1>2, <1>3, <2>1, <2>3, <2>4, <2>5
  <2>7. ASSUME NEW i \in DOMAIN store PROVE \E j \in DOMAIN AfterGet(key) : AfterGet(key)[j] = store[i]
    <3>1. CASE store[i].key = key
        BY <3>1, <1>4, <2>5
    <3>2. CASE store[i].key # key
        BY <3>2, <1>2, <2>4
    <3>3. QED
        BY <3>1, <3>2
  <2>8. QED
      BY <2>6, <2>7
<1>6. CASE ~Live(store, key)
  <2>1. AfterGet(key) = r
      BY <1>6 DEF AfterGet, r
  <2>2. \A i \in DOMAIN store : store[i].expires > now => store[i].key # key
      BY <1>4, <1>6 DEF Live, a
  <2>3. QED
      BY <1>2, <2>1, <2>2
<1>7. QED
    BY <1>5, <1>6

\* The entries after a value is stored: the new one, and none but the old ones of
\* the other keys.
LEMMA StoredEntries ==
    ASSUME IInv, NEW key \in Keys, NEW value \in Versions
    PROVE  LET e == [key |-> key, value |-> value, expires |-> now + TTL]
               s == AfterSet(key, value)
           IN /\ \E j \in DOMAIN s : s[j] = e
              /\ \A j \in DOMAIN s : s[j] = e \/ (s[j].key # key /\ \E i \in DOMAIN store : store[i] = s[j])
<1> DEFINE r == Removed(store, key)
           e == [key |-> key, value |-> value, expires |-> now + TTL]
           t == Append(r, e)
           s == AfterSet(key, value)
<1>1. store \in Seq(Entry) /\ \A i, j \in DOMAIN store : store[i].key = store[j].key => i = j
    BY DEF IInv, TypeOK, Distinct, Entry
<1>2. /\ r \in Seq(Entry)
      /\ \A j \in DOMAIN r : r[j].key # key /\ \E i \in DOMAIN store : store[i] = r[j]
    <2>1. \A j \in DOMAIN r : \E i \in DOMAIN store : store[i] = r[j] /\ store[i].key # key
        BY <1>1, RemovedFacts
    <2>2. r \in Seq(Entry)
        BY <1>1, RemovedFacts
    <2>3. QED
        BY <2>1, <2>2
<1>3. e \in Entry
    BY LruAssumption DEF Entry, IInv, TypeOK
<1>4. s = Trimmed(t) /\ Max \in Nat /\ Max >= 1
    BY LruAssumption DEF AfterSet
<1> HIDE DEF r, e, s
<1>5. /\ t \in Seq(Entry) /\ Len(t) = Len(r) + 1 /\ Len(r) \in Nat
      /\ DOMAIN r = 1 .. Len(r) /\ DOMAIN t = 1 .. Len(r) + 1
      /\ t[Len(r) + 1] = e /\ \A j \in 1 .. Len(r) : t[j] = r[j]
    BY <1>2, <1>3
<1> HIDE DEF t
<1>6. \A j \in DOMAIN t : t[j] = e \/ (t[j].key # key /\ \E i \in DOMAIN store : store[i] = t[j])
  <2> SUFFICES ASSUME NEW j \in DOMAIN t
               PROVE  t[j] = e \/ (t[j].key # key /\ \E i \in DOMAIN store : store[i] = t[j])
      OBVIOUS
  <2>1. CASE j = Len(r) + 1
      BY <2>1, <1>5
  <2>2. CASE j \in DOMAIN r
    <3>1. t[j] = r[j]
        BY <2>2, <1>5
    <3>2. QED
        BY <2>2, <3>1, <1>2
  <2>3. QED
      BY <1>5, <2>1, <2>2
<1>7. CASE Len(t) > Max
  <2>1. s = Tail(t) /\ Len(t) >= 2 /\ Len(t) \in Nat
      BY <1>4, <1>5, <1>7 DEF Trimmed
  <2>2. /\ DOMAIN Tail(t) = 1 .. Len(t) - 1
        /\ \A j \in 1 .. Len(t) - 1 : Tail(t)[j] = t[j + 1]
      BY <1>5, <2>1
  <2>3. \A j \in DOMAIN s : j + 1 \in DOMAIN t /\ s[j] = t[j + 1]
      BY <1>5, <2>1, <2>2
  <2>4. Len(r) \in DOMAIN s /\ s[Len(r)] = e
      BY <1>5, <2>1, <2>2
  <2>5. QED
      BY <1>6, <2>3, <2>4 DEF s, e
<1>8. CASE ~(Len(t) > Max)
  <2>1. s = t
      BY <1>4, <1>8 DEF Trimmed
  <2>2. Len(r) + 1 \in DOMAIN s /\ s[Len(r) + 1] = e
      BY <1>5, <2>1
  <2>3. QED
      BY <1>6, <2>1, <2>2 DEF s, e
<1>9. QED
    BY <1>7, <1>8

\* Two functions on the same keys that agree on each.
LEMMA HeldEqual == (\A k \in Keys : Held'[k] = Held[k]) => Held' = Held
    BY DEF Held

LEMMA InitKept == LruInit => Promise!CacheInit
<1> SUFFICES ASSUME LruInit PROVE Promise!CacheInit
    OBVIOUS
<1>1. store = <<>> /\ DOMAIN store = {}
    BY DEF LruInit
<1>2. Held = [k \in Keys |-> {}]
    BY <1>1 DEF Held
<1>3. Given = [c \in Callers |-> {}]
    BY DEF LruInit, Given, NoCall
<1>4. QED
    BY <1>2, <1>3 DEF Promise!CacheInit, Promise!Nothing, LruInit

LEMMA StepKept == IInv /\ IInv' /\ [LruNext]_vars => [Promise!CacheNext]_(Promise!cacheVars)
<1> SUFFICES ASSUME IInv, IInv', [LruNext]_vars
             PROVE  Promise!CacheNext \/ UNCHANGED <<Held, Given, now>>
    BY DEF Promise!cacheVars
<1>0. call \in [Callers -> [at : {"idle", "hit", "asking", "answered", "fetched"},
                           key : Keys \cup {"none"}, value : Nat]]
    BY DEF IInv, TypeOK
<1>1. ASSUME NEW c \in Callers, NEW key \in Keys, Lookup(c, key)
      PROVE  Promise!CacheNext \/ UNCHANGED <<Held, Given, now>>
  <2>1. store' = AfterGet(key) /\ now' = now
      BY <1>1 DEF Lookup
  <2>2. Held' = Held
    <3>1. \A j \in DOMAIN store' : \E i \in DOMAIN store : store[i] = store'[j]
        BY <2>1, LookupEntries
    <3>2. \A i \in DOMAIN store : store[i].expires > now => \E j \in DOMAIN store' : store'[j] = store[i]
        BY <2>1, LookupEntries
    <3>3. \A k \in Keys : Held'[k] = Held[k]
        BY <2>1, <3>1, <3>2, SameHeld
    <3>4. QED
        BY <3>3, HeldEqual
  <2>3. CASE Live(store, key)
    <3> DEFINE v == store[At(store, key)].value
    <3>1. At(store, key) \in DOMAIN store /\ store[At(store, key)].key = key /\ store[At(store, key)].expires > now
        BY <2>3 DEF Live, Has, At
    <3>2. Seen(store[At(store, key)]) \in Held[key]
        BY <3>1, HeldFacts
    <3>3. call' = [call EXCEPT ![c] = [at |-> "hit", key |-> key, value |-> v]]
        BY <1>1, <2>3 DEF Lookup
    <3> HIDE DEF v
    <3>4. Given' = [Given EXCEPT ![c] = {[key |-> key, value |-> v]}]
        BY <1>0, <3>3 DEF Given
    <3>5. Seen(store[At(store, key)]).value = v
        BY DEF Seen, v
    <3>6. Promise!Hit(c, key)
        BY <2>1, <2>2, <3>2, <3>4, <3>5 DEF Promise!Hit
    <3>7. QED
        BY <3>6 DEF Promise!CacheNext
  <2>4. CASE ~Live(store, key)
    <3>1. call' = [call EXCEPT ![c] = [at |-> "asking", key |-> key, value |-> 0]] /\ call[c].at = "idle"
        BY <1>1, <2>4 DEF Lookup
    <3>2. Given' = Given
        BY <1>0, <3>1 DEF Given
    <3>3. QED
        BY <2>1, <2>2, <3>2
  <2>5. QED
      BY <2>3, <2>4
<1>2. ASSUME NEW c \in Callers, Land(c)
      PROVE  Promise!CacheNext \/ UNCHANGED <<Held, Given, now>>
  <2> DEFINE key == call[c].key
             value == call[c].value
             e == [key |-> key, value |-> value, expires |-> now + TTL]
  <2>1. key \in Keys /\ value \in Versions
      BY <1>2 DEF Land, IInv, TypeOK
  <2>2. store' = AfterSet(key, value) /\ now' = now /\ now \in Nat /\ TTL \in Nat /\ TTL >= 1
      BY <1>2, LruAssumption DEF Land, IInv, TypeOK
  <2>3. /\ \E j \in DOMAIN store' : store'[j] = e
        /\ \A j \in DOMAIN store' : store'[j] = e \/ (store'[j].key # key /\ \E i \in DOMAIN store : store[i] = store'[j])
      BY <2>1, <2>2, StoredEntries
  <2>4. e.key = key /\ e.expires > now /\ Seen(e) = [value |-> value, since |-> now]
      BY <2>2 DEF Seen
  <2>5. Given' = Given
    <3>1. call' = [call EXCEPT ![c] = [at |-> "fetched", key |-> key, value |-> value]] /\ call[c].at = "answered"
        BY <1>2 DEF Land
    <3>2. QED
        BY <1>0, <3>1 DEF Given
  <2> HIDE DEF key, value, e
  <2>6. Held'[key] = {[value |-> value, since |-> now]}
    <3>1. ASSUME NEW v \in Held'[key] PROVE v = Seen(e)
      <4>1. PICK j \in DOMAIN store' : store'[j].key = key /\ v = Seen(store'[j])
          BY <2>1, HeldNext
      <4>2. QED
          BY <4>1, <2>3
    <3>2. Seen(e) \in Held'[key]
        BY <2>1, <2>2, <2>3, <2>4, HeldNext
    <3>3. QED
        BY <3>1, <3>2, <2>4
  <2>7. ASSUME NEW k \in Keys \ {key} PROVE Held'[k] \subseteq Held[k]
    <3>1. SUFFICES ASSUME NEW v \in Held'[k] PROVE v \in Held[k]
        OBVIOUS
    <3>2. PICK j \in DOMAIN store' : store'[j].key = k /\ store'[j].expires > now' /\ v = Seen(store'[j])
        BY HeldNext
    <3>3. store'[j] # e
        BY <3>2, <2>4
    <3>4. PICK i \in DOMAIN store : store[i] = store'[j]
        BY <3>3, <2>3
    <3>5. QED
        BY <3>2, <3>4, <2>2, HeldFacts
  <2>8. Promise!Young(Held', now)
    <3>1. Promise!Young(Held, now)'
        BY AllYoung, PTL
    <3>2. QED
        BY <3>1, <2>2 DEF Promise!Young
  <2>9. Promise!Store(key, value)
      BY <2>2, <2>5, <2>6, <2>7, <2>8 DEF Promise!Store
  <2>10. QED
      BY <2>1, <2>9 DEF Promise!CacheNext
<1>3. ASSUME UNCHANGED <<store, now>> PROVE Held' = Held
    BY <1>3 DEF Held
<1>4. ASSUME NEW c \in Callers, ReadAnswer(c)
      PROVE  Promise!CacheNext \/ UNCHANGED <<Held, Given, now>>
  <2>1. Given' = Given
      BY <1>0, <1>4 DEF ReadAnswer, Given
  <2>2. QED
      BY <2>1, <1>3, <1>4 DEF ReadAnswer
<1>5. ASSUME NEW c \in Callers, Fail(c) \/ Done(c)
      PROVE  Promise!CacheNext \/ UNCHANGED <<Held, Given, now>>
  <2>1. Given' = [Given EXCEPT ![c] = {}]
    <3>1. call' = [call EXCEPT ![c] = NoCall] /\ NoCall.at = "idle"
        BY <1>5 DEF Fail, Done, NoCall
    <3>2. \A d \in Callers : call'[d] = IF d = c THEN NoCall ELSE call[d]
        BY <1>0, <3>1
    <3>3. QED
        BY <3>1, <3>2 DEF Given
  <2>2. Held' = Held /\ now' = now
      BY <1>3, <1>5 DEF Fail, Done
  <2>3. Promise!Done(c)
      BY <2>1, <2>2 DEF Promise!Done, Promise!Nothing
  <2>4. QED
      BY <2>3 DEF Promise!CacheNext
<1>6. ASSUME NEW key \in Keys, Change(key)
      PROVE  Promise!CacheNext \/ UNCHANGED <<Held, Given, now>>
    BY <1>3, <1>6 DEF Change, Given
<1>7. CASE Tick
  <2>1. now' = now + 1 /\ UNCHANGED store /\ UNCHANGED call /\ now \in Nat
      BY <1>7 DEF Tick, IInv, TypeOK
  <2>2. Given' = Given
      BY <2>1 DEF Given
  <2>3. ASSUME NEW k \in Keys PROVE Held'[k] \subseteq Held[k]
    <3>1. SUFFICES ASSUME NEW v \in Held'[k] PROVE v \in Held[k]
        OBVIOUS
    <3>2. PICK j \in DOMAIN store' : store'[j].key = k /\ store'[j].expires > now' /\ v = Seen(store'[j])
        BY HeldNext
    <3>3. j \in DOMAIN store /\ store'[j] = store[j] /\ store[j] \in Entry
        BY <2>1, <3>2, EntryTyped
    <3>4. store[j].expires > now
        BY <2>1, <3>2, <3>3 DEF Entry
    <3>5. QED
        BY <3>2, <3>3, <3>4, HeldFacts
  <2>4. Promise!Young(Held', now')
    <3>1. Promise!Young(Held, now)'
        BY AllYoung, PTL
    <3>2. QED
        BY <3>1 DEF Promise!Young
  <2>5. Promise!Forget
      BY <2>1, <2>2, <2>3, <2>4 DEF Promise!Forget
  <2>6. QED
      BY <2>5 DEF Promise!CacheNext
<1>8. CASE UNCHANGED vars
    BY <1>3, <1>8 DEF vars, Given
<1>9. QED
    BY <1>1, <1>2, <1>4, <1>5, <1>6, <1>7, <1>8 DEF LruNext

\* However calls overlap, fail, expire entries and push others out, the cache does
\* only what Cache allows.
THEOREM KeepsPromise == LruSpec => Refines
<1>1. IInv /\ IInv' /\ [LruNext]_vars => [Promise!CacheNext]_(Promise!cacheVars)
    BY StepKept
<1>2. QED
    BY InitKept, Invariant, <1>1, PTL DEF LruSpec, Refines, Promise!CacheSpec

(***************************************************************************)
(* The token cache (lib/eightvance/auth.ts, VanceClient.request).          *)
(***************************************************************************)

CacheEntry == [access : Tokens, inflight : Requests \cup {Nobody, Settled}]
RefreshRecord == [at : {"none", "asked", "minted", "refused"}, token : Tokens]
RequestRecord ==
    [at : {"idle", "acquire", "shared", "read", "waiting", "forced", "send", "done",
           "failed", "exhausted"},
     entry : Entries \cup {0}, on : Requests \cup {Nobody},
     token : Tokens, rejected : SUBSET Tokens,
     auth : 0..AuthRetries, rate : 0..RateRetries, net : 0..NetRetries,
     attempt : 0..MaxAttempts]

\* A process holds an entry in its map, or a getToken of it does over its await.
Holds(s, e) ==
    \/ cached[s] = e
    \/ \E q \in Requests : ServerOf[q] = s /\ request[q].entry = e

\* No entry is held by two processes, and the refresh that an entry of a map waits for
\* was started there: so a settling refresh finds every entry that waits for it.
EntryOfOne ==
    \A e \in Entries, s, u \in Servers : Holds(s, e) /\ Holds(u, e) => s = u
InflightAtHome ==
    \A s \in Servers, q \in Requests :
        cached[s] # 0 /\ heap[cached[s]].inflight = q => ServerOf[q] = s
EntriesOK == EntryOfOne /\ InflightAtHome /\ NoStuckRefresh

\* The rounds of a request are its spent budgets, and the round it is in.
Spent(r) == (AuthRetries - r.auth) + (RateRetries - r.rate) + (NetRetries - r.net)
RequestOK(r) ==
    /\ r.on # Nobody => r.at \in {"waiting", "forced"}
    /\ r.at \in {"acquire", "forced"} => r.attempt = Spent(r)
    /\ r.at \in {"shared", "read", "waiting", "send"} => r.attempt = Spent(r) + 1
    /\ r.at # "exhausted"
RequestsOK == \A q \in Requests : RequestOK(request[q])

\* What the code's budgets, 1 + 2 + 3 rounds beside the first, and its bound of 16 are.
BoundExceedsBudgets == AuthRetries + RateRetries + NetRetries < MaxAttempts

-----------------------------------------------------------------------------
(* Entries *)

\* A finite set has at least as many elements as any image of it.
LEMMA ImageFacts ==
    ASSUME NEW S, IsFiniteSet(S), NEW f
    PROVE  IsFiniteSet({f[s] : s \in S}) /\ Cardinality({f[s] : s \in S}) <= Cardinality(S)
<1> DEFINE T == {f[s] : s \in S}
           g == [s \in S |-> f[s]]
<1>1. g \in Surjection(S, T)
    BY DEF Surjection
<1> HIDE DEF T, g
<1>2. IsFiniteSet(T) /\ Cardinality(T) <= Cardinality(S)
    BY <1>1, FS_Surjection
<1>3. QED
    BY <1>2 DEF T

\* There are more entries than a process or a request can refer to, so one is free.
LEMMA FreshFacts ==
    ASSUME TokenCacheAssumption, TokenTypeOK
    PROVE  /\ Fresh \in Entries
           /\ \A s \in Servers : cached[s] # Fresh
           /\ \A q \in Requests : request[q].entry # Fresh
<1> DEFINE A == {cached[s] : s \in Servers}
           B == {request[q].entry : q \in Requests}
           f == [q \in Requests |-> request[q].entry]
<1>1. IsFiniteSet(A) /\ Cardinality(A) <= Cardinality(Servers)
    BY ImageFacts DEF TokenCacheAssumption
<1>2. IsFiniteSet(B) /\ Cardinality(B) <= Cardinality(Requests)
  <2>1. B = {f[q] : q \in Requests}
      OBVIOUS
  <2> HIDE DEF B, f
  <2>2. QED
      BY <2>1, ImageFacts DEF TokenCacheAssumption
<1> HIDE DEF A, B
<1>3. IsFiniteSet(A \cup B) /\ Cardinality(A \cup B) \in Nat
    BY <1>1, <1>2, FS_Union, FS_CardinalityType
<1>4. Cardinality(A \cup B) <= Cardinality(A) + Cardinality(B)
    <2>1. IsFiniteSet(A \cap B) /\ Cardinality(A \cap B) \in Nat
        BY <1>1, FS_Intersection, FS_CardinalityType
    <2>2. Cardinality(A \cup B) = Cardinality(A) + Cardinality(B) - Cardinality(A \cap B)
        BY <1>1, <1>2, FS_Union
    <2>3. Cardinality(A) \in Nat /\ Cardinality(B) \in Nat
        BY <1>1, <1>2, FS_CardinalityType
    <2>4. QED
        BY <2>1, <2>2, <2>3
<1>5. Cardinality(Servers) \in Nat /\ Cardinality(Requests) \in Nat
    BY FS_CardinalityType DEF TokenCacheAssumption
<1> DEFINE n == Cardinality(Servers) + Cardinality(Requests) + 1
<1>6. n \in Nat /\ Cardinality(A \cup B) < n
    BY <1>1, <1>2, <1>3, <1>4, <1>5, FS_CardinalityType
<1> HIDE DEF n
<1>7. IsFiniteSet(1 .. n) /\ Cardinality(1 .. n) = n
  <2>1. 0 \in Int /\ 1 \in Int /\ n \in Int
      BY <1>6
  <2>2. Cardinality(1 .. n) = IF 1 > n THEN 0 ELSE n - 1 + 1
      BY <2>1, FS_Interval
  <2>3. QED
      BY <2>1, <2>2, <1>6, FS_Interval
<1>8. \E e \in 1 .. n : e \notin A \cup B
  <2>1. SUFFICES ASSUME 1 .. n \subseteq A \cup B
                 PROVE  FALSE
      OBVIOUS
  <2>2. Cardinality(1 .. n) <= Cardinality(A \cup B)
      BY <2>1, <1>3, FS_Subset
  <2>3. QED
      BY <2>2, <1>3, <1>6, <1>7
<1>9. Entries = 1 .. n
    BY DEF Entries, n
<1>10. \E e \in Entries : (\A s \in Servers : cached[s] # e) /\ (\A q \in Requests : request[q].entry # e)
    BY <1>8, <1>9 DEF A, B
<1>11. QED
    BY <1>10 DEF Fresh

\* Collecting the entries nobody refers to leaves every other one as it was.
LEMMA KeptFacts ==
    ASSUME TokenCacheAssumption, NEW h \in [Entries -> CacheEntry]
    PROVE  /\ Kept(h) \in [Entries -> CacheEntry]
           /\ \A e \in Entries : Kept(h)[e] = h[e] \/ Kept(h)[e] = NoEntry
           /\ \A s \in Servers : cached'[s] \in Entries => Kept(h)[cached'[s]] = h[cached'[s]]
           /\ \A q \in Requests : request'[q].entry \in Entries => Kept(h)[request'[q].entry] = h[request'[q].entry]
<1>1. NoEntry \in CacheEntry
    BY DEF NoEntry, CacheEntry, Tokens, TokenCacheAssumption
<1>2. QED
    BY <1>1 DEF Kept

\* The entries stay as they should when one process replaces or keeps its entry by one
\* that no other process holds, and every other process keeps its own.
LEMMA EntriesMove ==
    ASSUME TokenCacheAssumption, TokenTypeOK, TokenTypeOK', EntriesOK,
           NEW s \in Servers,
           \A u \in Servers : u # s => cached'[u] = cached[u],
           cached'[s] = 0 \/ \A u \in Servers : Holds(u, cached'[s]) => u = s,
           \A p \in Requests : request'[p].entry = 0 \/ Holds(ServerOf[p], request'[p].entry),
           \A u \in Servers \ {s} : cached[u] # 0 =>
               \/ heap'[cached[u]].inflight = heap[cached[u]].inflight
               \/ \E q \in Requests : heap[cached[u]].inflight = q /\ ServerOf[q] = s,
           cached'[s] = 0 \/ heap'[cached'[s]].inflight = Nobody
               \/ \E q \in Requests : heap'[cached'[s]].inflight = q /\ ServerOf[q] = s
    PROVE  EntriesOK'
<1>1. \A u \in Servers : u # s /\ cached[u] # 0 => heap'[cached[u]].inflight = heap[cached[u]].inflight
    BY DEF EntriesOK, InflightAtHome, TokenCacheAssumption
<1>2. EntryOfOne'
  <2>1. \A e \in Entries, u \in Servers : Holds(u, e)' => Holds(u, e) \/ (u = s /\ e = cached'[s])
    <3> SUFFICES ASSUME NEW e \in Entries, NEW u \in Servers, Holds(u, e)'
                 PROVE  Holds(u, e) \/ (u = s /\ e = cached'[s])
        OBVIOUS
    <3>1. e # 0
        BY FS_CardinalityType DEF Entries, TokenCacheAssumption
    <3>2. CASE cached'[u] = e
        BY <3>2 DEF Holds
    <3>3. CASE \E q \in Requests : ServerOf[q] = u /\ request'[q].entry = e
        BY <3>1, <3>3
    <3>4. QED
        BY <3>2, <3>3 DEF Holds
  <2>2. \A e \in Entries : e = cached'[s] => e # 0
      BY FS_CardinalityType DEF Entries, TokenCacheAssumption
  <2>3. SUFFICES ASSUME NEW e \in Entries, NEW u \in Servers, NEW v \in Servers, Holds(u, e)', Holds(v, e)'
                 PROVE  u = v
      BY DEF EntryOfOne
  <2>4. CASE e = cached'[s]
      BY <2>1, <2>2, <2>3, <2>4
  <2>5. CASE e # cached'[s]
      BY <2>1, <2>3, <2>5 DEF EntriesOK, EntryOfOne
  <2>6. QED
      BY <2>4, <2>5
<1>3. InflightAtHome'
  <2> SUFFICES ASSUME NEW u \in Servers, NEW q \in Requests, cached'[u] # 0, heap'[cached'[u]].inflight = q
               PROVE  ServerOf[q] = u
      BY DEF InflightAtHome
  <2>1. CASE u = s
      BY <2>1 DEF TokenCacheAssumption
  <2>2. CASE u # s
      BY <2>2, <1>1 DEF EntriesOK, InflightAtHome
  <2>3. QED
      BY <2>1, <2>2
<1>4. NoStuckRefresh'
  <2> SUFFICES ASSUME NEW u \in Servers, cached'[u] # 0
               PROVE  heap'[cached'[u]].inflight # Settled
      BY DEF NoStuckRefresh
  <2>1. CASE u = s
      BY <2>1 DEF TokenCacheAssumption, Nobody, Settled
  <2>2. CASE u # s
      BY <2>2, <1>1 DEF EntriesOK, NoStuckRefresh
  <2>3. QED
      BY <2>1, <2>2
<1>5. QED
    BY <1>2, <1>3, <1>4 DEF EntriesOK

-----------------------------------------------------------------------------
(* Requests *)

RequestsGood == RequestsOK /\ request \in [Requests -> RequestRecord]

\* A step that gives one request a good record keeps all of them good.
LEMMA OneTurned ==
    ASSUME RequestsGood, NEW q \in Requests, NEW r \in RequestRecord, RequestOK(r),
           request' = [request EXCEPT ![q] = r]
    PROVE  RequestsGood'
<1>1. request' \in [Requests -> RequestRecord]
    BY DEF RequestsGood
<1>2. \A p \in Requests : RequestOK(request'[p])
    BY DEF RequestsGood, RequestsOK
<1>3. QED
    BY <1>1, <1>2 DEF RequestsGood, RequestsOK

\* A request that ended, or starts, has its budgets again.
LEMMA NewIsGood ==
    ASSUME TokenCacheAssumption, NEW a \in {"idle", "acquire", "done", "failed"}
    PROVE  /\ [NewRequest EXCEPT !.at = a] \in RequestRecord
           /\ RequestOK([NewRequest EXCEPT !.at = a])
           /\ [NewRequest EXCEPT !.at = a].entry = 0
           /\ NewRequest \in RequestRecord /\ RequestOK(NewRequest)
BY DEF TokenCacheAssumption, NewRequest, RequestRecord, RequestOK, Spent, Tokens, Nobody

\* The budgets end before the bound of the loop.
LEMMA SpentFacts ==
    ASSUME TokenCacheAssumption, BoundExceedsBudgets, NEW r \in RequestRecord, RequestOK(r)
    PROVE  /\ Spent(r) \in Nat /\ Spent(r) < MaxAttempts
           /\ r.at = "acquire" => r.attempt < MaxAttempts
           /\ r.auth > 0 => Spent([r EXCEPT !.auth = @ - 1]) = Spent(r) + 1
BY DEF TokenCacheAssumption, BoundExceedsBudgets, RequestRecord, RequestOK, Spent

\* The requests that a settled refresh resumes: with a token, or failed.
LEMMA ResumedGood ==
    ASSUME TokenCacheAssumption, RequestsGood, NEW q \in Requests, NEW t \in Tokens,
           request' = Resumed(q, t)
    PROVE  /\ RequestsGood'
           /\ \A p \in Requests : request'[p].entry \in {0, request[p].entry}
<1>0. Nobody \notin Requests /\ [NewRequest EXCEPT !.at = "failed"] \in RequestRecord
      /\ RequestOK([NewRequest EXCEPT !.at = "failed"]) /\ [NewRequest EXCEPT !.at = "failed"].entry = 0
    BY NewIsGood DEF TokenCacheAssumption
<1>1. ASSUME NEW p \in Requests
      PROVE  request'[p] \in RequestRecord /\ RequestOK(request'[p]) /\ request'[p].entry \in {0, request[p].entry}
  <2> DEFINE r == request[p]
  <2>0. r \in RequestRecord /\ RequestOK(r)
      BY DEF RequestsGood, RequestsOK
  <2>1. CASE r.on # q
    <3>1. request'[p] = r
        BY <2>1 DEF Resumed
    <3>2. QED
        BY <3>1, <2>0
  <2>2. CASE r.on = q /\ t = 0
    <3>1. request'[p] = [NewRequest EXCEPT !.at = "failed"]
        BY <2>2 DEF Resumed
    <3>2. QED
        BY <3>1, <1>0
  <2>3. CASE r.on = q /\ t # 0 /\ r.at = "forced"
    <3>1. request'[p] = [r EXCEPT !.at = "acquire", !.on = Nobody]
        BY <2>3 DEF Resumed
    <3> HIDE DEF r
    <3>2. [r EXCEPT !.at = "acquire", !.on = Nobody] \in RequestRecord
          /\ RequestOK([r EXCEPT !.at = "acquire", !.on = Nobody])
          /\ [r EXCEPT !.at = "acquire", !.on = Nobody].entry = r.entry
        BY <2>0, <2>3 DEF RequestRecord, RequestOK, Spent
    <3>3. QED
        BY <3>1, <3>2 DEF r
  <2>4. CASE r.on = q /\ t # 0 /\ r.at # "forced"
    <3>1. request'[p] = [r EXCEPT !.at = "send", !.on = Nobody, !.token = t]
        BY <2>4 DEF Resumed
    <3> HIDE DEF r
    <3>2. r.at = "waiting"
        BY <2>0, <2>4, <1>0 DEF RequestOK
    <3>3. [r EXCEPT !.at = "send", !.on = Nobody, !.token = t] \in RequestRecord
          /\ RequestOK([r EXCEPT !.at = "send", !.on = Nobody, !.token = t])
          /\ [r EXCEPT !.at = "send", !.on = Nobody, !.token = t].entry = r.entry
        BY <2>0, <2>4, <3>2 DEF RequestRecord, RequestOK, Spent
    <3>4. QED
        BY <3>1, <3>3 DEF r
  <2>5. QED
      BY <2>1, <2>2, <2>3, <2>4
<1>2. request' \in [Requests -> RequestRecord]
    BY <1>1 DEF Resumed
<1>3. QED
    BY <1>1, <1>2 DEF RequestsGood, RequestsOK

-----------------------------------------------------------------------------
(* Steps *)

TokenIInv == TokenTypeOK /\ EntriesOK /\ RequestsOK

HeapTyped ==
    /\ heap \in [Entries -> CacheEntry]
    /\ cached \in [Servers -> Entries \cup {0}]
    /\ refresh \in [Requests -> RefreshRecord]
RestTyped ==
    /\ shared \in Tokens
    /\ orders \subseteq [by : Requests, op : {"set", "del"}, token : Tokens]
    /\ {minted, expired, revoked} \subseteq Tokens
    /\ revokes \in 0..MaxRevokes /\ expiries \in 0..MaxExpiries /\ calls \in 0..MaxCalls

LEMMA TypeSplits == TokenTypeOK <=> HeapTyped /\ RestTyped /\ request \in [Requests -> RequestRecord]
BY DEF TokenTypeOK, HeapTyped, RestTyped, CacheEntry, RefreshRecord, RequestRecord

LEMMA TypeSplitsNext == TokenTypeOK' <=> HeapTyped' /\ RestTyped' /\ request' \in [Requests -> RequestRecord]
BY DEF TokenTypeOK, HeapTyped, RestTyped, CacheEntry, RefreshRecord, RequestRecord, Tokens, Entries

LEMMA InvGood == TokenIInv => RequestsGood /\ HeapTyped /\ RestTyped
BY TypeSplits DEF TokenIInv, RequestsGood

\* A request moves on and the entries stay; it may come to hold the entry of its process.
LEMMA OneMoves ==
    ASSUME TokenCacheAssumption, TokenIInv, NEW q \in Requests, NEW r \in RequestRecord,
           RequestOK(r), r.entry \in {0, request[q].entry, cached[ServerOf[q]]},
           request' = [request EXCEPT ![q] = r], UNCHANGED cacheVars, RestTyped'
    PROVE  TokenIInv'
<1>1. RequestsGood' /\ HeapTyped'
    BY InvGood, OneTurned DEF HeapTyped, cacheVars
<1>2. TokenTypeOK'
    BY <1>1, TypeSplitsNext DEF RequestsGood
<1>3. heap' = heap /\ cached' = cached
    BY DEF cacheVars
<1>4. \A p \in Requests : request'[p].entry = 0 \/ Holds(ServerOf[p], request'[p].entry)
  <2> SUFFICES ASSUME NEW p \in Requests
               PROVE  request'[p].entry = 0 \/ Holds(ServerOf[p], request'[p].entry)
      OBVIOUS
  <2>0. Holds(ServerOf[p], request[p].entry) /\ Holds(ServerOf[q], cached[ServerOf[q]])
      BY DEF Holds
  <2>1. CASE p # q
    <3>1. request'[p] = request[p]
        BY <2>1, InvGood DEF RequestsGood
    <3>2. QED
        BY <2>0, <3>1
  <2>2. CASE p = q
    <3>1. request'[p] = r
        BY <2>2, InvGood DEF RequestsGood
    <3>2. QED
        BY <2>0, <2>2, <3>1
  <2>3. QED
      BY <2>1, <2>2
<1> DEFINE s == ServerOf[q]
<1>5. s \in Servers
    BY DEF TokenCacheAssumption
<1>6. cached[s] = 0 \/ \A u \in Servers : Holds(u, cached[s]) => u = s
    BY <1>5, InvGood DEF TokenIInv, EntriesOK, EntryOfOne, Holds, HeapTyped
<1>7. cached[s] = 0 \/ heap[cached[s]].inflight = Nobody
      \/ \E p \in Requests : heap[cached[s]].inflight = p /\ ServerOf[p] = s
  <2>1. cached[s] = 0 \/ heap[cached[s]].inflight \in (Requests \cup {Nobody, Settled}) \ {Settled}
      BY <1>5, InvGood DEF TokenIInv, EntriesOK, NoStuckRefresh, HeapTyped, CacheEntry
  <2>2. QED
      BY <1>5, <2>1 DEF TokenIInv, EntriesOK, InflightAtHome
<1> HIDE DEF s
<1>8. EntriesOK'
    BY <1>2, <1>3, <1>4, <1>5, <1>6, <1>7, EntriesMove DEF TokenIInv
<1>9. QED
    BY <1>1, <1>2, <1>8 DEF TokenIInv, RequestsGood

\* A process takes a new entry, or one that a getToken of it held, into its map.
LEMMA EntryPlaced ==
    ASSUME TokenCacheAssumption, TokenIInv, NEW q \in Requests, NEW e \in Entries,
           NEW g \in [Entries -> CacheEntry],
           \A u \in Servers : Holds(u, e) => u = ServerOf[q],
           cached' = [cached EXCEPT ![ServerOf[q]] = e], heap' = Kept(g),
           \A f \in Entries \ {e} : g[f].inflight = heap[f].inflight \/ heap[f].inflight = q,
           g[e].inflight \in {Nobody, q},
           refresh' \in [Requests -> RefreshRecord], RequestsGood', RestTyped',
           \A p \in Requests : request'[p].entry \in {0, request[p].entry}
    PROVE  TokenIInv'
<1> DEFINE s == ServerOf[q]
<1>1. s \in Servers /\ 0 \notin Entries
    BY FS_CardinalityType DEF TokenCacheAssumption, Entries
<1>2. heap' \in [Entries -> CacheEntry] /\ cached' \in [Servers -> Entries \cup {0}]
    BY <1>1, InvGood, KeptFacts DEF HeapTyped
<1>3. TokenTypeOK'
    BY <1>2, TypeSplitsNext DEF RequestsGood, HeapTyped
<1>4. cached'[s] = e /\ \A u \in Servers : u # s => cached'[u] = cached[u]
    BY <1>1, InvGood DEF HeapTyped
<1>5. \A u \in Servers : cached'[u] # 0 => heap'[cached'[u]] = g[cached'[u]]
    BY <1>2, KeptFacts
<1>6. \A u \in Servers : u # s => cached[u] # e
    BY <1>1 DEF Holds
<1>7. \A u \in Servers : cached[u] \in Entries \cup {0}
    BY InvGood DEF HeapTyped
<1> HIDE DEF s
<1>8. \A u \in Servers \ {s} : cached[u] # 0 =>
          \/ heap'[cached[u]].inflight = heap[cached[u]].inflight
          \/ heap[cached[u]].inflight = q
    BY <1>4, <1>5, <1>6, <1>7
<1>9. ServerOf[q] = s /\ heap'[e].inflight \in {Nobody, q}
    BY <1>1, <1>4, <1>5 DEF s
<1>10. \A p \in Requests : request'[p].entry = 0 \/ Holds(ServerOf[p], request'[p].entry)
    BY DEF Holds
<1>11. EntriesOK'
  <2>1. cached'[s] = 0 \/ \A u \in Servers : Holds(u, cached'[s]) => u = s
      BY <1>4, <1>9
  <2>2. cached'[s] = 0 \/ heap'[cached'[s]].inflight = Nobody
        \/ \E p \in Requests : heap'[cached'[s]].inflight = p /\ ServerOf[p] = s
      BY <1>4, <1>9
  <2>3. \A u \in Servers \ {s} : cached[u] # 0 =>
            \/ heap'[cached[u]].inflight = heap[cached[u]].inflight
            \/ \E p \in Requests : heap[cached[u]].inflight = p /\ ServerOf[p] = s
      BY <1>8, <1>9
  <2>4. QED
      BY <1>1, <1>3, <1>4, <1>10, <2>1, <2>2, <2>3, EntriesMove DEF TokenIInv
<1>12. QED
    BY <1>3, <1>11 DEF TokenIInv, RequestsGood

\* The entry of a free place was nobody's, and a new one may be put there.
LEMMA FreshIsFree ==
    ASSUME TokenCacheAssumption, TokenIInv
    PROVE  Fresh \in Entries /\ \A u \in Servers : ~Holds(u, Fresh)
BY FreshFacts DEF TokenIInv, Holds

LEMMA InitToken ==
    ASSUME TokenCacheAssumption, TokenInit
    PROVE  TokenIInv
<1>1. NewRequest \in RequestRecord /\ RequestOK(NewRequest) /\ NewRequest.entry = 0
    BY NewIsGood DEF NewRequest
<1>2. request \in [Requests -> RequestRecord] /\ RequestsOK
    BY <1>1 DEF TokenInit, RequestsOK
<1>3. 0 \in Tokens /\ 0 \notin Entries
    BY FS_CardinalityType DEF TokenCacheAssumption, Tokens, Entries
<1>4. HeapTyped
    BY <1>3 DEF TokenInit, HeapTyped, CacheEntry, RefreshRecord, NoEntry, NoRefresh
<1>5. RestTyped
    BY <1>3 DEF TokenInit, RestTyped, TokenCacheAssumption
<1>6. \A s \in Servers : cached[s] = 0
    BY DEF TokenInit
<1>7. \A q \in Requests : request[q].entry = 0
    BY <1>1 DEF TokenInit
<1>8. EntriesOK
    BY <1>3, <1>6, <1>7 DEF EntriesOK, EntryOfOne, InflightAtHome, NoStuckRefresh, Holds
<1>9. QED
    BY <1>2, <1>4, <1>5, <1>8, TypeSplits DEF TokenIInv

\* The steps of a request that leave the entries alone.
LEMMA QuietSteps ==
    ASSUME TokenCacheAssumption, BoundExceedsBudgets, TokenIInv, NEW q \in Requests,
           \/ Call(q) \/ GetToken(q) \/ Exhaust(q) \/ ReadShared(q) \/ Answer(q)
           \/ Unanswered(q) \/ Throttled(q) \/ Unauthorized(q)
    PROVE  TokenIInv'
<1> DEFINE r == request[q]
<1>1. r \in RequestRecord /\ RequestOK(r) /\ RequestsGood /\ HeapTyped /\ RestTyped
    BY InvGood DEF RequestsGood, RequestsOK
<1>2. UNCHANGED <<shared, orders, clockVars, calls>> => RestTyped'
    BY <1>1 DEF RestTyped, clockVars, Tokens
<1>3. [NewRequest EXCEPT !.at = "failed"] \in RequestRecord /\ RequestOK([NewRequest EXCEPT !.at = "failed"])
      /\ [NewRequest EXCEPT !.at = "failed"].entry = 0
    BY NewIsGood
<1>4. CASE Call(q)
  <2>1. RestTyped'
      BY <1>1, <1>4 DEF Call, RestTyped, clockVars, Tokens, TokenCacheAssumption
  <2>2. QED
      BY <1>4, <2>1, NewIsGood, OneMoves DEF Call
<1>5. CASE GetToken(q)
  <2> DEFINE e == cached[ServerOf[q]]
             held == IF e = 0 THEN NoEntry ELSE heap[e]
             m == [r EXCEPT !.attempt = @ + 1]
  <2>1. e \in Entries \cup {0}
      BY <1>1 DEF HeapTyped, TokenCacheAssumption
  <2>2. held \in CacheEntry
      BY <1>1, <2>1 DEF HeapTyped, NoEntry, CacheEntry, Tokens, TokenCacheAssumption
  <2>3. r.at = "acquire" /\ r.attempt < MaxAttempts /\ UNCHANGED cacheVars
        /\ UNCHANGED <<shared, orders, clockVars, calls>>
      BY <1>5 DEF GetToken
  <2>4. m \in RequestRecord /\ m.attempt = Spent(m) + 1 /\ m.entry = r.entry /\ m.on = Nobody
      BY <1>1, <2>3 DEF RequestRecord, RequestOK, Spent, TokenCacheAssumption
  <2>5. request' = [request EXCEPT ![q] =
           IF Usable(held.access) THEN [m EXCEPT !.at = "send", !.token = held.access]
           ELSE IF held.inflight = Settled THEN [NewRequest EXCEPT !.at = "failed"]
           ELSE IF held.inflight # Nobody THEN [m EXCEPT !.at = "waiting", !.on = held.inflight]
           ELSE [m EXCEPT !.at = "shared", !.entry = e]]
      BY <1>5 DEF GetToken
  <2> HIDE DEF m, held, e
  <2>6. [m EXCEPT !.at = "send", !.token = held.access] \in RequestRecord
        /\ RequestOK([m EXCEPT !.at = "send", !.token = held.access])
        /\ [m EXCEPT !.at = "send", !.token = held.access].entry = r.entry
      BY <2>2, <2>4 DEF RequestRecord, RequestOK, CacheEntry, Spent
  <2>7. held.inflight # Settled =>
           [m EXCEPT !.at = "waiting", !.on = held.inflight] \in RequestRecord
           /\ RequestOK([m EXCEPT !.at = "waiting", !.on = held.inflight])
           /\ [m EXCEPT !.at = "waiting", !.on = held.inflight].entry = r.entry
      BY <2>2, <2>4 DEF RequestRecord, RequestOK, CacheEntry, Spent
  <2>8. [m EXCEPT !.at = "shared", !.entry = e] \in RequestRecord
        /\ RequestOK([m EXCEPT !.at = "shared", !.entry = e])
        /\ [m EXCEPT !.at = "shared", !.entry = e].entry = e
      BY <2>1, <2>4 DEF RequestRecord, RequestOK, Spent
  <2>9. CASE Usable(held.access)
      BY <1>2, <2>3, <2>5, <2>6, <2>9, OneMoves
  <2>10. CASE ~Usable(held.access) /\ held.inflight = Settled
      BY <1>2, <1>3, <2>3, <2>5, <2>10, OneMoves
  <2>11. CASE ~Usable(held.access) /\ held.inflight # Settled /\ held.inflight # Nobody
      BY <1>2, <2>3, <2>5, <2>7, <2>11, OneMoves
  <2>12. CASE ~Usable(held.access) /\ held.inflight # Settled /\ held.inflight = Nobody
    <3>1. e = cached[ServerOf[q]]
        BY DEF e
    <3>2. request' = [request EXCEPT ![q] = [m EXCEPT !.at = "shared", !.entry = e]]
        BY <2>5, <2>12
    <3>3. QED
        BY <1>2, <2>3, <2>8, <3>1, <3>2, OneMoves
  <2>13. QED
      BY <2>9, <2>10, <2>11, <2>12
<1>6. CASE Exhaust(q)
  <2>1. r.attempt < MaxAttempts
      BY <1>1, <1>6, SpentFacts DEF Exhaust
  <2>2. QED
      BY <1>1, <1>6, <2>1 DEF Exhaust, TokenCacheAssumption
<1>7. CASE ReadShared(q)
  <2>1. PICK t \in {0, shared} : request' = [request EXCEPT ![q] = [r EXCEPT !.at = "read", !.token = t]]
      BY <1>7 DEF ReadShared
  <2>2. r.at = "shared" /\ UNCHANGED cacheVars /\ UNCHANGED <<shared, orders, clockVars, calls>>
      BY <1>7 DEF ReadShared
  <2>3. t \in Tokens
      BY <1>1 DEF RestTyped, Tokens, TokenCacheAssumption
  <2> HIDE DEF r
  <2>4. [r EXCEPT !.at = "read", !.token = t] \in RequestRecord
        /\ RequestOK([r EXCEPT !.at = "read", !.token = t])
        /\ [r EXCEPT !.at = "read", !.token = t].entry = r.entry
      BY <1>1, <2>2, <2>3 DEF RequestRecord, RequestOK, Spent
  <2>5. QED
      BY <1>2, <2>1, <2>2, <2>4, OneMoves DEF r
<1>8. CASE Answer(q)
    BY <1>2, <1>8, NewIsGood, OneMoves DEF Answer
<1>9. CASE Unanswered(q)
  <2>1. r.at = "send" /\ UNCHANGED cacheVars /\ UNCHANGED <<shared, orders, clockVars, calls>>
        /\ request' = [request EXCEPT ![q] = IF r.net > 0 THEN [r EXCEPT !.at = "acquire", !.net = r.net - 1]
                                             ELSE [NewRequest EXCEPT !.at = "failed"]]
      BY <1>9 DEF Unanswered
  <2>2. CASE r.net > 0
    <3> HIDE DEF r
    <3> DEFINE n == [r EXCEPT !.at = "acquire", !.net = r.net - 1]
    <3>0. r.net - 1 \in 0..NetRetries /\ NetRetries - (r.net - 1) = (NetRetries - r.net) + 1
        BY <1>1, <2>2 DEF RequestRecord, TokenCacheAssumption
    <3>1. n \in RequestRecord /\ n.entry = r.entry /\ n.on = r.on /\ n.at = "acquire"
          /\ n.attempt = r.attempt /\ Spent(n) = Spent(r) + 1
      <4> DEFINE k == r.net - 1
      <4>1. k \in 0..NetRetries
          BY <3>0
      <4> HIDE DEF k
      <4> DEFINE w == [r EXCEPT !.at = "acquire", !.net = k]
      <4>2. w \in RequestRecord /\ w.entry = r.entry /\ w.on = r.on /\ w.at = "acquire"
            /\ w.attempt = r.attempt /\ w.auth = r.auth /\ w.rate = r.rate /\ w.net = k
          BY <1>1, <4>1 DEF RequestRecord
      <4>3. w = n
          BY DEF k
      <4> HIDE DEF w, n
      <4>4. NetRetries - k = (NetRetries - r.net) + 1
          BY <3>0 DEF k
      <4>5. AuthRetries - r.auth \in Int /\ RateRetries - r.rate \in Int /\ NetRetries - r.net \in Int
          BY <1>1 DEF RequestRecord, TokenCacheAssumption
      <4>6. Spent(w) = Spent(r) + 1
          BY <4>2, <4>4, <4>5 DEF Spent
      <4>7. QED
          BY <4>2, <4>3, <4>6
    <3>2. RequestOK(n)
      <4> HIDE DEF n
      <4>1. r.on = Nobody /\ r.attempt = Spent(r) + 1
          BY <1>1, <2>1 DEF RequestOK
      <4>2. QED
          BY <3>1, <4>1 DEF RequestOK
    <3>3. QED
        BY <1>2, <2>1, <2>2, <3>1, <3>2, OneMoves DEF r
  <2>3. CASE ~(r.net > 0)
      BY <1>2, <1>3, <2>1, <2>3, OneMoves
  <2>4. QED
      BY <2>2, <2>3
<1>10. CASE Throttled(q)
  <2>1. r.at = "send" /\ UNCHANGED cacheVars /\ UNCHANGED <<shared, orders, clockVars, calls>>
        /\ request' = [request EXCEPT ![q] = IF r.rate > 0 THEN [r EXCEPT !.at = "acquire", !.rate = r.rate - 1]
                                             ELSE [NewRequest EXCEPT !.at = "failed"]]
      BY <1>10 DEF Throttled
  <2>2. CASE r.rate > 0
    <3> HIDE DEF r
    <3> DEFINE n == [r EXCEPT !.at = "acquire", !.rate = r.rate - 1]
    <3>0. r.rate - 1 \in 0..RateRetries /\ RateRetries - (r.rate - 1) = (RateRetries - r.rate) + 1
        BY <1>1, <2>2 DEF RequestRecord, TokenCacheAssumption
    <3>1. n \in RequestRecord /\ n.entry = r.entry /\ n.on = r.on /\ n.at = "acquire"
          /\ n.attempt = r.attempt /\ Spent(n) = Spent(r) + 1
      <4> DEFINE k == r.rate - 1
      <4>1. k \in 0..RateRetries
          BY <3>0
      <4> HIDE DEF k
      <4> DEFINE w == [r EXCEPT !.at = "acquire", !.rate = k]
      <4>2. w \in RequestRecord /\ w.entry = r.entry /\ w.on = r.on /\ w.at = "acquire"
            /\ w.attempt = r.attempt /\ w.auth = r.auth /\ w.rate = k /\ w.net = r.net
          BY <1>1, <4>1 DEF RequestRecord
      <4>3. w = n
          BY DEF k
      <4> HIDE DEF w, n
      <4>4. RateRetries - k = (RateRetries - r.rate) + 1
          BY <3>0 DEF k
      <4>5. AuthRetries - r.auth \in Int /\ RateRetries - r.rate \in Int /\ NetRetries - r.net \in Int
          BY <1>1 DEF RequestRecord, TokenCacheAssumption
      <4>6. Spent(w) = Spent(r) + 1
          BY <4>2, <4>4, <4>5 DEF Spent
      <4>7. QED
          BY <4>2, <4>3, <4>6
    <3>2. RequestOK(n)
      <4> HIDE DEF n
      <4>1. r.on = Nobody /\ r.attempt = Spent(r) + 1
          BY <1>1, <2>1 DEF RequestOK
      <4>2. QED
          BY <3>1, <4>1 DEF RequestOK
    <3>3. QED
        BY <1>2, <2>1, <2>2, <3>1, <3>2, OneMoves DEF r
  <2>3. CASE ~(r.rate > 0)
      BY <1>2, <1>3, <2>1, <2>3, OneMoves
  <2>4. QED
      BY <2>2, <2>3
<1>11. CASE Unauthorized(q)
    BY <1>2, <1>3, <1>11, OneMoves DEF Unauthorized
<1>12. QED
    BY <1>4, <1>5, <1>6, <1>7, <1>8, <1>9, <1>10, <1>11

\* The steps of 8vance, of Redis and of time, which leave entries and requests alone.
LEMMA OuterSteps ==
    ASSUME TokenCacheAssumption, TokenIInv,
           (\E q \in Requests : Mint(q)) \/ Deliver \/ Expire \/ Revoke \/ UNCHANGED tokenVars
    PROVE  TokenIInv'
<1>1. HeapTyped /\ RestTyped /\ RequestsGood
    BY InvGood
<1>2. heap' = heap /\ cached' = cached /\ request' = request
    BY DEF Mint, Deliver, Expire, Revoke, tokenVars, cacheVars
<1>3. refresh' \in [Requests -> RefreshRecord] /\ RestTyped'
  <2>1. CASE \E q \in Requests : Mint(q)
    <3>1. PICK q \in Requests : Mint(q)
        BY <2>1
    <3>2. RestTyped'
        BY <1>1, <3>1 DEF Mint, RestTyped, Tokens, TokenCacheAssumption
    <3>3. refresh[q] \in RefreshRecord
        BY <1>1 DEF HeapTyped
    <3>4. [refresh[q] EXCEPT !.at = "refused"] \in RefreshRecord
          /\ (minted < MaxTokens => [at |-> "minted", token |-> minted + 1] \in RefreshRecord)
        BY <1>1, <3>3 DEF RefreshRecord, RestTyped, Tokens, TokenCacheAssumption
    <3>5. refresh' = [refresh EXCEPT ![q] = [refresh[q] EXCEPT !.at = "refused"]]
          \/ (minted < MaxTokens /\ refresh' = [refresh EXCEPT ![q] = [at |-> "minted", token |-> minted + 1]])
        BY <3>1 DEF Mint
    <3>6. QED
        BY <1>1, <3>2, <3>4, <3>5 DEF HeapTyped
  <2>2. CASE Deliver
    <3>1. PICK o \in orders : /\ orders' = orders \ {o}
                              /\ shared' \in {o.token, 0, shared}
                              /\ UNCHANGED <<cacheVars, request, clockVars, calls>>
        BY <2>2 DEF Deliver
    <3>2. o.token \in Tokens /\ 0 \in Tokens
        BY <1>1 DEF RestTyped, Tokens, TokenCacheAssumption
    <3>3. QED
        BY <1>1, <3>1, <3>2 DEF HeapTyped, RestTyped, cacheVars, clockVars, Tokens
  <2>3. CASE Expire
      BY <1>1, <2>3 DEF Expire, HeapTyped, RestTyped, cacheVars, Tokens, TokenCacheAssumption
  <2>4. CASE Revoke
      BY <1>1, <2>4 DEF Revoke, HeapTyped, RestTyped, cacheVars, Tokens, TokenCacheAssumption
  <2>5. CASE UNCHANGED tokenVars
      BY <1>1, <2>5 DEF tokenVars, HeapTyped, RestTyped, cacheVars, clockVars, Tokens
  <2>6. QED
      BY <2>1, <2>2, <2>3, <2>4, <2>5
<1>4. TokenTypeOK'
    BY <1>1, <1>2, <1>3, TypeSplitsNext DEF HeapTyped, RequestsGood
<1>5. EntriesOK' /\ RequestsOK'
    BY <1>2 DEF TokenIInv, EntriesOK, EntryOfOne, InflightAtHome, NoStuckRefresh, Holds, RequestsOK
<1>6. QED
    BY <1>4, <1>5 DEF TokenIInv

\* Commands for Redis are well formed.
LEMMA OrderFacts ==
    ASSUME TokenIInv, NEW q \in Requests, NEW op \in {"set", "del"}, NEW t \in Tokens,
           orders' = Order(q, op, t), UNCHANGED <<shared, clockVars, calls>>
    PROVE  RestTyped'
<1>1. [by |-> q, op |-> op, token |-> t] \in [by : Requests, op : {"set", "del"}, token : Tokens]
    OBVIOUS
<1>2. orders' \subseteq [by : Requests, op : {"set", "del"}, token : Tokens]
    BY <1>1, InvGood DEF Order, RestTyped
<1>3. QED
    BY <1>2, InvGood DEF RestTyped, clockVars, Tokens

LEMMA SharedHitStep ==
    ASSUME TokenCacheAssumption, TokenIInv, NEW q \in Requests, SharedHit(q)
    PROVE  TokenIInv'
<1> DEFINE r == request[q]
           e == Fresh
           n == [r EXCEPT !.at = "send", !.entry = 0]
           g == [heap EXCEPT ![e] = [access |-> r.token, inflight |-> Nobody]]
<1>1. RequestsGood /\ HeapTyped /\ RestTyped /\ r \in RequestRecord /\ RequestOK(r)
    BY InvGood DEF RequestsGood, RequestsOK
<1>2. e \in Entries /\ \A u \in Servers : ~Holds(u, e)
    BY FreshIsFree
<1>3. n \in RequestRecord /\ RequestOK(n) /\ n.entry = 0
  <2>1. r.at = "read"
      BY DEF SharedHit
  <2> HIDE DEF r
  <2>2. QED
      BY <1>1, <2>1 DEF RequestRecord, RequestOK, Spent
<1>4. g \in [Entries -> CacheEntry] /\ g[e].inflight = Nobody
      /\ \A f \in Entries \ {e} : g[f] = heap[f]
    BY <1>1, <1>2 DEF HeapTyped, CacheEntry, RequestRecord
<1>5. request' = [request EXCEPT ![q] = n] /\ heap' = Kept(g)
      /\ cached' = [cached EXCEPT ![ServerOf[q]] = e] /\ refresh' = refresh
      /\ UNCHANGED <<shared, orders, clockVars, calls>>
    BY DEF SharedHit
<1> HIDE DEF e, g, n
<1>6. RequestsGood'
    BY <1>1, <1>3, <1>5, OneTurned
<1>7. \A p \in Requests : request'[p].entry \in {0, request[p].entry}
    BY <1>1, <1>3, <1>5 DEF RequestsGood
<1>8. RestTyped' /\ refresh' \in [Requests -> RefreshRecord]
    BY <1>1, <1>5 DEF RestTyped, clockVars, Tokens, HeapTyped
<1>9. QED
    BY <1>2, <1>4, <1>5, <1>6, <1>7, <1>8, EntryPlaced

\* A refresh is stashed on an entry that only its process may hold.
LEMMA StashedFacts ==
    ASSUME TokenCacheAssumption, TokenIInv, NEW q \in Requests, NEW e \in Entries, NEW held \in CacheEntry,
           \A u \in Servers : Holds(u, e) => u = ServerOf[q], Stashed(q, e, held),
           RequestsGood', RestTyped', \A p \in Requests : request'[p].entry \in {0, request[p].entry}
    PROVE  TokenIInv'
<1> DEFINE g == [heap EXCEPT ![e] = [access |-> held.access, inflight |-> q]]
<1>1. HeapTyped
    BY InvGood
<1>2. g \in [Entries -> CacheEntry] /\ g[e].inflight = q /\ \A f \in Entries \ {e} : g[f] = heap[f]
    BY <1>1 DEF HeapTyped, CacheEntry
<1>3. cached' = [cached EXCEPT ![ServerOf[q]] = e] /\ heap' = Kept(g)
    BY DEF Stashed
<1>4. refresh' \in [Requests -> RefreshRecord]
    BY <1>1 DEF Stashed, HeapTyped, RefreshRecord, Tokens, TokenCacheAssumption
<1> HIDE DEF g
<1>5. QED
    BY <1>2, <1>3, <1>4, EntryPlaced

LEMMA StartRefreshStep ==
    ASSUME TokenCacheAssumption, TokenIInv, NEW q \in Requests, StartRefresh(q)
    PROVE  TokenIInv'
<1> DEFINE r == request[q]
           e == r.entry
           n == [r EXCEPT !.at = "waiting", !.on = q, !.token = 0, !.entry = 0]
<1>1. RequestsGood /\ HeapTyped /\ RestTyped /\ r \in RequestRecord /\ RequestOK(r)
    BY InvGood DEF RequestsGood, RequestsOK
<1>2. n \in RequestRecord /\ RequestOK(n) /\ n.entry = 0
  <2>1. r.at = "read" /\ 0 \in Tokens
      BY DEF StartRefresh, Tokens, TokenCacheAssumption
  <2> HIDE DEF r
  <2>2. n \in RequestRecord /\ n.entry = 0 /\ n.at = "waiting" /\ n.attempt = r.attempt
        /\ n.auth = r.auth /\ n.rate = r.rate /\ n.net = r.net
      BY <1>1, <2>1 DEF RequestRecord
  <2> HIDE DEF n
  <2>3. r.attempt = Spent(r) + 1 /\ Spent(n) = Spent(r)
      BY <1>1, <2>1, <2>2 DEF RequestOK, Spent
  <2>4. QED
      BY <2>2, <2>3 DEF RequestOK
<1>3. request' = [request EXCEPT ![q] = n] /\ UNCHANGED <<shared, orders, clockVars, calls>>
    BY DEF StartRefresh
<1> HIDE DEF n
<1>4. RequestsGood' /\ \A p \in Requests : request'[p].entry \in {0, request[p].entry}
    BY <1>1, <1>2, <1>3, OneTurned DEF RequestsGood
<1>5. RestTyped'
    BY <1>1, <1>3 DEF RestTyped, clockVars, Tokens
<1>6. CASE e = 0
  <2>1. Stashed(q, Fresh, NoEntry)
      BY <1>6 DEF StartRefresh
  <2>2. NoEntry \in CacheEntry
      BY DEF NoEntry, CacheEntry, Tokens, TokenCacheAssumption
  <2>3. QED
      BY <1>4, <1>5, <2>1, <2>2, FreshIsFree, StashedFacts
<1>7. CASE e # 0
  <2>1. e \in Entries /\ Stashed(q, e, heap[e]) /\ heap[e] \in CacheEntry
      BY <1>1, <1>7 DEF StartRefresh, RequestRecord, HeapTyped
  <2>2. Holds(ServerOf[q], e) /\ ServerOf[q] \in Servers
      BY DEF Holds, TokenCacheAssumption
  <2>3. \A u \in Servers : Holds(u, e) => u = ServerOf[q]
      BY <2>1, <2>2 DEF TokenIInv, EntriesOK, EntryOfOne
  <2> HIDE DEF e
  <2>4. QED
      BY <1>4, <1>5, <2>1, <2>3, StashedFacts
<1>8. QED
    BY <1>6, <1>7

LEMMA RejectedStep ==
    ASSUME TokenCacheAssumption, TokenIInv, NEW q \in Requests, Rejected(q)
    PROVE  TokenIInv'
<1> DEFINE r == request[q]
           k == r.auth - 1
           n == [r EXCEPT !.at = "forced", !.on = q, !.token = 0, !.auth = k,
                          !.rejected = @ \cup {r.token}]
<1>1. RequestsGood /\ HeapTyped /\ RestTyped /\ r \in RequestRecord /\ RequestOK(r)
    BY InvGood DEF RequestsGood, RequestsOK
<1>2. r.at = "send" /\ r.auth > 0 /\ orders' = Order(q, "del", 0) /\ Stashed(q, Fresh, NoEntry)
      /\ UNCHANGED <<shared, clockVars, calls>> /\ request' = [request EXCEPT ![q] = n]
  <2>1. n = [r EXCEPT !.at = "forced", !.on = q, !.token = 0, !.auth = @ - 1,
                      !.rejected = @ \cup {r.token}]
      OBVIOUS
  <2> HIDE DEF n
  <2>2. QED
      BY <2>1 DEF Rejected
<1> HIDE DEF r
<1>3. k \in 0..AuthRetries /\ AuthRetries - k = (AuthRetries - r.auth) + 1
    BY <1>1, <1>2 DEF RequestRecord, TokenCacheAssumption
<1>4. RateRetries - r.rate \in Int /\ NetRetries - r.net \in Int /\ AuthRetries - r.auth \in Int
      /\ 0 \in Tokens
    BY <1>1 DEF RequestRecord, TokenCacheAssumption, Tokens
<1>5. n \in RequestRecord /\ n.at = "forced" /\ n.entry = r.entry /\ n.attempt = r.attempt
      /\ n.auth = k /\ n.rate = r.rate /\ n.net = r.net
  <2> HIDE DEF k
  <2>1. QED
      BY <1>1, <1>3, <1>4 DEF RequestRecord
<1> HIDE DEF n, k
<1>6. RequestOK(n)
  <2>1. Spent(n) = Spent(r) + 1
      BY <1>3, <1>4, <1>5 DEF Spent
  <2>2. r.attempt = Spent(r) + 1
      BY <1>1, <1>2 DEF RequestOK
  <2>3. QED
      BY <1>5, <2>1, <2>2 DEF RequestOK
<1>7. RequestsGood' /\ \A p \in Requests : request'[p].entry \in {0, request[p].entry}
    BY <1>1, <1>2, <1>5, <1>6, OneTurned DEF RequestsGood, r
<1>8. RestTyped'
    BY <1>2, <1>4, OrderFacts
<1>9. NoEntry \in CacheEntry
    BY <1>4 DEF NoEntry, CacheEntry
<1>10. QED
    BY <1>2, <1>7, <1>8, <1>9, FreshIsFree, StashedFacts

\* Settling takes the refresh off every entry that waits for it, and off the one in the
\* map; the others are not touched.
LEMMA ClearedFacts ==
    ASSUME TokenCacheAssumption, NEW h \in [Entries -> CacheEntry], NEW q \in Requests, NEW e \in Entries \cup {0}
    PROVE  /\ Cleared(h, q, e) \in [Entries -> CacheEntry]
           /\ \A f \in Entries : Cleared(h, q, e)[f].access = h[f].access
           /\ \A f \in Entries : f # e => Cleared(h, q, e)[f].inflight = h[f].inflight
                                          \/ h[f].inflight = q
           /\ e # 0 => Cleared(h, q, e)[e].inflight = Nobody
<1>1. \A c \in CacheEntry : /\ [c EXCEPT !.inflight = Settled] \in CacheEntry
                            /\ [c EXCEPT !.inflight = Settled].access = c.access
                            /\ [c EXCEPT !.inflight = Nobody] \in CacheEntry
                            /\ [c EXCEPT !.inflight = Nobody].access = c.access
                            /\ [c EXCEPT !.inflight = Nobody].inflight = Nobody
    BY DEF CacheEntry
<1> DEFINE m == Marked(h, q)
<1>2. m \in [Entries -> CacheEntry]
    BY <1>1 DEF Marked
<1>3. \A f \in Entries : m[f].access = h[f].access /\ (m[f].inflight = h[f].inflight \/ h[f].inflight = q)
    BY <1>1 DEF Marked
<1>4. 0 \notin Entries
    BY FS_CardinalityType DEF Entries, TokenCacheAssumption
<1>5. Cleared(h, q, e) = IF e = 0 THEN m ELSE [m EXCEPT ![e] = [m[e] EXCEPT !.inflight = Nobody]]
    BY DEF Cleared
<1> HIDE DEF m
<1>6. CASE e = 0
    BY <1>2, <1>3, <1>4, <1>5, <1>6
<1>7. CASE e # 0
  <2> DEFINE c == [m[e] EXCEPT !.inflight = Nobody]
  <2>1. c \in CacheEntry /\ c.access = m[e].access /\ c.inflight = Nobody
      BY <1>1, <1>2, <1>7
  <2>2. Cleared(h, q, e) = [m EXCEPT ![e] = c]
      BY <1>5, <1>7
  <2> HIDE DEF c
  <2>3. QED
      BY <1>2, <1>3, <1>7, <2>1, <2>2
<1>8. QED
    BY <1>6, <1>7

LEMMA RefreshedStep ==
    ASSUME TokenCacheAssumption, TokenIInv, NEW q \in Requests, Refreshed(q)
    PROVE  TokenIInv'
<1> DEFINE e == Fresh
           t == refresh[q].token
           h == [heap EXCEPT ![e] = [access |-> t, inflight |-> Nobody]]
           g == Cleared(h, q, e)
<1>1. RequestsGood /\ HeapTyped /\ RestTyped
    BY InvGood
<1>2. t \in Tokens /\ e \in Entries /\ \A u \in Servers : ~Holds(u, e)
    BY <1>1, FreshIsFree DEF HeapTyped, RefreshRecord
<1>3. h \in [Entries -> CacheEntry] /\ \A f \in Entries \ {e} : h[f] = heap[f]
    BY <1>1, <1>2 DEF HeapTyped, CacheEntry
<1>4. cached' = [cached EXCEPT ![ServerOf[q]] = e] /\ orders' = Order(q, "set", t)
      /\ refresh' = [refresh EXCEPT ![q] = NoRefresh] /\ request' = Resumed(q, t)
      /\ heap' = Kept(g) /\ UNCHANGED <<shared, clockVars, calls>>
    BY DEF Refreshed
<1> HIDE DEF h, e, t
<1>5. g \in [Entries -> CacheEntry] /\ g[e].inflight = Nobody
      /\ \A f \in Entries \ {e} : g[f].inflight = heap[f].inflight \/ heap[f].inflight = q
  <2>1. e # 0
      BY <1>2, FS_CardinalityType DEF Entries, TokenCacheAssumption
  <2>2. QED
      BY <1>2, <1>3, <2>1, ClearedFacts
<1> HIDE DEF g
<1>6. RequestsGood' /\ \A p \in Requests : request'[p].entry \in {0, request[p].entry}
    BY <1>1, <1>2, <1>4, ResumedGood
<1>7. RestTyped'
    BY <1>2, <1>4, OrderFacts
<1>8. refresh' \in [Requests -> RefreshRecord]
    BY <1>1, <1>4 DEF HeapTyped, NoRefresh, RefreshRecord, Tokens, TokenCacheAssumption
<1>9. QED
    BY <1>2, <1>4, <1>5, <1>6, <1>7, <1>8, EntryPlaced

LEMMA RefreshFailsStep ==
    ASSUME TokenCacheAssumption, TokenIInv, NEW q \in Requests, RefreshFails(q)
    PROVE  TokenIInv'
<1> DEFINE s == ServerOf[q]
           e == cached[s]
           g == Cleared(heap, q, e)
<1>1. RequestsGood /\ HeapTyped /\ RestTyped /\ s \in Servers
    BY InvGood DEF TokenCacheAssumption
<1>2. e \in Entries \cup {0}
    BY <1>1 DEF HeapTyped
<1>3. heap' = g /\ cached' = cached /\ refresh' = [refresh EXCEPT ![q] = NoRefresh]
      /\ request' = Resumed(q, 0) /\ UNCHANGED <<shared, orders, clockVars, calls>>
    BY DEF RefreshFails
<1>4. g \in [Entries -> CacheEntry] /\ (e # 0 => g[e].inflight = Nobody)
      /\ \A f \in Entries : f # e => g[f].inflight = heap[f].inflight \/ heap[f].inflight = q
    BY <1>1, <1>2, ClearedFacts DEF HeapTyped
<1> HIDE DEF g
<1>5. 0 \in Tokens
    BY DEF Tokens, TokenCacheAssumption
<1>6. RequestsGood' /\ \A p \in Requests : request'[p].entry \in {0, request[p].entry}
    BY <1>1, <1>3, <1>5, ResumedGood
<1>7. refresh' \in [Requests -> RefreshRecord]
    BY <1>1, <1>3, <1>5 DEF HeapTyped, NoRefresh, RefreshRecord
<1>8. RestTyped'
    BY <1>1, <1>3 DEF RestTyped, clockVars, Tokens
<1>9. TokenTypeOK'
    BY <1>1, <1>3, <1>4, <1>6, <1>7, <1>8, TypeSplitsNext DEF HeapTyped, RequestsGood
<1>10. e # 0 => \A u \in Servers : Holds(u, e) => u = s
  <2>1. Holds(s, e)
      BY DEF Holds
  <2>2. QED
      BY <1>1, <1>2, <2>1 DEF TokenIInv, EntriesOK, EntryOfOne
<1>11. \A p \in Requests : request'[p].entry = 0 \/ Holds(ServerOf[p], request'[p].entry)
    BY <1>6 DEF Holds
<1>12. \A u \in Servers \ {s} : cached[u] # 0 =>
           \/ heap'[cached[u]].inflight = heap[cached[u]].inflight
           \/ \E p \in Requests : heap[cached[u]].inflight = p /\ ServerOf[p] = s
  <2> SUFFICES ASSUME NEW u \in Servers \ {s}, cached[u] # 0
               PROVE  \/ heap'[cached[u]].inflight = heap[cached[u]].inflight
                      \/ heap[cached[u]].inflight = q
      OBVIOUS
  <2>1. cached[u] \in Entries
      BY <1>1 DEF HeapTyped
  <2>2. cached[u] # e
      BY <1>10 DEF Holds
  <2>3. QED
      BY <1>3, <1>4, <2>1, <2>2
<1>13. cached'[s] = 0 \/ heap'[cached'[s]].inflight = Nobody
       \/ \E p \in Requests : heap'[cached'[s]].inflight = p /\ ServerOf[p] = s
    BY <1>3, <1>4
<1>14. cached'[s] = 0 \/ \A u \in Servers : Holds(u, cached'[s]) => u = s
    BY <1>3, <1>10
<1>15. \A u \in Servers : u # s => cached'[u] = cached[u]
    BY <1>3
<1> HIDE DEF s, e
<1>16. EntriesOK'
    BY <1>1, <1>9, <1>11, <1>12, <1>13, <1>14, <1>15, EntriesMove DEF TokenIInv
<1>17. QED
    BY <1>6, <1>9, <1>16 DEF TokenIInv, RequestsGood

LEMMA TokenStep ==
    ASSUME TokenCacheAssumption, BoundExceedsBudgets, TokenIInv, [TokenNext]_tokenVars
    PROVE  TokenIInv'
<1>1. CASE \E q \in Requests : Call(q) \/ RequestStep(q)
  <2>1. PICK q \in Requests : Call(q) \/ RequestStep(q)
      BY <1>1
  <2>2. QED
      BY <2>1, QuietSteps, OuterSteps, SharedHitStep, StartRefreshStep, RejectedStep,
         RefreshedStep, RefreshFailsStep DEF RequestStep
<1>2. CASE Deliver \/ Expire \/ Revoke \/ UNCHANGED tokenVars
    BY <1>2, OuterSteps
<1>3. QED
    BY <1>1, <1>2 DEF TokenNext

LEMMA TokenInvariant ==
    ASSUME TokenCacheAssumption, BoundExceedsBudgets
    PROVE  TokenSpec => []TokenIInv
<1>1. TokenInit => TokenIInv
    BY InitToken
<1>2. TokenIInv /\ [TokenNext]_tokenVars => TokenIInv'
    BY TokenStep
<1>3. QED
    BY <1>1, <1>2, PTL DEF TokenSpec

\* The entry that getToken finds in the map of a process never holds a refresh that has
\* settled, whatever entries other requests replaced, deleted or brought back over their
\* awaits (getToken, doRefresh and invalidateToken): every later caller asks again.
THEOREM NeverStuck ==
    ASSUME TokenCacheAssumption, BoundExceedsBudgets
    PROVE  TokenSpec => []NoStuckRefresh
<1>1. TokenIInv => NoStuckRefresh
    BY DEF TokenIInv, EntriesOK
<1>2. QED
    BY <1>1, TokenInvariant, PTL

\* Where the bound of the request loop is beyond its three budgets, as 16 is beyond
\* 1 + 2 + 3, no request meets it, whatever is rejected, throttled or lost.
THEOREM BudgetsEndFirst ==
    ASSUME TokenCacheAssumption, BoundExceedsBudgets
    PROVE  TokenSpec => [](TokenTypeOK /\ NeverExhausted)
<1>1. TokenIInv => TokenTypeOK /\ NeverExhausted
    BY DEF TokenIInv, RequestsOK, RequestOK, NeverExhausted
<1>2. QED
    BY <1>1, TokenInvariant, PTL

-----------------------------------------------------------------------------
(* Without Redis                                                             *)

\* A token that is, or was, in an entry or with a request.
Known(t) ==
    \/ \E e \in Entries : heap[e].access = t
    \/ \E q \in Requests : request[q].token = t \/ t \in request[q].rejected

\* A token that a refresh brings was not seen before, in any process.
Unseen(q) ==
    /\ refresh[q].token > 0 /\ ~Known(refresh[q].token)
    /\ \A p \in Requests : p # q => refresh[p].token # refresh[q].token
MintedIsNew == \A q \in Requests : refresh[q].at = "minted" => Unseen(q)
TokensAreMinted ==
    /\ \A e \in Entries : heap[e].access <= minted
    /\ \A q \in Requests : /\ request[q].token <= minted /\ refresh[q].token <= minted
                           /\ \A t \in request[q].rejected : t <= minted

\* The token that a process would hand out was rejected by none of its requests, and an
\* entry that a getToken brings back has none to hand out.
CachedNotRejected ==
    \A q \in Requests :
        LET e == cached[ServerOf[q]] IN
        e # 0 /\ Usable(heap[e].access) => heap[e].access \notin request[q].rejected
HeldIsOld == \A q \in Requests : request[q].entry # 0 => ~Usable(heap[request[q].entry].access)
NothingShared ==
    /\ shared = 0 /\ orders = {}
    /\ \A q \in Requests : request[q].at = "read" => request[q].token = 0

LocalIInv ==
    /\ MintedIsNew /\ TokensAreMinted /\ CachedNotRejected /\ HeldIsOld
    /\ NothingShared /\ NeverReplaysRejected

LEMMA NumberFacts ==
    ASSUME TokenCacheAssumption, TokenIInv
    PROVE  /\ minted \in Nat /\ expired \in Nat /\ revoked \in Nat /\ ~Usable(0)
           /\ \A q \in Requests : /\ request[q].token \in Nat /\ refresh[q].token \in Nat
                                  /\ \A t \in request[q].rejected : t \in Nat
           /\ \A e \in Entries : heap[e].access \in Nat
           /\ 0 \notin Entries /\ \A s \in Servers : cached[s] \in Entries \cup {0}
           /\ \A q \in Requests : request[q].entry \in Entries \cup {0} /\ ServerOf[q] \in Servers
<1>1. Tokens \subseteq Nat /\ 0 \notin Entries
    BY FS_CardinalityType DEF Tokens, Entries, TokenCacheAssumption
<1>2. HeapTyped /\ RestTyped /\ RequestsGood
    BY InvGood
<1>3. minted \in Nat /\ expired \in Nat /\ revoked \in Nat /\ \A e \in Entries : heap[e].access \in Nat
    BY <1>1, <1>2 DEF HeapTyped, RestTyped, CacheEntry
<1>4. \A q \in Requests : request[q].token \in Tokens /\ refresh[q].token \in Tokens
                          /\ request[q].rejected \subseteq Tokens /\ request[q].entry \in Entries \cup {0}
    BY <1>2 DEF HeapTyped, RequestsGood, RequestRecord, RefreshRecord
<1>5. ~Usable(0)
    BY <1>3 DEF Usable
<1>6. \A s \in Servers : cached[s] \in Entries \cup {0}
    BY <1>2 DEF HeapTyped
<1>7. \A q \in Requests : ServerOf[q] \in Servers
    BY DEF TokenCacheAssumption
<1>8. \A q \in Requests : /\ request[q].token \in Nat /\ refresh[q].token \in Nat
                          /\ \A t \in request[q].rejected : t \in Nat
    BY <1>1, <1>4
<1>9. QED
    BY <1>1, <1>3, <1>4, <1>5, <1>6, <1>7, <1>8

LEMMA InitLocal ==
    ASSUME TokenCacheAssumption, TokenInit
    PROVE  LocalIInv
<1>1. NewRequest.at = "idle" /\ NewRequest.token = 0 /\ NewRequest.rejected = {} /\ NewRequest.entry = 0
    BY DEF NewRequest
<1>2. \A q \in Requests : request[q] = NewRequest /\ refresh[q].at = "none" /\ refresh[q].token = 0
    BY DEF TokenInit, NoRefresh
<1>3. \A e \in Entries : heap[e].access = 0
    BY DEF TokenInit, NoEntry
<1>4. \A s \in Servers : cached[s] = 0
    BY DEF TokenInit
<1>5. minted = 0 /\ shared = 0 /\ orders = {}
    BY DEF TokenInit
<1>6. QED
    BY <1>1, <1>2, <1>3, <1>4, <1>5
    DEF LocalIInv, MintedIsNew, Unseen, TokensAreMinted, CachedNotRejected, HeldIsOld, NothingShared,
        NeverReplaysRejected, TokenCacheAssumption

\* A request moves on and entries and refreshes stay.
LEMMA OneMovesLocally ==
    ASSUME TokenCacheAssumption, TokenIInv, LocalIInv, NEW q \in Requests, NEW n,
           request' = [request EXCEPT ![q] = n],
           UNCHANGED <<cacheVars, minted, expired, shared, orders>>,
           n.rejected \subseteq request[q].rejected,
           \/ n.token \in {0, request[q].token}
           \/ cached[ServerOf[q]] # 0 /\ n.token = heap[cached[ServerOf[q]]].access,
           n.at = "read" => n.token = 0,
           \/ n.entry \in {0, request[q].entry}
           \/ n.entry = cached[ServerOf[q]] /\ (n.entry = 0 \/ ~Usable(heap[n.entry].access)),
           n.at = "send" => n.token \notin n.rejected
    PROVE  LocalIInv'
<1>1. request'[q] = n /\ \A p \in Requests : p # q => request'[p] = request[p]
    BY InvGood DEF RequestsGood
<1>2. heap' = heap /\ cached' = cached /\ refresh' = refresh /\ minted' = minted /\ expired' = expired
      /\ shared' = shared /\ orders' = orders
    BY DEF cacheVars
<1>3. \A t : t > 0 /\ t \in Nat /\ Known(t)' => Known(t)
  <2> SUFFICES ASSUME NEW t, t > 0, t \in Nat, Known(t)'
               PROVE  Known(t)
      OBVIOUS
  <2>1. CASE \E e \in Entries : heap[e].access = t
      BY <2>1 DEF Known
  <2>2. CASE n.token = t
      BY <2>2, NumberFacts DEF Known
  <2>3. CASE t \in n.rejected
      BY <2>3 DEF Known
  <2>4. CASE \E p \in Requests : p # q /\ (request'[p].token = t \/ t \in request'[p].rejected)
      BY <1>1, <2>4 DEF Known
  <2>5. QED
      BY <1>1, <1>2, <2>1, <2>2, <2>3, <2>4 DEF Known
<1>4. MintedIsNew'
    BY <1>2, <1>3, NumberFacts DEF LocalIInv, MintedIsNew, Unseen
<1>5. TokensAreMinted'
  <2>1. n.token <= minted /\ \A t \in n.rejected : t <= minted
      BY NumberFacts DEF LocalIInv, TokensAreMinted
  <2>2. QED
      BY <1>1, <1>2, <2>1 DEF LocalIInv, TokensAreMinted
<1>6. CachedNotRejected'
    BY <1>1, <1>2 DEF LocalIInv, CachedNotRejected, Usable
<1>7. HeldIsOld'
    BY <1>1, <1>2 DEF LocalIInv, HeldIsOld, Usable
<1>8. NothingShared' /\ NeverReplaysRejected'
    BY <1>1, <1>2 DEF LocalIInv, NothingShared, NeverReplaysRejected
<1>9. QED
    BY <1>4, <1>5, <1>6, <1>7, <1>8 DEF LocalIInv

LEMMA QuietLocally ==
    ASSUME TokenCacheAssumption, BoundExceedsBudgets, ~Redis, TokenIInv, LocalIInv, NEW q \in Requests,
           \/ Call(q) \/ GetToken(q) \/ Exhaust(q) \/ ReadShared(q) \/ Answer(q)
           \/ Unanswered(q) \/ Throttled(q) \/ Unauthorized(q)
    PROVE  LocalIInv'
<1> DEFINE r == request[q]
<1>1. r \in RequestRecord /\ RequestOK(r)
    BY InvGood DEF RequestsGood, RequestsOK
<1>2. UNCHANGED <<shared, orders, clockVars>> /\ UNCHANGED cacheVars
      => UNCHANGED <<cacheVars, minted, expired, shared, orders>>
    BY DEF clockVars
<1>3. ASSUME NEW a \in {"acquire", "done", "failed"}
      PROVE  LET n == [NewRequest EXCEPT !.at = a]
             IN  n.at = a /\ n.token = 0 /\ n.rejected = {} /\ n.entry = 0
    BY DEF NewRequest
<1>4. ASSUME NEW a \in {"acquire", "done", "failed"}, request' = [request EXCEPT ![q] = [NewRequest EXCEPT !.at = a]],
             UNCHANGED <<cacheVars, minted, expired, shared, orders>>
      PROVE  LocalIInv'
  <2> DEFINE n == [NewRequest EXCEPT !.at = a]
  <2>1. n.at = a /\ n.token = 0 /\ n.rejected = {} /\ n.entry = 0
      BY <1>3
  <2>2. request' = [request EXCEPT ![q] = n]
      BY <1>4
  <2> HIDE DEF n
  <2>3. QED
      BY <1>4, <2>1, <2>2, OneMovesLocally
<1>5. CASE Call(q) \/ Answer(q) \/ Unauthorized(q)
  <2>1. \E a \in {"acquire", "done", "failed"} : request' = [request EXCEPT ![q] = [NewRequest EXCEPT !.at = a]]
      BY <1>5 DEF Call, Answer, Unauthorized
  <2>2. UNCHANGED <<cacheVars, minted, expired, shared, orders>>
      BY <1>2, <1>5 DEF Call, Answer, Unauthorized
  <2>3. QED
      BY <1>4, <2>1, <2>2
<1>6. CASE GetToken(q)
  <2> DEFINE e == cached[ServerOf[q]]
             held == IF e = 0 THEN NoEntry ELSE heap[e]
             m == [r EXCEPT !.attempt = @ + 1]
  <2>1. r.at = "acquire" /\ UNCHANGED <<cacheVars, minted, expired, shared, orders>>
      BY <1>2, <1>6 DEF GetToken
  <2>2. request' = [request EXCEPT ![q] =
           IF Usable(held.access) THEN [m EXCEPT !.at = "send", !.token = held.access]
           ELSE IF held.inflight = Settled THEN [NewRequest EXCEPT !.at = "failed"]
           ELSE IF held.inflight # Nobody THEN [m EXCEPT !.at = "waiting", !.on = held.inflight]
           ELSE [m EXCEPT !.at = "shared", !.entry = e]]
      BY <1>6 DEF GetToken
  <2>3. e = 0 => held = NoEntry /\ ~Usable(held.access)
      BY NumberFacts DEF NoEntry
  <2>4. e # 0 => held = heap[e]
      OBVIOUS
  <2>5. e = cached[ServerOf[q]] /\ (e # 0 /\ Usable(heap[e].access) => heap[e].access \notin r.rejected)
      BY DEF LocalIInv, CachedNotRejected
  <2> HIDE DEF e, held
  <2>6. CASE Usable(held.access)
    <3> DEFINE n == [r EXCEPT !.attempt = @ + 1, !.at = "send", !.token = held.access]
    <3>1. n = [m EXCEPT !.at = "send", !.token = held.access] /\ n.at = "send" /\ n.token = held.access
          /\ n.rejected = r.rejected /\ n.entry = r.entry
        BY <1>1 DEF RequestRecord
    <3>2. request' = [request EXCEPT ![q] = n]
        BY <2>2, <2>6, <3>1
    <3> HIDE DEF n, m, r
    <3>3. QED
        BY <2>1, <2>3, <2>4, <2>5, <2>6, <3>1, <3>2, OneMovesLocally DEF r
  <2>7. CASE ~Usable(held.access) /\ held.inflight = Settled
      BY <1>4, <2>1, <2>2, <2>7
  <2>8. CASE ~Usable(held.access) /\ held.inflight # Settled /\ held.inflight # Nobody
    <3> DEFINE n == [r EXCEPT !.attempt = @ + 1, !.at = "waiting", !.on = held.inflight]
    <3>1. n = [m EXCEPT !.at = "waiting", !.on = held.inflight] /\ n.at = "waiting" /\ n.token = r.token
          /\ n.rejected = r.rejected /\ n.entry = r.entry
        BY <1>1 DEF RequestRecord
    <3>2. request' = [request EXCEPT ![q] = n]
        BY <2>2, <2>8, <3>1
    <3> HIDE DEF n, m, r
    <3>3. QED
        BY <2>1, <3>1, <3>2, OneMovesLocally DEF r
  <2>9. CASE ~Usable(held.access) /\ held.inflight # Settled /\ held.inflight = Nobody
    <3> DEFINE n == [r EXCEPT !.attempt = @ + 1, !.at = "shared", !.entry = e]
    <3>1. n = [m EXCEPT !.at = "shared", !.entry = e] /\ n.at = "shared" /\ n.token = r.token
          /\ n.rejected = r.rejected /\ n.entry = e
        BY <1>1 DEF RequestRecord
    <3>2. request' = [request EXCEPT ![q] = n]
        BY <2>2, <2>9, <3>1
    <3> HIDE DEF n, m, r
    <3>3. e = 0 \/ ~Usable(heap[e].access)
        BY <2>4, <2>9
    <3>4. QED
        BY <2>1, <2>5, <3>1, <3>2, <3>3, OneMovesLocally DEF r
  <2>10. QED
      BY <2>6, <2>7, <2>8, <2>9
<1>7. CASE Exhaust(q)
  <2>1. r.attempt < MaxAttempts
      BY <1>1, <1>7, SpentFacts DEF Exhaust
  <2>2. QED
      BY <1>1, <1>7, <2>1 DEF Exhaust, TokenCacheAssumption
<1>8. CASE ReadShared(q)
  <2> DEFINE n == [r EXCEPT !.at = "read", !.token = 0]
  <2>1. request' = [request EXCEPT ![q] = n] /\ UNCHANGED <<cacheVars, minted, expired, shared, orders>>
      BY <1>2, <1>8 DEF ReadShared
  <2>2. n.at = "read" /\ n.token = 0 /\ n.rejected = r.rejected /\ n.entry = r.entry
      BY <1>1 DEF RequestRecord
  <2> HIDE DEF n
  <2>3. QED
      BY <2>1, <2>2, OneMovesLocally
<1>9. CASE Unanswered(q) \/ Throttled(q)
  <2>1. /\ UNCHANGED <<cacheVars, minted, expired, shared, orders>>
        /\ \E n \in {[r EXCEPT !.at = "acquire", !.net = r.net - 1],
                     [r EXCEPT !.at = "acquire", !.rate = r.rate - 1],
                     [NewRequest EXCEPT !.at = "failed"]} : request' = [request EXCEPT ![q] = n]
      BY <1>2, <1>9 DEF Unanswered, Throttled
  <2>2. ASSUME NEW n \in {[r EXCEPT !.at = "acquire", !.net = r.net - 1],
                          [r EXCEPT !.at = "acquire", !.rate = r.rate - 1]}
        PROVE  n.at = "acquire" /\ n.token = r.token /\ n.rejected = r.rejected /\ n.entry = r.entry
      BY <1>1, <2>2 DEF RequestRecord
  <2>3. ASSUME NEW n \in {[r EXCEPT !.at = "acquire", !.net = r.net - 1],
                          [r EXCEPT !.at = "acquire", !.rate = r.rate - 1]},
               request' = [request EXCEPT ![q] = n]
        PROVE  LocalIInv'
    <3>1. n.at = "acquire" /\ n.token = r.token /\ n.rejected = r.rejected /\ n.entry = r.entry
        BY <2>2, <2>3
    <3>2. QED
        BY <2>1, <2>3, <3>1, OneMovesLocally
  <2>4. QED
      BY <1>4, <2>1, <2>3
<1>10. QED
    BY <1>5, <1>6, <1>7, <1>8, <1>9

\* A process takes an entry into its map: what this does to the tokens of the entries.
Placed(s, e, g) ==
    /\ \A f \in Entries : heap'[f].access \in {0, g[f].access}
    /\ cached'[s] = e /\ heap'[e].access = g[e].access
    /\ \A u \in Servers : u # s => cached'[u] = cached[u]
            /\ (cached[u] # 0 => heap'[cached[u]].access = heap[cached[u]].access)
    /\ \A q \in Requests : request'[q].entry \in Entries =>
            heap'[request'[q].entry].access = g[request'[q].entry].access

LEMMA AccessMoves ==
    ASSUME TokenCacheAssumption, TokenIInv, NEW s \in Servers, NEW e \in Entries,
           NEW g \in [Entries -> CacheEntry],
           \A u \in Servers : Holds(u, e) => u = s,
           cached' = [cached EXCEPT ![s] = e], heap' = Kept(g),
           \A f \in Entries \ {e} : g[f].access = heap[f].access
    PROVE  Placed(s, e, g)
<1>1. Kept(g) \in [Entries -> CacheEntry] /\ \A f \in Entries : Kept(g)[f] \in {g[f], NoEntry}
    BY KeptFacts
<1>2. cached'[s] = e /\ \A u \in Servers : u # s => cached'[u] = cached[u] /\ cached[u] # e
    BY InvGood DEF HeapTyped, Holds
<1>3. NoEntry.access = 0
    BY DEF NoEntry
<1>4. \A u \in Servers : cached[u] \in Entries \cup {0}
    BY NumberFacts
<1>5. \A u \in Servers : cached'[u] \in Entries => heap'[cached'[u]] = g[cached'[u]]
    BY KeptFacts
<1>6. \A q \in Requests : request'[q].entry \in Entries => heap'[request'[q].entry] = g[request'[q].entry]
    BY KeptFacts
<1>7. \A f \in Entries : heap'[f].access \in {0, g[f].access}
    BY <1>1, <1>3
<1>8. \A u \in Servers : u # s /\ cached[u] # 0 => heap'[cached[u]].access = heap[cached[u]].access
    BY <1>2, <1>4, <1>5
<1>9. heap'[e].access = g[e].access
    BY <1>2, <1>5
<1>10. QED
    BY <1>2, <1>6, <1>7, <1>8, <1>9 DEF Placed

\* A refresh is started: its entry hands out no token, and no token is new.
HandsOutNothing(q, e, held) ==
    /\ held \in CacheEntry /\ ~Usable(held.access) /\ held.access \in {0, heap[e].access}
    /\ \A u \in Servers : Holds(u, e) => u = ServerOf[q]
    /\ \A p \in Requests : request[p].entry = e => held.access = heap[e].access
Awaits(q, n) ==
    /\ n.entry \in {0, request[q].entry} /\ n.token = 0 /\ n.at \notin {"send", "read"}
    /\ \A t \in n.rejected : t = request[q].token \/ t \in request[q].rejected

LEMMA StashedLocally ==
    ASSUME TokenCacheAssumption, TokenIInv, LocalIInv, NEW q \in Requests, NEW e \in Entries,
           NEW held, NEW n, HandsOutNothing(q, e, held), Stashed(q, e, held), Awaits(q, n),
           request' = [request EXCEPT ![q] = n], UNCHANGED <<minted, expired, shared, orders>>
    PROVE  LocalIInv'
<1> USE DEF HandsOutNothing, Awaits
<1> DEFINE s == ServerOf[q]
           g == [heap EXCEPT ![e] = [access |-> held.access, inflight |-> q]]
<1>0. s \in Servers /\ HeapTyped /\ RequestsGood
    BY InvGood DEF TokenCacheAssumption
<1>1. g \in [Entries -> CacheEntry] /\ g[e].access = held.access /\ \A f \in Entries \ {e} : g[f] = heap[f]
    BY <1>0 DEF HeapTyped, CacheEntry
<1>2. cached' = [cached EXCEPT ![s] = e] /\ heap' = Kept(g)
      /\ refresh' = [refresh EXCEPT ![q] = [at |-> "asked", token |-> 0]]
    BY DEF Stashed
<1> HIDE DEF g, s
<1>3. /\ \A f \in Entries : heap'[f].access \in {0, g[f].access}
      /\ cached'[s] = e /\ heap'[e].access = held.access
      /\ \A u \in Servers : u # s => cached'[u] = cached[u]
              /\ (cached[u] # 0 => heap'[cached[u]].access = heap[cached[u]].access)
      /\ \A p \in Requests : request'[p].entry \in Entries =>
              heap'[request'[p].entry].access = g[request'[p].entry].access
  <2>1. \A u \in Servers : Holds(u, e) => u = s
      BY DEF s
  <2>2. \A f \in Entries \ {e} : g[f].access = heap[f].access
      BY <1>1
  <2>3. g \in [Entries -> CacheEntry] /\ s \in Servers
      BY <1>0, <1>1
  <2>4. Placed(s, e, g)
      BY <1>2, <2>1, <2>2, <2>3, AccessMoves
  <2>5. QED
      BY <1>1, <2>4 DEF Placed
<1>4. request'[q] = n /\ \A p \in Requests : p # q => request'[p] = request[p]
    BY <1>0 DEF RequestsGood
<1>5. \A f \in Entries : heap'[f].access \in {0, heap[f].access}
    BY <1>1, <1>3
<1>6. refresh'[q].at = "asked" /\ refresh'[q].token = 0 /\ \A p \in Requests : p # q => refresh'[p] = refresh[p]
    BY <1>0, <1>2 DEF HeapTyped
<1>7. \A t : t > 0 /\ t \in Nat /\ Known(t)' => Known(t)
  <2> SUFFICES ASSUME NEW t, t > 0, t \in Nat, Known(t)'
               PROVE  Known(t)
      OBVIOUS
  <2>1. CASE \E f \in Entries : heap'[f].access = t
      BY <1>5, <2>1 DEF Known
  <2>2. CASE t \in n.rejected
      BY <2>2 DEF Known
  <2>3. CASE \E p \in Requests : p # q /\ (request'[p].token = t \/ t \in request'[p].rejected)
      BY <1>4, <2>3 DEF Known
  <2>4. QED
      BY <1>4, <2>1, <2>2, <2>3 DEF Known
<1>8. MintedIsNew'
  <2> SUFFICES ASSUME NEW p \in Requests, refresh'[p].at = "minted"
               PROVE  Unseen(p)'
      BY DEF MintedIsNew
  <2>1. p # q /\ refresh'[p] = refresh[p]
      BY <1>6
  <2>2. refresh[p].token > 0 /\ refresh[p].token \in Nat /\ ~Known(refresh[p].token)
        /\ \A u \in Requests : u # p => refresh[u].token # refresh[p].token
      BY <2>1, NumberFacts DEF LocalIInv, MintedIsNew, Unseen
  <2>3. QED
      BY <1>6, <1>7, <2>1, <2>2 DEF Unseen
<1>9. TokensAreMinted'
  <2>1. \A t \in n.rejected : t <= minted
      BY DEF LocalIInv, TokensAreMinted
  <2>2. \A f \in Entries : heap'[f].access <= minted
      BY <1>5, NumberFacts DEF LocalIInv, TokensAreMinted
  <2>3. 0 <= minted
      BY NumberFacts
  <2>4. \A p \in Requests : request'[p].token <= minted /\ refresh'[p].token <= minted
                            /\ \A t \in request'[p].rejected : t <= minted
      BY <1>4, <1>6, <2>1, <2>3 DEF LocalIInv, TokensAreMinted
  <2>5. QED
      BY <2>2, <2>4 DEF TokensAreMinted
<1>10. CachedNotRejected'
  <2> SUFFICES ASSUME NEW p \in Requests, cached'[ServerOf[p]] # 0, heap'[cached'[ServerOf[p]]].access > expired
               PROVE  heap'[cached'[ServerOf[p]]].access \notin request'[p].rejected
      BY DEF CachedNotRejected, Usable
  <2>1. ServerOf[p] # s
      BY <1>3 DEF Usable
  <2>2. p # q /\ ServerOf[p] \in Servers
      BY <2>1, NumberFacts DEF s
  <2>3. cached'[ServerOf[p]] = cached[ServerOf[p]] /\ heap'[cached[ServerOf[p]]].access = heap[cached[ServerOf[p]]].access
      BY <1>3, <2>1, <2>2
  <2>4. QED
      BY <1>4, <2>2, <2>3 DEF LocalIInv, CachedNotRejected, Usable
<1>11. HeldIsOld'
  <2> SUFFICES ASSUME NEW p \in Requests, request'[p].entry # 0
               PROVE  ~(heap'[request'[p].entry].access > expired)
      BY DEF HeldIsOld, Usable
  <2>1. request'[p].entry = request[p].entry
      BY <1>4
  <2>2. request[p].entry \in Entries /\ ~(heap[request[p].entry].access > expired)
      BY <2>1, NumberFacts DEF LocalIInv, HeldIsOld, Usable
  <2>3. heap'[request[p].entry].access = g[request[p].entry].access
      BY <1>3, <2>1, <2>2
  <2>4. g[request[p].entry].access = heap[request[p].entry].access
      BY <1>1, <2>2
  <2>5. QED
      BY <2>1, <2>2, <2>3, <2>4
<1>12. NothingShared' /\ NeverReplaysRejected'
    BY <1>4 DEF LocalIInv, NothingShared, NeverReplaysRejected
<1>13. QED
    BY <1>8, <1>9, <1>10, <1>11, <1>12 DEF LocalIInv

\* A refresh starts on a new entry or on the one getToken saw, whose token is too old;
\* the one a 401 forces starts on a new entry.
LEMMA StartRefreshLocally ==
    ASSUME TokenCacheAssumption, TokenIInv, LocalIInv, NEW q \in Requests, StartRefresh(q)
    PROVE  LocalIInv'
<1> DEFINE r == request[q]
           e == r.entry
           n == [r EXCEPT !.at = "waiting", !.on = q, !.token = 0, !.entry = 0]
<1>1. HeapTyped /\ r \in RequestRecord
    BY InvGood DEF RequestsGood
<1>2. request' = [request EXCEPT ![q] = n] /\ UNCHANGED <<minted, expired, shared, orders>>
    BY DEF StartRefresh, clockVars
<1>3. n.at = "waiting" /\ n.token = 0 /\ n.rejected = r.rejected /\ n.entry = 0
    BY <1>1 DEF RequestRecord
<1> HIDE DEF n
<1>7. Awaits(q, n)
    BY <1>3 DEF Awaits
<1>4. CASE e = 0
  <2>1. Stashed(q, Fresh, NoEntry)
      BY <1>4 DEF StartRefresh
  <2>2. NoEntry \in CacheEntry /\ NoEntry.access = 0 /\ ~Usable(NoEntry.access)
      BY NumberFacts DEF NoEntry, CacheEntry, Tokens, TokenCacheAssumption
  <2>3. Fresh \in Entries /\ \A p \in Requests : request[p].entry # Fresh
      BY FreshFacts DEF TokenIInv
  <2>4. HandsOutNothing(q, Fresh, NoEntry)
      BY <2>2, <2>3, FreshIsFree DEF HandsOutNothing
  <2>5. QED
      BY <1>2, <1>7, <2>1, <2>3, <2>4, StashedLocally
<1>5. CASE e # 0
  <2>1. e \in Entries /\ Stashed(q, e, heap[e]) /\ heap[e] \in CacheEntry
      BY <1>1, <1>5 DEF StartRefresh, RequestRecord, HeapTyped
  <2>2. Holds(ServerOf[q], e) /\ ServerOf[q] \in Servers
      BY DEF Holds, TokenCacheAssumption
  <2>3. \A u \in Servers : Holds(u, e) => u = ServerOf[q]
      BY <2>1, <2>2 DEF TokenIInv, EntriesOK, EntryOfOne
  <2>4. ~Usable(heap[e].access)
      BY <1>5 DEF LocalIInv, HeldIsOld
  <2>5. HandsOutNothing(q, e, heap[e])
      BY <2>1, <2>3, <2>4 DEF HandsOutNothing
  <2> HIDE DEF e
  <2>6. QED
      BY <1>2, <1>7, <2>1, <2>5, StashedLocally
<1>6. QED
    BY <1>4, <1>5

LEMMA RejectedLocally ==
    ASSUME TokenCacheAssumption, ~Redis, TokenIInv, LocalIInv, NEW q \in Requests, Rejected(q)
    PROVE  LocalIInv'
<1> DEFINE r == request[q]
           n == [r EXCEPT !.at = "forced", !.on = q, !.token = 0, !.auth = @ - 1,
                          !.rejected = @ \cup {r.token}]
<1>1. r \in RequestRecord
    BY InvGood DEF RequestsGood
<1>2. request' = [request EXCEPT ![q] = n] /\ UNCHANGED <<minted, expired, shared, orders>>
      /\ Stashed(q, Fresh, NoEntry)
    BY DEF Rejected, clockVars, Order
<1>3. n.at = "forced" /\ n.token = 0 /\ n.rejected = r.rejected \cup {r.token} /\ n.entry = r.entry
    BY <1>1 DEF RequestRecord
<1> HIDE DEF n
<1>4. NoEntry \in CacheEntry /\ NoEntry.access = 0 /\ ~Usable(NoEntry.access)
    BY NumberFacts DEF NoEntry, CacheEntry, Tokens, TokenCacheAssumption
<1>5. Fresh \in Entries /\ \A p \in Requests : request[p].entry # Fresh
    BY FreshFacts DEF TokenIInv
<1>6. HandsOutNothing(q, Fresh, NoEntry)
    BY <1>4, <1>5, FreshIsFree DEF HandsOutNothing
<1>7. Awaits(q, n)
    BY <1>3 DEF Awaits
<1>8. QED
    BY <1>2, <1>5, <1>6, <1>7, StashedLocally

\* There is no shared token to take.
LEMMA NoSharedHit ==
    ASSUME TokenCacheAssumption, TokenIInv, LocalIInv, NEW q \in Requests
    PROVE  ~SharedHit(q)
BY NumberFacts DEF SharedHit, LocalIInv, NothingShared

\* The requests that go on with the token of a refresh keep all they hold.
LEMMA ResumedLocally ==
    ASSUME TokenCacheAssumption, TokenIInv, NEW q \in Requests, NEW t \in Tokens, t # 0,
           request' = Resumed(q, t), NEW p \in Requests
    PROVE  /\ request'[p].rejected = request[p].rejected /\ request'[p].entry = request[p].entry
           /\ request'[p].token \in {request[p].token, t}
           /\ request'[p].at \in {"read", "send"} => request'[p] = request[p] \/ request'[p].token = t
           /\ request'[p].at = "read" => request'[p] = request[p]
<1> DEFINE r == request[p]
<1>1. r \in RequestRecord /\ RequestOK(r) /\ Nobody \notin Requests
    BY InvGood DEF RequestsGood, RequestsOK, TokenCacheAssumption
<1>2. CASE r.on # q
    BY <1>2 DEF Resumed
<1>3. CASE r.on = q /\ r.at = "forced"
  <2>1. request'[p] = [r EXCEPT !.at = "acquire", !.on = Nobody]
      BY <1>3 DEF Resumed
  <2> HIDE DEF r
  <2>2. request'[p].rejected = r.rejected /\ request'[p].entry = r.entry /\ request'[p].token = r.token
        /\ request'[p].at = "acquire"
      BY <1>1, <2>1 DEF RequestRecord
  <2>3. QED
      BY <2>2 DEF r
<1>4. CASE r.on = q /\ r.at # "forced"
  <2>1. request'[p] = [r EXCEPT !.at = "send", !.on = Nobody, !.token = t]
      BY <1>4 DEF Resumed
  <2> HIDE DEF r
  <2>2. request'[p].rejected = r.rejected /\ request'[p].entry = r.entry /\ request'[p].token = t
        /\ request'[p].at = "send"
      BY <1>1, <2>1 DEF RequestRecord
  <2>3. QED
      BY <2>2 DEF r
<1>5. QED
    BY <1>2, <1>3, <1>4

\* A refresh brings a token that no request saw rejected, and its process hands it out.
LEMMA RefreshedLocally ==
    ASSUME TokenCacheAssumption, ~Redis, TokenIInv, LocalIInv, NEW q \in Requests, Refreshed(q)
    PROVE  LocalIInv'
<1> DEFINE s == ServerOf[q]
           e == Fresh
           t == refresh[q].token
           h == [heap EXCEPT ![e] = [access |-> t, inflight |-> Nobody]]
           g == Cleared(h, q, e)
<1>0. s \in Servers /\ HeapTyped /\ 0 \notin Entries
    BY InvGood, NumberFacts DEF TokenCacheAssumption
<1>1. t > 0 /\ t \in Tokens /\ t \in Nat /\ ~Known(t) /\ t <= minted
      /\ \A p \in Requests : p # q => refresh[p].token # t
    BY <1>0, NumberFacts DEF Refreshed, LocalIInv, MintedIsNew, Unseen, TokensAreMinted, HeapTyped, RefreshRecord
<1>2. e \in Entries /\ e # 0 /\ (\A u \in Servers : Holds(u, e) => u = s)
      /\ \A p \in Requests : request[p].entry # e
    BY <1>0, FreshIsFree, FreshFacts DEF TokenIInv
<1>3. cached' = [cached EXCEPT ![s] = e] /\ request' = Resumed(q, t) /\ heap' = Kept(g)
      /\ refresh' = [refresh EXCEPT ![q] = NoRefresh]
      /\ minted' = minted /\ expired' = expired /\ shared' = shared /\ orders' = orders
    BY DEF Refreshed, Order, clockVars
<1> HIDE DEF e, s, t
<1>4. h \in [Entries -> CacheEntry] /\ h[e].access = t /\ \A f \in Entries \ {e} : h[f] = heap[f]
    BY <1>0, <1>1, <1>2 DEF HeapTyped, CacheEntry
<1> HIDE DEF h
<1>5. g \in [Entries -> CacheEntry] /\ g[e].access = t /\ \A f \in Entries \ {e} : g[f].access = heap[f].access
    BY <1>2, <1>4, ClearedFacts
<1> HIDE DEF g
<1>6. Placed(s, e, g)
    BY <1>0, <1>2, <1>3, <1>5, AccessMoves
<1>7. \A p \in Requests :
           /\ request'[p].rejected = request[p].rejected /\ request'[p].entry = request[p].entry
           /\ request'[p].token \in {request[p].token, t}
           /\ request'[p].at \in {"read", "send"} => request'[p] = request[p] \/ request'[p].token = t
           /\ request'[p].at = "read" => request'[p] = request[p]
    BY <1>1, <1>3, ResumedLocally
<1>8. refresh'[q].at = "none" /\ refresh'[q].token = 0 /\ \A p \in Requests : p # q => refresh'[p] = refresh[p]
    BY <1>0, <1>3 DEF HeapTyped, NoRefresh
<1>9. \A f \in Entries : heap'[f].access \in {0, heap[f].access, t}
  <2> SUFFICES ASSUME NEW f \in Entries
               PROVE  heap'[f].access \in {0, heap[f].access, t}
      OBVIOUS
  <2>1. heap'[f].access \in {0, g[f].access}
      BY <1>6 DEF Placed
  <2>2. QED
      BY <1>5, <2>1
<1>10. \A v : v > 0 /\ v \in Nat /\ Known(v)' => v = t \/ Known(v)
  <2> SUFFICES ASSUME NEW v, v > 0, v \in Nat, Known(v)', v # t
               PROVE  Known(v)
      OBVIOUS
  <2>1. CASE \E f \in Entries : heap'[f].access = v
      BY <1>9, <2>1 DEF Known
  <2>2. CASE \E p \in Requests : request'[p].token = v \/ v \in request'[p].rejected
      BY <1>7, <2>2 DEF Known
  <2>3. QED
      BY <2>1, <2>2 DEF Known
<1>11. MintedIsNew'
  <2> SUFFICES ASSUME NEW p \in Requests, refresh'[p].at = "minted"
               PROVE  Unseen(p)'
      BY DEF MintedIsNew
  <2>1. p # q /\ refresh'[p] = refresh[p]
      BY <1>8
  <2>2. refresh[p].token > 0 /\ refresh[p].token \in Nat /\ ~Known(refresh[p].token)
        /\ \A u \in Requests : u # p => refresh[u].token # refresh[p].token
      BY <2>1, NumberFacts DEF LocalIInv, MintedIsNew, Unseen
  <2>3. ~Known(refresh[p].token)'
      BY <1>1, <1>10, <2>1, <2>2
  <2>4. QED
      BY <1>8, <2>1, <2>2, <2>3 DEF Unseen
<1>12. TokensAreMinted'
  <2>1. \A f \in Entries : heap'[f].access <= minted
      BY <1>1, <1>9, NumberFacts DEF LocalIInv, TokensAreMinted
  <2>2. \A p \in Requests : request'[p].token <= minted /\ refresh'[p].token <= minted
                            /\ \A v \in request'[p].rejected : v <= minted
      BY <1>1, <1>7, <1>8, NumberFacts DEF LocalIInv, TokensAreMinted
  <2>3. QED
      BY <1>3, <2>1, <2>2 DEF TokensAreMinted
<1>13. \A p \in Requests : t \notin request[p].rejected
    BY <1>1 DEF Known
<1>14. CachedNotRejected'
  <2> SUFFICES ASSUME NEW p \in Requests, cached'[ServerOf[p]] # 0, heap'[cached'[ServerOf[p]]].access > expired'
               PROVE  heap'[cached'[ServerOf[p]]].access \notin request'[p].rejected
      BY DEF CachedNotRejected, Usable
  <2>1. CASE ServerOf[p] = s
    <3>1. heap'[cached'[ServerOf[p]]].access = t
        BY <1>5, <1>6, <2>1 DEF Placed
    <3>2. QED
        BY <1>7, <1>13, <3>1
  <2>2. CASE ServerOf[p] # s
    <3>1. ServerOf[p] \in Servers
        BY NumberFacts
    <3>2. cached'[ServerOf[p]] = cached[ServerOf[p]]
          /\ heap'[cached[ServerOf[p]]].access = heap[cached[ServerOf[p]]].access
        BY <1>6, <2>2, <3>1 DEF Placed
    <3>3. QED
        BY <1>3, <1>7, <3>2 DEF LocalIInv, CachedNotRejected, Usable
  <2>3. QED
      BY <2>1, <2>2
<1>15. HeldIsOld'
  <2> SUFFICES ASSUME NEW p \in Requests, request'[p].entry # 0
               PROVE  ~(heap'[request'[p].entry].access > expired')
      BY DEF HeldIsOld, Usable
  <2>1. request'[p].entry = request[p].entry /\ request[p].entry # e
      BY <1>2, <1>7
  <2>2. request[p].entry \in Entries /\ ~(heap[request[p].entry].access > expired)
      BY <2>1, NumberFacts DEF LocalIInv, HeldIsOld, Usable
  <2>3. heap'[request'[p].entry].access = g[request'[p].entry].access
      BY <1>6, <2>1, <2>2 DEF Placed
  <2>4. QED
      BY <1>3, <1>5, <2>1, <2>2, <2>3
<1>16. NothingShared'
    BY <1>3, <1>7 DEF LocalIInv, NothingShared
<1>17. NeverReplaysRejected'
    BY <1>7, <1>13 DEF LocalIInv, NeverReplaysRejected
<1>18. QED
    BY <1>11, <1>12, <1>14, <1>15, <1>16, <1>17 DEF LocalIInv

\* A refresh that fails takes no token from an entry and gives none.
LEMMA RefreshFailsLocally ==
    ASSUME TokenCacheAssumption, TokenIInv, LocalIInv, NEW q \in Requests, RefreshFails(q)
    PROVE  LocalIInv'
<1> DEFINE e == cached[ServerOf[q]]
           g == Cleared(heap, q, e)
           n == [NewRequest EXCEPT !.at = "failed"]
<1>1. HeapTyped /\ e \in Entries \cup {0}
    BY InvGood, NumberFacts
<1>2. heap' = g /\ cached' = cached /\ refresh' = [refresh EXCEPT ![q] = NoRefresh]
      /\ request' = Resumed(q, 0)
      /\ minted' = minted /\ expired' = expired /\ shared' = shared /\ orders' = orders
    BY DEF RefreshFails, clockVars
<1>3. \A f \in Entries : g[f].access = heap[f].access
    BY <1>1, ClearedFacts DEF HeapTyped
<1>4. n.at = "failed" /\ n.token = 0 /\ n.rejected = {} /\ n.entry = 0
    BY DEF NewRequest
<1>5. \A p \in Requests : request'[p] = request[p] \/ request'[p] = n
    BY <1>2 DEF Resumed
<1> HIDE DEF e, g, n
<1>6. refresh'[q].at = "none" /\ refresh'[q].token = 0 /\ \A p \in Requests : p # q => refresh'[p] = refresh[p]
    BY <1>1, <1>2 DEF HeapTyped, NoRefresh
<1>7. \A t : t > 0 /\ t \in Nat /\ Known(t)' => Known(t)
  <2> SUFFICES ASSUME NEW t, t > 0, t \in Nat, Known(t)'
               PROVE  Known(t)
      OBVIOUS
  <2>1. CASE \E f \in Entries : heap'[f].access = t
      BY <1>2, <1>3, <2>1 DEF Known
  <2>2. CASE \E p \in Requests : request'[p].token = t \/ t \in request'[p].rejected
      BY <1>4, <1>5, <2>2 DEF Known
  <2>3. QED
      BY <2>1, <2>2 DEF Known
<1>8. MintedIsNew'
  <2> SUFFICES ASSUME NEW p \in Requests, refresh'[p].at = "minted"
               PROVE  Unseen(p)'
      BY DEF MintedIsNew
  <2>1. p # q /\ refresh'[p] = refresh[p]
      BY <1>6
  <2>2. refresh[p].token > 0 /\ refresh[p].token \in Nat /\ ~Known(refresh[p].token)
        /\ \A u \in Requests : u # p => refresh[u].token # refresh[p].token
      BY <2>1, NumberFacts DEF LocalIInv, MintedIsNew, Unseen
  <2>3. QED
      BY <1>6, <1>7, <2>1, <2>2 DEF Unseen
<1>9. TokensAreMinted'
  <2>1. \A f \in Entries : heap'[f].access <= minted
      BY <1>2, <1>3 DEF LocalIInv, TokensAreMinted
  <2>2. \A p \in Requests : request'[p].token <= minted /\ refresh'[p].token <= minted
                            /\ \A v \in request'[p].rejected : v <= minted
      BY <1>4, <1>5, <1>6, NumberFacts DEF LocalIInv, TokensAreMinted
  <2>3. QED
      BY <1>2, <2>1, <2>2 DEF TokensAreMinted
<1>10. CachedNotRejected'
  <2> SUFFICES ASSUME NEW p \in Requests, cached[ServerOf[p]] # 0, heap'[cached[ServerOf[p]]].access > expired
               PROVE  heap'[cached[ServerOf[p]]].access \notin request'[p].rejected
      BY <1>2 DEF CachedNotRejected, Usable
  <2>1. cached[ServerOf[p]] \in Entries
      BY NumberFacts
  <2>2. heap'[cached[ServerOf[p]]].access = heap[cached[ServerOf[p]]].access
      BY <1>2, <1>3, <2>1
  <2>3. QED
      BY <1>4, <1>5, <2>2 DEF LocalIInv, CachedNotRejected, Usable
<1>11. HeldIsOld'
  <2> SUFFICES ASSUME NEW p \in Requests, request'[p].entry # 0
               PROVE  ~(heap'[request'[p].entry].access > expired)
      BY <1>2 DEF HeldIsOld, Usable
  <2>1. request'[p].entry = request[p].entry /\ request[p].entry \in Entries
      BY <1>4, <1>5, NumberFacts
  <2>2. heap'[request[p].entry].access = heap[request[p].entry].access
      BY <1>2, <1>3, <2>1
  <2>3. QED
      BY <2>1, <2>2 DEF LocalIInv, HeldIsOld, Usable
<1>12. NothingShared' /\ NeverReplaysRejected'
    BY <1>2, <1>4, <1>5 DEF LocalIInv, NothingShared, NeverReplaysRejected
<1>13. QED
    BY <1>8, <1>9, <1>10, <1>11, <1>12 DEF LocalIInv

\* A new token is above every one there was; time and 8vance only take tokens away.
LEMMA MintedLocally ==
    ASSUME TokenCacheAssumption, TokenIInv, LocalIInv, NEW q \in Requests, Mint(q)
    PROVE  LocalIInv'
<1>1. HeapTyped /\ heap' = heap /\ cached' = cached /\ request' = request /\ expired' = expired
      /\ shared' = shared /\ orders' = orders
    BY InvGood DEF Mint
<1>2. \A t : Known(t)' <=> Known(t)
    BY <1>1 DEF Known
<1>3. CachedNotRejected' /\ HeldIsOld' /\ NothingShared' /\ NeverReplaysRejected'
    BY <1>1 DEF LocalIInv, CachedNotRejected, HeldIsOld, NothingShared, NeverReplaysRejected, Usable
<1>4. minted' \in Nat /\ minted' >= minted
    BY NumberFacts DEF Mint
<1>5. CASE minted' = minted + 1 /\ refresh' = [refresh EXCEPT ![q] = [at |-> "minted", token |-> minted + 1]]
  <2>1. refresh'[q].token = minted + 1 /\ \A p \in Requests : p # q => refresh'[p] = refresh[p]
      BY <1>1, <1>5 DEF HeapTyped
  <2>2. ~Known(minted + 1) /\ \A p \in Requests : refresh[p].token # minted + 1
      BY NumberFacts DEF Known, LocalIInv, TokensAreMinted
  <2>3. TokensAreMinted'
    <3>1. \A f \in Entries : heap'[f].access <= minted'
        BY <1>1, <1>4, NumberFacts DEF LocalIInv, TokensAreMinted
    <3>2. \A p \in Requests : request'[p].token <= minted' /\ refresh'[p].token <= minted'
                              /\ \A v \in request'[p].rejected : v <= minted'
        BY <1>1, <1>4, <1>5, <2>1, NumberFacts DEF LocalIInv, TokensAreMinted
    <3>3. QED
        BY <3>1, <3>2 DEF TokensAreMinted
  <2>4. MintedIsNew'
    <3> SUFFICES ASSUME NEW p \in Requests, refresh'[p].at = "minted"
                 PROVE  Unseen(p)'
        BY DEF MintedIsNew
    <3>1. CASE p = q
        BY <1>2, <2>1, <2>2, <3>1, NumberFacts DEF Unseen
    <3>2. CASE p # q
      <4>1. refresh'[p] = refresh[p] /\ refresh[p].token # minted + 1
          BY <2>1, <2>2, <3>2
      <4>2. refresh[p].token > 0 /\ ~Known(refresh[p].token)
            /\ \A u \in Requests : u # p => refresh[u].token # refresh[p].token
          BY <4>1 DEF LocalIInv, MintedIsNew, Unseen
      <4>3. QED
          BY <1>2, <2>1, <4>1, <4>2 DEF Unseen
    <3>3. QED
        BY <3>1, <3>2
  <2>5. QED
      BY <1>3, <2>3, <2>4 DEF LocalIInv
<1>6. CASE minted' = minted /\ refresh' = [refresh EXCEPT ![q].at = "refused"]
  <2>1. \A p \in Requests : refresh'[p].token = refresh[p].token
      BY <1>1, <1>6 DEF HeapTyped, RefreshRecord
  <2>2. \A p \in Requests : refresh'[p].at = "minted" => refresh[p].at = "minted"
      BY <1>1, <1>6 DEF HeapTyped, RefreshRecord
  <2>3. TokensAreMinted'
      BY <1>1, <1>6, <2>1 DEF LocalIInv, TokensAreMinted
  <2>4. MintedIsNew'
    <3> SUFFICES ASSUME NEW p \in Requests, refresh'[p].at = "minted"
                 PROVE  Unseen(p)'
        BY DEF MintedIsNew
    <3>1. refresh[p].token > 0 /\ ~Known(refresh[p].token)
          /\ \A u \in Requests : u # p => refresh[u].token # refresh[p].token
        BY <2>2 DEF LocalIInv, MintedIsNew, Unseen
    <3>2. QED
        BY <1>2, <2>1, <3>1 DEF Unseen
  <2>5. QED
      BY <1>3, <2>3, <2>4 DEF LocalIInv
<1>7. QED
    BY <1>5, <1>6 DEF Mint

LEMMA OuterLocally ==
    ASSUME TokenCacheAssumption, TokenIInv, LocalIInv, Deliver \/ Expire \/ Revoke \/ UNCHANGED tokenVars
    PROVE  LocalIInv'
<1>1. ~Deliver
    BY DEF Deliver, LocalIInv, NothingShared
<1>2. heap' = heap /\ cached' = cached /\ refresh' = refresh /\ request' = request /\ minted' = minted
      /\ shared' = shared /\ orders' = orders
    BY <1>1 DEF Expire, Revoke, tokenVars, cacheVars, clockVars
<1>3. expired' \in Nat /\ expired' >= expired
    BY <1>1, NumberFacts DEF Expire, Revoke, tokenVars, clockVars
<1>4. MintedIsNew' /\ TokensAreMinted' /\ NothingShared' /\ NeverReplaysRejected'
    BY <1>2 DEF LocalIInv, MintedIsNew, Unseen, Known, TokensAreMinted, NothingShared, NeverReplaysRejected
<1>5. \A e \in Entries : heap[e].access > expired' => heap[e].access > expired
    BY <1>3, NumberFacts
<1>6. CachedNotRejected'
  <2> SUFFICES ASSUME NEW p \in Requests, cached[ServerOf[p]] # 0, heap[cached[ServerOf[p]]].access > expired'
               PROVE  heap[cached[ServerOf[p]]].access \notin request[p].rejected
      BY <1>2 DEF CachedNotRejected, Usable
  <2>1. cached[ServerOf[p]] \in Entries
      BY NumberFacts
  <2>2. QED
      BY <1>5, <2>1 DEF LocalIInv, CachedNotRejected, Usable
<1>7. HeldIsOld'
  <2> SUFFICES ASSUME NEW p \in Requests, request[p].entry # 0
               PROVE  ~(heap[request[p].entry].access > expired')
      BY <1>2 DEF HeldIsOld, Usable
  <2>1. request[p].entry \in Entries
      BY NumberFacts
  <2>2. QED
      BY <1>5, <2>1 DEF LocalIInv, HeldIsOld, Usable
<1>8. QED
    BY <1>4, <1>6, <1>7 DEF LocalIInv

LEMMA LocalStep ==
    ASSUME TokenCacheAssumption, BoundExceedsBudgets, ~Redis, TokenIInv, LocalIInv, [TokenNext]_tokenVars
    PROVE  LocalIInv'
<1>1. CASE \E q \in Requests : Call(q) \/ RequestStep(q)
  <2>1. PICK q \in Requests : Call(q) \/ RequestStep(q)
      BY <1>1
  <2>2. QED
      BY <2>1, QuietLocally, NoSharedHit, StartRefreshLocally, RejectedLocally,
         RefreshedLocally, RefreshFailsLocally, MintedLocally DEF RequestStep
<1>2. CASE Deliver \/ Expire \/ Revoke \/ UNCHANGED tokenVars
    BY <1>2, OuterLocally
<1>3. QED
    BY <1>1, <1>2 DEF TokenNext

\* In processes that share no token through Redis, a request never sends a token again
\* that 8vance rejected it with: not when other requests of the process refreshed, failed
\* or brought back an older entry over its awaits (request and invalidateToken).
THEOREM NeverReplays ==
    ASSUME TokenCacheAssumption, BoundExceedsBudgets, ~Redis
    PROVE  TokenSpec => []NeverReplaysRejected
<1>1. TokenInit => TokenIInv /\ LocalIInv
    BY InitToken, InitLocal
<1>2. (TokenIInv /\ LocalIInv) /\ [TokenNext]_tokenVars => (TokenIInv /\ LocalIInv)'
    BY TokenStep, LocalStep
<1>3. TokenIInv /\ LocalIInv => NeverReplaysRejected
    BY DEF LocalIInv
<1>4. QED
    BY <1>1, <1>2, <1>3, PTL DEF TokenSpec

(***************************************************************************)
(* The throttle of failed logins (lib/login-ratelimit.ts).                 *)
(***************************************************************************)

CONSTANTS Logins, MaxFailures, Window, Cooldown, Shared, MaxTime, MaxLogins, MaxFaults
VARIABLES memory, login, log, since, started, faults

\* Names it has in common with a module above stand for whatever the two need.
Login == INSTANCE LoginThrottle

Ascending(f) == \A i, j \in 1 .. Len(f) : i <= j => f[i] <= f[j]
Until(f, t) == \A i \in 1 .. Len(f) : f[i] <= t

Attempts == [failures : Seq(Nat), blockedUntil : Nat]
LoginShape ==
    [pc : Login!Stages, server : Servers \cup {0}, entry : Nat, at : Nat, count : Nat]
Keeping == {"ask", "gate", "count", "expire", "decide"}
After == {"count", "expire", "decide", "block"}

\* Every object of every server, in the map or not, keeps its failures in the order of time.
Remembers(m, t) ==
    /\ m \in [Servers -> Seq(Attempts)]
    /\ \A s \in Servers : Len(m[s]) > 0
    /\ \A s \in Servers : \A i \in 1 .. Len(m[s]) : Ascending(m[s][i].failures) /\ Until(m[s][i].failures, t)

ThrottleTypes ==
    /\ now \in Nat \ {0}
    /\ Remembers(memory, now)
    /\ store \in [count : Nat, expires : Nat, block : Nat]
    /\ login \in [Logins -> LoginShape]
    /\ \A l \in Logins : login[l].pc # "idle" => login[l].server \in Servers
    /\ \A l \in Logins : login[l].pc \in Keeping => login[l].entry \in 1 .. Len(memory[login[l].server])
    /\ \A l \in Logins : login[l].at <= now
    /\ log \in Seq(Nat) /\ since \in 0 .. Len(log)

-----------------------------------------------------------------------------
(* The failures of the window *)

\* A non-empty set of numbers has a least one.
LEMMA LeastOf ==
    ASSUME NEW T, T \subseteq Nat, T # {}
    PROVE  \E n \in T : \A k \in T : n <= k
<1> DEFINE R == OpToRel(<, Nat)
<1>1. IsWellFoundedOn(R, Nat)
    BY NatLessThanWellFounded
<1>2. \A j, k \in Nat : j < k => <<j, k>> \in R
    BY DEF OpToRel
<1> HIDE DEF R
<1>3. PICK n \in T : \A k \in T : ~(<<k, n>> \in R)
    BY <1>1, WFMin
<1>4. \A k \in T : k \in Nat /\ n \in Nat /\ ~(k < n)
    BY <1>2, <1>3
<1>5. \A k \in T : n <= k
    BY <1>4
<1> QED
    BY <1>3, <1>5

\* What prune drops is a first part of an ascending list.
LEMMA OldComeFirst ==
    ASSUME Window \in Nat, NEW f \in Seq(Nat), Ascending(f), NEW t \in Nat
    PROVE  \E n \in 1 .. Len(f) + 1 : \A k \in 1 .. Len(f) : k < n <=> Login!Old(f[k], t)
<1>1. Len(f) \in Nat /\ \A k \in 1 .. Len(f) : f[k] \in Nat
    OBVIOUS
<1> DEFINE T == {n \in 1 .. Len(f) + 1 : \A k \in 1 .. Len(f) : n <= k => ~Login!Old(f[k], t)}
<1>2. Len(f) + 1 \in T /\ T \subseteq Nat
    BY <1>1
<1>3. PICK n \in T : \A m \in T : n <= m
    BY <1>2, LeastOf
<1>4. \A k \in 1 .. Len(f) : n <= k => ~Login!Old(f[k], t)
    BY <1>3
<1>5. ASSUME NEW k \in 1 .. Len(f), k < n
      PROVE  Login!Old(f[k], t)
    <2>0. n \in 1 .. Len(f) + 1 /\ ~(n <= n - 1)
        BY <1>1, <1>3
    <2>1. n - 1 \in 1 .. Len(f) /\ n - 1 \notin T
        <3> HIDE DEF T
        <3> QED
            BY <1>1, <1>3, <1>5, <2>0
    <2>2. PICK j \in 1 .. Len(f) : n - 1 <= j /\ Login!Old(f[j], t)
        BY <2>1
    <2>3. j = n - 1
        BY <1>3, <1>4, <2>2
    <2>4. f[k] <= f[j]
        BY <1>5, <2>1, <2>3, <1>3 DEF Ascending
    <2>5. f[j] \in Nat /\ f[k] \in Nat /\ f[j] + Window < t
        BY <1>1, <1>5, <2>2 DEF Login!Old
    <2>6. \A x, y \in Nat : x <= y /\ y + Window < t => x + Window < t
        OBVIOUS
    <2> QED
        BY <2>4, <2>5, <2>6, Zenon DEF Login!Old
<1> QED
    BY <1>3, <1>4, <1>5

\* What prune keeps: a last part, in order, from the first time that is not old on.
LEMMA RecentFacts ==
    ASSUME Window \in Nat, NEW f \in Seq(Nat), Ascending(f), NEW t \in Nat
    PROVE  LET r == Login!Recent(f, t) IN
           /\ r \in Seq(Nat) /\ Len(r) <= Len(f)
           /\ \A i \in 1 .. Len(r) : r[i] = f[Len(f) - Len(r) + i]
           /\ \A i \in 1 .. Len(f) - Len(r) : f[i] + Window < t
<1> DEFINE Is(n) == \A k \in 1 .. Len(f) : k < n <=> Login!Old(f[k], t)
           n == CHOOSE m \in 1 .. Len(f) + 1 : Is(m)
<1>1. \E m \in 1 .. Len(f) + 1 : Is(m)
    BY OldComeFirst
<1>2. n \in 1 .. Len(f) + 1 /\ Is(n)
    <2> HIDE DEF Is
    <2> QED
        BY <1>1
<1>3. Login!Recent(f, t) = SubSeq(f, n, Len(f))
    BY DEF Login!Recent
<1> HIDE DEF n
<1> DEFINE r == SubSeq(f, n, Len(f))
<1>4. Len(f) \in Nat
    OBVIOUS
<1>5. /\ r \in Seq(Nat) /\ Len(r) = Len(f) - n + 1
      /\ \A i \in 1 .. Len(f) - n + 1 : r[i] = f[n + i - 1]
    BY <1>2, <1>4
<1> HIDE DEF r
<1>6. \A i \in 1 .. Len(r) : n + i - 1 = Len(f) - Len(r) + i
    BY <1>2, <1>4, <1>5
<1>7. \A i \in 1 .. Len(f) - Len(r) : i \in 1 .. Len(f) /\ i < n
    BY <1>2, <1>4, <1>5
<1>8. \A i \in 1 .. Len(r) : r[i] = f[Len(f) - Len(r) + i]
    BY <1>5, <1>6
<1>9. \A i \in 1 .. Len(f) - Len(r) : f[i] + Window < t
    BY <1>2, <1>7 DEF Login!Old
<1>10. Len(r) <= Len(f)
    BY <1>2, <1>4, <1>5
<1> QED
    BY <1>3, <1>5, <1>8, <1>9, <1>10 DEF r

\* Pruning keeps the order, and so does a failure at this time.
LEMMA RecentInOrder ==
    ASSUME Window \in Nat, NEW f \in Seq(Nat), Ascending(f), NEW t \in Nat, NEW u \in Nat, Until(f, u)
    PROVE  LET r == Login!Recent(f, t) IN
           r \in Seq(Nat) /\ Ascending(r) /\ Until(r, u)
<1> DEFINE r == Login!Recent(f, t)
<1>1. /\ r \in Seq(Nat) /\ Len(r) <= Len(f)
      /\ \A i \in 1 .. Len(r) : r[i] = f[Len(f) - Len(r) + i]
    BY RecentFacts
<1> HIDE DEF r
<1>2. \A i \in 1 .. Len(r) : Len(f) - Len(r) + i \in 1 .. Len(f)
    BY <1>1
<1>3. Ascending(r)
    <2> SUFFICES ASSUME NEW i \in 1 .. Len(r), NEW j \in 1 .. Len(r), i <= j
                 PROVE  r[i] <= r[j]
        BY DEF Ascending
    <2>1. Len(f) - Len(r) + i <= Len(f) - Len(r) + j
        BY <1>1
    <2> QED
        BY <1>1, <1>2, <2>1 DEF Ascending
<1>4. Until(r, u)
    BY <1>1, <1>2 DEF Until
<1> QED
    BY <1>1, <1>3, <1>4 DEF r

LEMMA AppendInOrder ==
    ASSUME NEW f \in Seq(Nat), Ascending(f), NEW u \in Nat, Until(f, u)
    PROVE  Append(f, u) \in Seq(Nat) /\ Ascending(Append(f, u)) /\ Until(Append(f, u), u)
<1> DEFINE g == Append(f, u)
<1>1. /\ g \in Seq(Nat) /\ Len(g) = Len(f) + 1 /\ g[Len(f) + 1] = u
      /\ \A i \in 1 .. Len(f) : g[i] = f[i]
    OBVIOUS
<1> HIDE DEF g
<1>2. \A i \in 1 .. Len(g) : i \in 1 .. Len(f) \/ i = Len(f) + 1
    BY <1>1
<1>3. Until(g, u)
    BY <1>1, <1>2 DEF Until
<1>4. Ascending(g)
    <2> SUFFICES ASSUME NEW i \in 1 .. Len(g), NEW j \in 1 .. Len(g), i <= j
                 PROVE  g[i] <= g[j]
        BY DEF Ascending
    <2>1. CASE j = Len(f) + 1
        BY <1>1, <1>3, <2>1 DEF Until
    <2>2. CASE j \in 1 .. Len(f)
        <3>1. i \in 1 .. Len(f)
            BY <1>1, <2>2
        <3> QED
            BY <1>1, <2>2, <3>1 DEF Ascending
    <2> QED
        BY <1>2, <2>1, <2>2
<1> QED
    BY <1>1, <1>3, <1>4 DEF g

-----------------------------------------------------------------------------
(* What a step of a login does to the objects, and where it goes. *)

LEMMA Rewritten ==
    ASSUME NEW m, NEW t \in Nat, Remembers(m, t), NEW s \in Servers, NEW i \in 1 .. Len(m[s]),
           NEW a \in Attempts, Ascending(a.failures), Until(a.failures, t),
           NEW w, w = [m EXCEPT ![s][i] = a]
    PROVE  /\ Remembers(w, t)
           /\ \A v \in Servers : Len(w[v]) = Len(m[v])
           /\ \A v \in Servers : \A j \in 1 .. Len(m[v]) : w[v][j] = IF v = s /\ j = i THEN a ELSE m[v][j]
<1> DEFINE q == [m[s] EXCEPT ![i] = a]
<1>1. m \in [Servers -> Seq(Attempts)] /\ m[s] \in Seq(Attempts)
    BY DEF Remembers
<1>2. /\ q \in Seq(Attempts) /\ Len(q) = Len(m[s])
      /\ \A j \in 1 .. Len(m[s]) : q[j] = IF j = i THEN a ELSE m[s][j]
    BY <1>1
<1> HIDE DEF q
<1>3. w = [m EXCEPT ![s] = q]
    BY DEF q
<1>4. w \in [Servers -> Seq(Attempts)] /\ \A v \in Servers : w[v] = IF v = s THEN q ELSE m[v]
    BY <1>1, <1>2, <1>3
<1>5. \A v \in Servers : Len(w[v]) = Len(m[v])
    BY <1>2, <1>4
<1>6. \A v \in Servers : \A j \in 1 .. Len(m[v]) : w[v][j] = IF v = s /\ j = i THEN a ELSE m[v][j]
    BY <1>2, <1>4
<1>7. Remembers(w, t)
    <2>1. \A v \in Servers : Len(w[v]) > 0
        BY <1>5 DEF Remembers
    <2>2. \A v \in Servers : \A j \in 1 .. Len(w[v]) : Ascending(w[v][j].failures) /\ Until(w[v][j].failures, t)
        BY <1>5, <1>6 DEF Remembers
    <2> QED
        BY <1>4, <2>1, <2>2 DEF Remembers
<1> QED
    BY <1>5, <1>6, <1>7

LEMMA Enlarged ==
    ASSUME NEW m, NEW t \in Nat, Remembers(m, t), NEW s \in Servers, NEW a \in Attempts, a.failures = <<>>,
           NEW w, w = [m EXCEPT ![s] = Append(@, a)]
    PROVE  /\ Remembers(w, t)
           /\ \A v \in Servers : Len(w[v]) = IF v = s THEN Len(m[v]) + 1 ELSE Len(m[v])
           /\ \A v \in Servers : \A j \in 1 .. Len(w[v]) : w[v][j] = IF j \in 1 .. Len(m[v]) THEN m[v][j] ELSE a
<1> DEFINE q == Append(m[s], a)
<1>1. m \in [Servers -> Seq(Attempts)] /\ m[s] \in Seq(Attempts) /\ \A v \in Servers : m[v] \in Seq(Attempts)
    BY DEF Remembers
<1>2. /\ q \in Seq(Attempts) /\ Len(q) = Len(m[s]) + 1
      /\ \A j \in 1 .. Len(m[s]) + 1 : q[j] = IF j \in 1 .. Len(m[s]) THEN m[s][j] ELSE a
    BY <1>1
<1> HIDE DEF q
<1>3. w = [m EXCEPT ![s] = q]
    BY DEF q
<1>4. w \in [Servers -> Seq(Attempts)] /\ \A v \in Servers : w[v] = IF v = s THEN q ELSE m[v]
    BY <1>1, <1>2, <1>3
<1>5. \A v \in Servers : Len(w[v]) = IF v = s THEN Len(m[v]) + 1 ELSE Len(m[v])
    BY <1>2, <1>4
<1>6. \A v \in Servers : \A j \in 1 .. Len(w[v]) : w[v][j] = IF j \in 1 .. Len(m[v]) THEN m[v][j] ELSE a
    BY <1>2, <1>4
<1>7. Remembers(w, t)
    <2>1. \A v \in Servers : Len(w[v]) > 0
        BY <1>1, <1>5 DEF Remembers
    <2>2. Ascending(a.failures) /\ Until(a.failures, t)
        BY DEF Ascending, Until
    <2>3. \A v \in Servers : \A j \in 1 .. Len(w[v]) : Ascending(w[v][j].failures) /\ Until(w[v][j].failures, t)
        BY <1>6, <2>2 DEF Remembers
    <2> QED
        BY <1>4, <2>1, <2>3 DEF Remembers
<1> QED
    BY <1>5, <1>6, <1>7

\* One object is written, by the rule of the step, or a new one joins the map.
LEMMA MemoryGoes ==
    ASSUME Login!ThrottleAssumption, ThrottleTypes, NEW l \in Logins, Login!LoginStep(l)
    PROVE  LET s == login[l].server IN
           /\ s \in Servers
           /\ \/ memory' = memory /\ ~Login!Succeeded(l)
              \/ \E i \in 1 .. Len(memory[s]), a \in Attempts :
                    /\ memory' = [memory EXCEPT ![s][i] = a]
                    /\ Ascending(a.failures) /\ Until(a.failures, now)
                    /\ \/ /\ Login!Pass(l)
                          /\ a.blockedUntil \in {0, login[l].count, memory[s][i].blockedUntil}
                          /\ Len(a.failures) <= Len(memory[s][i].failures)
                       \/ /\ Login!Failed(l)
                          /\ a.blockedUntil = memory[s][i].blockedUntil
                          /\ Len(a.failures) <= Len(memory[s][i].failures) + 1
                       \/ /\ Login!Decide(l) /\ i = login[l].entry /\ Login!TooMany(l)
                          /\ a = [failures |-> <<>>, blockedUntil |-> login[l].at + Cooldown]
                       \/ /\ Login!Succeeded(l) /\ i = Len(memory[s]) /\ a = Login!NoAttempt
              \/ /\ Login!Succeeded(l)
                 /\ memory' = [memory EXCEPT ![s] = Append(@, Login!NoAttempt)]
<1> DEFINE s == login[l].server
<1>1. /\ now \in Nat /\ login[l] \in LoginShape /\ Remembers(memory, now)
      /\ Window \in Nat /\ Cooldown \in Nat
    BY DEF ThrottleTypes, Login!ThrottleAssumption
<1>2. login[l].pc # "idle"
    BY DEF Login!LoginStep, Login!Ask, Login!Pass, Login!Failed, Login!Count, Login!Expire, Login!Decide,
           Login!Block, Login!Uncount, Login!Succeeded, Login!Clear, Login!Unblock
<1>3. s \in Servers /\ memory[s] \in Seq(Attempts) /\ Len(memory[s]) \in Nat /\ Len(memory[s]) > 0
    BY <1>1, <1>2 DEF ThrottleTypes, Remembers
<1>4. \A i \in 1 .. Len(memory[s]) :
         /\ memory[s][i] \in Attempts /\ memory[s][i].failures \in Seq(Nat) /\ memory[s][i].blockedUntil \in Nat
         /\ Ascending(memory[s][i].failures) /\ Until(memory[s][i].failures, now)
    <2>1. \A i \in 1 .. Len(memory[s]) : memory[s][i] \in Attempts
        BY <1>3
    <2>2. \A x \in Attempts : x.failures \in Seq(Nat) /\ x.blockedUntil \in Nat
        BY DEF Attempts
    <2>3. \A i \in 1 .. Len(memory[s]) :
             Ascending(memory[s][i].failures) /\ Until(memory[s][i].failures, now)
        BY <1>1, <1>3 DEF Remembers
    <2> QED
        BY <2>1, <2>2, <2>3
<1>5. <<>> \in Seq(Nat) /\ Ascending(<<>>) /\ Until(<<>>, now) /\ Len(<<>>) = 0
    BY DEF Ascending, Until
<1>6. Login!NoAttempt \in Attempts /\ Login!NoAttempt.failures = <<>> /\ Login!NoAttempt.blockedUntil = 0
    BY <1>5 DEF Login!NoAttempt, Attempts
<1>7. \A a \in Attempts, f \in Seq(Nat), b \in Nat :
         /\ [a EXCEPT !.failures = f] \in Attempts /\ [a EXCEPT !.failures = f].failures = f
         /\ [a EXCEPT !.failures = f].blockedUntil = a.blockedUntil
         /\ [a EXCEPT !.blockedUntil = b] \in Attempts /\ [a EXCEPT !.blockedUntil = b].blockedUntil = b
         /\ [a EXCEPT !.blockedUntil = b].failures = a.failures
    BY DEF Attempts
<1>8. CASE Login!Pass(l)
    <2> DEFINE i == login[l].entry
               m == memory[s][i]
               a == Login!Blocked(l)
               t == login[l].at
               r == Login!Recent(a.failures, t)
               w == [a EXCEPT !.failures = r]
    <2>1. i \in 1 .. Len(memory[s]) /\ t \in Nat /\ login[l].count \in Nat
        BY <1>1, <1>8 DEF Login!Pass, ThrottleTypes, Keeping, LoginShape
    <2>2. a \in Attempts /\ a.blockedUntil \in {login[l].count, m.blockedUntil} /\ a.failures = m.failures
        <3>1. m \in Attempts /\ Login!Attempt(l) = m
            BY <1>4, <2>1 DEF Login!Attempt
        <3>2. PICK b \in {login[l].count, m.blockedUntil} : a = [m EXCEPT !.blockedUntil = b]
            BY <3>1 DEF Login!Blocked
        <3>3. b \in Nat
            BY <1>4, <2>1, <3>2
        <3> HIDE DEF m, a
        <3>4. a \in Attempts /\ a.blockedUntil = b /\ a.failures = m.failures
            BY <3>1, <3>2, <3>3 DEF Attempts
        <3> QED
            BY <3>2, <3>4
    <2>3. memory' \in {[memory EXCEPT ![s][i] = Login!NoAttempt], [memory EXCEPT ![s][i] = w],
                       [memory EXCEPT ![s][i] = a]}
        BY <1>8 DEF Login!Pass, Login!Writes
    <2>4. m.failures \in Seq(Nat) /\ Ascending(m.failures) /\ Until(m.failures, now)
        BY <1>4, <2>1
    <2> HIDE DEF a, m
    <2>5. r \in Seq(Nat) /\ Ascending(r) /\ Until(r, now) /\ Len(r) <= Len(m.failures)
        BY <1>1, <2>1, <2>2, <2>4, RecentInOrder, RecentFacts
    <2> HIDE DEF r
    <2>6. w \in Attempts /\ w.failures = r /\ w.blockedUntil = a.blockedUntil
        BY <1>7, <2>2, <2>5
    <2> HIDE DEF w
    <2>7. /\ Len(<<>>) <= Len(m.failures) /\ Len(m.failures) <= Len(m.failures)
        BY <1>5, <2>4
    <2>8. PICK x \in {Login!NoAttempt, w, a} : memory' = [memory EXCEPT ![s][i] = x]
        BY <2>3
    <2>9. /\ x \in Attempts /\ Ascending(x.failures) /\ Until(x.failures, now)
          /\ x.blockedUntil \in {0, login[l].count, m.blockedUntil} /\ Len(x.failures) <= Len(m.failures)
        BY <1>5, <1>6, <2>2, <2>4, <2>5, <2>6, <2>7, <2>8
    <2> QED
        BY <1>3, <1>8, <2>1, <2>8, <2>9 DEF m
<1>9. CASE Login!Failed(l)
    <2> DEFINE i == Len(memory[s])
               m == memory[s][i]
               r == Login!Recent(m.failures, now)
               g == Append(r, now)
               x == [m EXCEPT !.failures = g]
    <2>1. i \in 1 .. Len(memory[s]) /\ m \in Attempts
        BY <1>3, <1>4
    <2>2. m.failures \in Seq(Nat) /\ Ascending(m.failures) /\ Until(m.failures, now)
        BY <1>4, <2>1
    <2>3. memory' = [memory EXCEPT ![s][i] = x]
        BY <1>9 DEF Login!Failed, Login!Newest
    <2> HIDE DEF m
    <2>4. r \in Seq(Nat) /\ Ascending(r) /\ Until(r, now) /\ Len(r) <= Len(m.failures)
        BY <1>1, <2>2, RecentInOrder, RecentFacts
    <2> HIDE DEF r
    <2>5. g \in Seq(Nat) /\ Ascending(g) /\ Until(g, now) /\ Len(g) = Len(r) + 1
        BY <1>1, <2>4, AppendInOrder
    <2> HIDE DEF g
    <2>6. x \in Attempts /\ x.failures = g /\ x.blockedUntil = m.blockedUntil
        BY <1>7, <2>1, <2>5
    <2>7. Len(x.failures) <= Len(m.failures) + 1
        BY <2>2, <2>4, <2>5, <2>6
    <2> HIDE DEF x
    <2> QED
        BY <1>3, <1>9, <2>1, <2>3, <2>5, <2>6, <2>7 DEF m
<1>10. CASE Login!Decide(l)
    <2> DEFINE x == [failures |-> <<>>, blockedUntil |-> login[l].at + Cooldown]
    <2>1. x \in Attempts /\ x.failures = <<>>
        BY <1>1, <1>5 DEF Attempts, LoginShape
    <2>2. login[l].entry \in 1 .. Len(memory[s])
        BY <1>10 DEF Login!Decide, ThrottleTypes, Keeping
    <2>3. \/ memory' = memory
          \/ Login!TooMany(l) /\ memory' = [memory EXCEPT ![s][login[l].entry] = x]
        BY <1>10 DEF Login!Decide, Login!Writes
    <2>4. ~Login!Succeeded(l)
        BY <1>10 DEF Login!Succeeded, Login!Decide
    <2> HIDE DEF x
    <2> QED
        BY <1>3, <1>5, <1>10, <2>1, <2>2, <2>3, <2>4 DEF x
<1>11. CASE Login!Succeeded(l)
    <2>1. \/ memory' = [memory EXCEPT ![s] = Append(@, Login!NoAttempt)]
          \/ memory' = [memory EXCEPT ![s][Len(memory[s])] = Login!NoAttempt]
        BY <1>11 DEF Login!Succeeded, Login!Newest
    <2>2. Len(memory[s]) \in 1 .. Len(memory[s])
        BY <1>3
    <2> QED
        BY <1>3, <1>5, <1>6, <1>11, <2>1, <2>2
<1>12. CASE \/ Login!Ask(l) \/ Login!Count(l) \/ Login!Expire(l) \/ Login!Block(l) \/ Login!Uncount(l)
            \/ Login!Clear(l) \/ Login!Unblock(l)
    BY <1>3, <1>12 DEF Login!Ask, Login!Count, Login!Expire, Login!Block, Login!Uncount, Login!Clear,
                       Login!Unblock, Login!Succeeded
<1> QED
    BY <1>8, <1>9, <1>10, <1>11, <1>12 DEF Login!LoginStep

\* Where a login goes next, and what it takes along.
Going(l, e) ==
    /\ e \in LoginShape /\ e.at <= now
    /\ e.pc # "idle" => e.server = login[l].server
    /\ e.pc \in Keeping => \/ login[l].pc \in Keeping /\ e.entry = login[l].entry
                           \/ e.entry = Len(memory[login[l].server])
    /\ e.pc \in {"ask", "gate"} => login[l].pc = "ask" /\ e.count \in {store.block, login[l].count}

LEMMA LoginGoes ==
    ASSUME ThrottleTypes, NEW l \in Logins, Login!LoginStep(l)
    PROVE  \E e : /\ login' = [login EXCEPT ![l] = e] /\ Going(l, e)
                  /\ e.pc \in After => \/ Login!Failed(l) /\ e.at = now
                                       \/ login[l].pc \in After /\ e.at = login[l].at
<1>1. /\ login \in [Logins -> LoginShape] /\ login[l] \in LoginShape /\ now \in Nat /\ login[l].at \in Nat
      /\ store \in [count : Nat, expires : Nat, block : Nat] /\ login[l].at <= now
      /\ memory \in [Servers -> Seq(Attempts)] /\ login[l].count \in Nat
    BY DEF ThrottleTypes, Remembers, LoginShape
<1>2. Login!NoLogin \in LoginShape /\ Login!NoLogin.pc = "idle" /\ Login!NoLogin.at = 0
    BY DEF Login!NoLogin, LoginShape, Login!Stages
<1> USE DEF Keeping, After
\* A login that keeps its object ...
<1>3. ASSUME NEW pc \in Login!Stages, NEW c \in Nat,
             pc = "gate" => login[l].pc = "ask" /\ c \in {store.block, login[l].count},
             pc # "gate" => pc \in After /\ login[l].pc \in {"count", "expire", "decide"}
      PROVE  LET e == [login[l] EXCEPT !.pc = pc, !.count = c]
             IN  Going(l, e) /\ (e.pc \in After => login[l].pc \in After /\ e.at = login[l].at)
    <2> DEFINE e == [login[l] EXCEPT !.pc = pc, !.count = c]
    <2>1. /\ e \in LoginShape /\ e.pc = pc /\ e.count = c /\ e.at = login[l].at
          /\ e.server = login[l].server /\ e.entry = login[l].entry
        BY <1>1 DEF LoginShape
    <2> HIDE DEF e
    <2>2. Going(l, e)
        BY <1>1, <1>3, <2>1 DEF Going
    <2>3. pc \in After => login[l].pc \in After
        BY <1>3
    <2>4. Going(l, e) /\ (e.pc \in After => login[l].pc \in After /\ e.at = login[l].at)
        BY <2>1, <2>2, <2>3
    <2> QED
        BY <2>4 DEF e
\* ... and one that lets go of it.
<1>4. ASSUME NEW pc \in {"verify", "uncount", "clear", "unblock"}
      PROVE  LET e == [Login!NoLogin EXCEPT !.pc = pc, !.server = login[l].server]
             IN  Going(l, e) /\ e.pc \notin After
    <2> DEFINE e == [Login!NoLogin EXCEPT !.pc = pc, !.server = login[l].server]
    <2>1. e \in LoginShape /\ e.pc = pc /\ e.at = 0 /\ e.server = login[l].server
        BY <1>1, <1>2 DEF LoginShape, Login!Stages
    <2> HIDE DEF e
    <2>2. Going(l, e) /\ e.pc \notin After
        BY <1>1, <2>1 DEF Going
    <2> QED
        BY <2>2 DEF e
<1>5. Going(l, Login!NoLogin) /\ Login!NoLogin.pc \notin After
    BY <1>1, <1>2 DEF Going
<1>6. \A pc : [login[l] EXCEPT !.pc = pc] = [login[l] EXCEPT !.pc = pc, !.count = login[l].count]
    BY <1>1 DEF LoginShape
<1>7. {"gate", "expire", "decide", "block"} \subseteq Login!Stages
    BY DEF Login!Stages
<1>8. CASE Login!Ask(l)
    <2>1. PICK c \in {store.block, login[l].count} :
            login' = [login EXCEPT ![l] = [login[l] EXCEPT !.pc = "gate", !.count = c]]
        BY <1>6, <1>8 DEF Login!Ask, Login!Goes
    <2>2. c \in Nat /\ login[l].pc = "ask"
        BY <1>1, <1>8 DEF Login!Ask
    <2> QED
        BY <1>3, <1>7, <2>1, <2>2
<1>9. CASE Login!Pass(l)
    BY <1>4, <1>5, <1>9 DEF Login!Pass, Login!Leaves, Login!Ends
<1>10. CASE Login!Failed(l)
    <2> DEFINE e == [pc |-> IF Shared THEN "count" ELSE "decide", server |-> login[l].server,
                     entry |-> Len(memory[login[l].server]), at |-> now, count |-> 0]
    <2>1. login' = [login EXCEPT ![l] = e] /\ login[l].pc = "verify"
        BY <1>10 DEF Login!Failed, Login!Newest
    <2>2. login[l].server \in Servers /\ Len(memory[login[l].server]) \in Nat
        BY <1>1, <2>1 DEF ThrottleTypes
    <2>3. e \in LoginShape /\ e.pc \in {"count", "decide"} /\ e.at = now /\ e.server = login[l].server
          /\ e.entry = Len(memory[login[l].server])
        BY <1>1, <1>7, <2>2 DEF LoginShape, Login!Stages
    <2> HIDE DEF e
    <2>4. Going(l, e)
        BY <1>1, <2>3 DEF Going
    <2> QED
        BY <1>10, <2>1, <2>3, <2>4
<1>11. CASE Login!Count(l) \/ Login!Expire(l)
    <2>1. \E pc \in {"expire", "decide"}, c \in {0, store.count + 1, login[l].count} :
            login' = [login EXCEPT ![l] = [login[l] EXCEPT !.pc = pc, !.count = c]]
        BY <1>6, <1>11 DEF Login!Count, Login!Expire, Login!Goes
    <2>2. PICK pc \in {"expire", "decide"}, c \in {0, store.count + 1, login[l].count} :
            login' = [login EXCEPT ![l] = [login[l] EXCEPT !.pc = pc, !.count = c]]
        BY <2>1
    <2>3. c \in Nat /\ login[l].pc \in {"count", "expire"} /\ pc \in Login!Stages
        BY <1>1, <1>7, <1>11 DEF Login!Count, Login!Expire
    <2> QED
        BY <1>3, <2>2, <2>3
<1>12. CASE Login!Decide(l)
    <2>1. \/ login' = [login EXCEPT ![l] = Login!NoLogin]
          \/ login' = [login EXCEPT ![l] = [login[l] EXCEPT !.pc = "block", !.count = login[l].count]]
        BY <1>6, <1>12 DEF Login!Decide, Login!Goes, Login!Ends
    <2>2. login[l].pc = "decide"
        BY <1>12 DEF Login!Decide
    <2>3. LET e == [login[l] EXCEPT !.pc = "block", !.count = login[l].count]
          IN  Going(l, e) /\ (e.pc \in After => login[l].pc \in After /\ e.at = login[l].at)
        <3>1. "block" \in Login!Stages /\ "block" \in After /\ "block" # "gate"
            BY <1>7
        <3> QED
            BY <1>1, <1>3, <2>2, <3>1
    <2> QED
        BY <1>5, <2>1, <2>3
<1>13. CASE Login!Block(l) \/ Login!Uncount(l) \/ Login!Succeeded(l) \/ Login!Unblock(l)
    BY <1>4, <1>5, <1>13 DEF Login!Block, Login!Uncount, Login!Succeeded, Login!Unblock, Login!Leaves, Login!Ends
<1>14. CASE Login!Clear(l)
    <2>1. PICK e \in {Login!NoLogin, [login[l] EXCEPT !.pc = "unblock"]} : login' = [login EXCEPT ![l] = e]
        BY <1>14 DEF Login!Clear, Login!Goes, Login!Ends
    <2>2. CASE e = [login[l] EXCEPT !.pc = "unblock"]
        <3>1. /\ e \in LoginShape /\ e.pc = "unblock" /\ e.at = login[l].at /\ e.server = login[l].server
            BY <1>1, <2>2 DEF LoginShape, Login!Stages
        <3>2. Going(l, e) /\ e.pc \notin After
            BY <1>1, <3>1 DEF Going
        <3> QED
            BY <2>1, <3>2
    <2> QED
        BY <1>5, <2>1, <2>2
<1> QED
    BY <1>8, <1>9, <1>10, <1>11, <1>12, <1>13, <1>14 DEF Login!LoginStep

\* The log, and what the store keeps.
LEMMA LogGoes ==
    ASSUME Login!ThrottleAssumption, ThrottleTypes, NEW l \in Logins, Login!LoginStep(l)
    PROVE  /\ now' = now /\ store' \in [count : Nat, expires : Nat, block : Nat]
           /\ \/ store'.block \in {0, store.block}
              \/ login[l].pc = "block" /\ store'.block = login[l].at + Cooldown
           /\ \/ Login!Failed(l) /\ log' = Append(log, now) /\ since' = since /\ store' = store
              \/ Login!Succeeded(l) /\ log' = log /\ since' = Len(log)
              \/ log' = log /\ since' = since
<1>1. /\ store \in [count : Nat, expires : Nat, block : Nat] /\ now + Window \in Nat
      /\ login[l].at + Cooldown \in Nat /\ store.count + 1 \in Nat
    BY DEF ThrottleTypes, Login!ThrottleAssumption, LoginShape
<1>2. \A b \in Nat, c \in Nat, x \in Nat :
        /\ [store EXCEPT !.block = b] \in [count : Nat, expires : Nat, block : Nat]
        /\ [store EXCEPT !.block = b].block = b
        /\ [store EXCEPT !.count = c, !.expires = x] \in [count : Nat, expires : Nat, block : Nat]
        /\ [store EXCEPT !.count = c, !.expires = x].block = store.block
        /\ [store EXCEPT !.count = c] \in [count : Nat, expires : Nat, block : Nat]
        /\ [store EXCEPT !.count = c].block = store.block
        /\ [store EXCEPT !.expires = x] \in [count : Nat, expires : Nat, block : Nat]
        /\ [store EXCEPT !.expires = x].block = store.block
    BY <1>1
<1>3. CASE Login!Pass(l) \/ Login!Failed(l) \/ Login!Decide(l) \/ Login!Succeeded(l) \/ Login!Ask(l)
    BY <1>1, <1>3 DEF Login!Pass, Login!Failed, Login!Decide, Login!Succeeded, Login!Ask
<1>4. CASE Login!Count(l)
    BY <1>1, <1>2, <1>4, ZenonT(60) DEF Login!Count
<1>5. CASE Login!Expire(l)
    BY <1>1, <1>2, <1>5, ZenonT(60) DEF Login!Expire
<1>6. CASE Login!Block(l) \/ Login!Unblock(l)
    BY <1>1, <1>2, <1>6 DEF Login!Block, Login!Unblock
<1>7. CASE Login!Uncount(l) \/ Login!Clear(l)
    BY <1>1, <1>2, <1>7, ZenonT(60) DEF Login!Uncount, Login!Clear
<1> QED
    BY <1>3, <1>4, <1>5, <1>6, <1>7 DEF Login!LoginStep

-----------------------------------------------------------------------------
(* Types *)

LEMMA ThrottleTypesStep ==
    ASSUME Login!ThrottleAssumption, ThrottleTypes, [Login!ThrottleNext]_Login!vars
    PROVE  ThrottleTypes'
<1>1. now \in Nat \ {0} /\ now \in Nat /\ Remembers(memory, now) /\ login \in [Logins -> LoginShape]
      /\ memory \in [Servers -> Seq(Attempts)] /\ log \in Seq(Nat) /\ since \in 0 .. Len(log)
      /\ store \in [count : Nat, expires : Nat, block : Nat]
    BY DEF ThrottleTypes, Remembers
<1>2. ASSUME NEW l \in Logins, Login!LoginStep(l)
      PROVE  ThrottleTypes'
    <2> DEFINE s == login[l].server
    <2>1. s \in Servers /\ now' = now
        BY <1>2, MemoryGoes, LogGoes
    <2>0. \A v \in Servers : Len(memory[v]) \in Nat /\ Len(memory[v]) > 0
        BY <1>1 DEF Remembers
    <2>2. Remembers(memory', now) /\ \A v \in Servers : Len(memory'[v]) \in Nat /\ Len(memory'[v]) >= Len(memory[v])
        <3>1. CASE memory' = memory
            BY <1>1, <2>0, <3>1
        <3>2. CASE \E i \in 1 .. Len(memory[s]), a \in Attempts :
                    /\ memory' = [memory EXCEPT ![s][i] = a]
                    /\ Ascending(a.failures) /\ Until(a.failures, now)
            <4>1. PICK i \in 1 .. Len(memory[s]), a \in Attempts :
                    /\ memory' = [memory EXCEPT ![s][i] = a]
                    /\ Ascending(a.failures) /\ Until(a.failures, now)
                BY <3>2
            <4>2. Remembers(memory', now) /\ \A v \in Servers : Len(memory'[v]) = Len(memory[v])
                <5>1. now \in Nat /\ Remembers(memory, now)
                    BY <1>1
                <5> HIDE DEF s
                <5> QED
                    BY <2>1, <4>1, <5>1, Rewritten DEF Remembers
            <4> QED
                BY <2>0, <4>2
        <3>3. CASE memory' = [memory EXCEPT ![s] = Append(@, Login!NoAttempt)]
            <4>1. Login!NoAttempt \in Attempts /\ Login!NoAttempt.failures = <<>>
                BY DEF Login!NoAttempt, Attempts
            <4>2. /\ Remembers(memory', now)
                  /\ \A v \in Servers : Len(memory'[v]) = IF v = s THEN Len(memory[v]) + 1 ELSE Len(memory[v])
                <5>1. now \in Nat /\ Remembers(memory, now)
                    BY <1>1
                <5> HIDE DEF s
                <5> DEFINE a == Login!NoAttempt
                <5> HIDE DEF a
                <5>2. memory' = [memory EXCEPT ![s] = Append(@, a)] /\ a \in Attempts /\ a.failures = <<>>
                    BY <3>3, <4>1 DEF a
                <5>3. s \in Servers
                    BY <2>1
                <5>4. /\ \A v \in Servers : Len(memory'[v]) = IF v = s THEN Len(memory[v]) + 1 ELSE Len(memory[v])
                      /\ \A v \in Servers : \A j \in 1 .. Len(memory'[v]) :
                            memory'[v][j] = IF j \in 1 .. Len(memory[v]) THEN memory[v][j] ELSE a
                    BY <5>1, <5>2, <5>3, Enlarged
                <5>5. memory' \in [Servers -> Seq(Attempts)]
                    BY <5>1, <5>2, <5>3 DEF Remembers
                <5>6. Ascending(a.failures) /\ Until(a.failures, now)
                    BY <5>2 DEF Ascending, Until
                <5>7. Remembers(memory', now)
                    <6>1. \A v \in Servers : Len(memory'[v]) > 0
                        BY <2>0, <5>4
                    <6>2. \A v \in Servers : \A j \in 1 .. Len(memory'[v]) :
                             Ascending(memory'[v][j].failures) /\ Until(memory'[v][j].failures, now)
                        BY <5>1, <5>4, <5>6 DEF Remembers
                    <6> QED
                        BY <5>5, <6>1, <6>2 DEF Remembers
                <5> QED
                    BY <5>4, <5>7
            <4> QED
                BY <2>0, <4>2
        <3> QED
            BY <1>2, <3>1, <3>2, <3>3, MemoryGoes
    <2>3. PICK e : login' = [login EXCEPT ![l] = e] /\ Going(l, e)
        BY <1>2, LoginGoes
    <2>4. e \in LoginShape /\ e.at <= now /\ (e.pc # "idle" => e.server = s)
          /\ (e.pc \in Keeping => \/ login[l].pc \in Keeping /\ e.entry = login[l].entry
                                  \/ e.entry = Len(memory[s]))
        BY <2>3 DEF Going
    <2>5. \A k \in Logins : login'[k] = IF k = l THEN e ELSE login[k]
        BY <1>1, <2>3
    <2>6. \A k \in Logins : login'[k].pc \in Keeping => login'[k].entry \in 1 .. Len(memory'[login'[k].server])
        <3> SUFFICES ASSUME NEW k \in Logins, login'[k].pc \in Keeping
                     PROVE  login'[k].entry \in 1 .. Len(memory'[login'[k].server])
            OBVIOUS
        <3>1. login'[k].pc # "idle"
            BY DEF Keeping
        <3>2. CASE k = l
            <4>1. login'[k].server = s /\ login'[k].entry \in 1 .. Len(memory[s])
                BY <2>0, <2>1, <2>2, <2>4, <2>5, <3>1, <3>2 DEF ThrottleTypes
            <4> QED
                BY <2>0, <2>1, <2>2, <4>1
        <3>3. CASE k # l
            <4>1. login'[k] = login[k] /\ login[k].server \in Servers
                  /\ login[k].entry \in 1 .. Len(memory[login[k].server])
                BY <2>5, <3>1, <3>3 DEF ThrottleTypes
            <4> QED
                BY <2>0, <2>2, <4>1
        <3> QED
            BY <3>2, <3>3
    <2>7. log' \in Seq(Nat) /\ since' \in 0 .. Len(log')
        <3>1. CASE log' = Append(log, now) /\ since' = since
            BY <1>1, <3>1
        <3>2. CASE log' = log /\ since' \in {since, Len(log)}
            BY <1>1, <3>2
        <3> QED
            BY <1>2, <3>1, <3>2, LogGoes
    <2>8. login' \in [Logins -> LoginShape]
        BY <1>1, <2>3, <2>4
    <2>9. \A k \in Logins : /\ login'[k].pc # "idle" => login'[k].server \in Servers
                            /\ login'[k].at <= now'
        BY <2>1, <2>4, <2>5 DEF ThrottleTypes
    <2>10. store' \in [count : Nat, expires : Nat, block : Nat]
        BY <1>2, LogGoes
    <2> QED
        BY <1>1, <2>1, <2>2, <2>6, <2>7, <2>8, <2>9, <2>10 DEF ThrottleTypes, Remembers
<1>3. CASE Login!Tick
    <2>1. now' = now + 1 /\ UNCHANGED <<memory, login, log, since>>
          /\ store' \in [count : Nat, expires : Nat, block : Nat]
        BY <1>1, <1>3 DEF Login!Tick
    <2>2. \A s \in Servers : \A i \in 1 .. Len(memory[s]) :
             Ascending(memory[s][i].failures) /\ Until(memory[s][i].failures, now + 1)
        <3> SUFFICES ASSUME NEW s \in Servers, NEW i \in 1 .. Len(memory[s])
                     PROVE  Ascending(memory[s][i].failures) /\ Until(memory[s][i].failures, now + 1)
            OBVIOUS
        <3> DEFINE f == memory[s][i].failures
        <3>1. f \in Seq(Nat) /\ Ascending(f) /\ Until(f, now)
            <4>1. memory[s][i] \in Attempts
                BY <1>1
            <4> QED
                BY <1>1, <4>1 DEF Remembers, Attempts
        <3> HIDE DEF f
        <3>2. Until(f, now + 1)
            BY <1>1, <3>1 DEF Until
        <3> QED
            BY <3>1, <3>2 DEF f
    <2>3. \A l \in Logins : login[l].at \in Nat /\ login[l].at <= now + 1
        BY <1>1 DEF ThrottleTypes, LoginShape
    <2> QED
        BY <1>1, <2>1, <2>2, <2>3 DEF ThrottleTypes, Remembers
<1>4. ASSUME NEW l \in Logins, NEW s \in Servers, Login!Begin(l, s)
      PROVE  ThrottleTypes'
    <2> DEFINE e == [pc |-> IF Shared THEN "ask" ELSE "gate", server |-> s, entry |-> Len(memory[s]),
                     at |-> now, count |-> 0]
    <2>1. login' = [login EXCEPT ![l] = e] /\ UNCHANGED <<now, memory, store, log, since>>
        BY <1>4 DEF Login!Begin, Login!Newest
    <2>2. e \in LoginShape /\ e.server = s /\ e.entry \in 1 .. Len(memory[s]) /\ e.at = now
        BY <1>1 DEF LoginShape, Login!Stages, Remembers
    <2> HIDE DEF e
    <2> QED
        BY <1>1, <2>1, <2>2 DEF ThrottleTypes, Remembers
<1>5. CASE UNCHANGED Login!vars
    BY <1>5 DEF Login!vars, ThrottleTypes, Remembers
<1> QED
    BY <1>2, <1>3, <1>4, <1>5 DEF Login!ThrottleNext

LEMMA ThrottleTypesInit == Login!ThrottleInit => ThrottleTypes
<1> SUFFICES ASSUME Login!ThrottleInit
             PROVE  ThrottleTypes
    OBVIOUS
<1>1. /\ <<>> \in Seq(Nat) /\ Len(<<>>) = 0 /\ Ascending(<<>>) /\ Until(<<>>, 1)
      /\ Login!NoLogin \in LoginShape /\ Login!NoLogin.pc = "idle" /\ Login!NoLogin.at = 0
      /\ Login!NoAttempt \in Attempts /\ Login!NoAttempt.failures = <<>>
      /\ Login!NoStore \in [count : Nat, expires : Nat, block : Nat]
    BY DEF Ascending, Until, Login!NoLogin, Login!NoAttempt, Login!NoStore, LoginShape, Attempts, Login!Stages
<1>2. <<Login!NoAttempt>> \in Seq(Attempts) /\ Len(<<Login!NoAttempt>>) = 1
      /\ \A i \in 1 .. 1 : <<Login!NoAttempt>>[i] = Login!NoAttempt
    BY <1>1
<1>3. Remembers(memory, now)
    BY <1>1, <1>2 DEF Login!ThrottleInit, Remembers
<1> QED
    BY <1>1, <1>3 DEF Login!ThrottleInit, ThrottleTypes, Keeping

LEMMA ThrottleInvariance ==
    ASSUME Login!ThrottleAssumption
    PROVE  Login!ThrottleSpec => []ThrottleTypes
<1>1. ThrottleTypes /\ [Login!ThrottleNext]_Login!vars => ThrottleTypes'
    BY ThrottleTypesStep
<1> QED
    BY <1>1, ThrottleTypesInit, PTL DEF Login!ThrottleSpec

-----------------------------------------------------------------------------
(* Every cooldown, on a server, in the store or read by a login, is one that *)
(* a failure began.                                                          *)

OfFailure(t, g) == \E k \in 1 .. Len(g) : t = g[k]
Begun(b, g) == b = 0 \/ \E k \in 1 .. Len(g) : b = g[k] + Cooldown
Cooldowns ==
    /\ \A s \in Servers : \A i \in 1 .. Len(memory[s]) : Begun(memory[s][i].blockedUntil, log)
    /\ Begun(store.block, log)
    /\ \A l \in Logins : login[l].pc \in {"ask", "gate"} => Begun(login[l].count, log)
    /\ \A l \in Logins : login[l].pc \in After => OfFailure(login[l].at, log)

LEMMA CooldownsStep ==
    ASSUME Login!ThrottleAssumption, ThrottleTypes, Cooldowns, [Login!ThrottleNext]_Login!vars
    PROVE  Cooldowns'
<1>1. /\ Remembers(memory, now) /\ login \in [Logins -> LoginShape] /\ memory \in [Servers -> Seq(Attempts)]
      /\ store \in [count : Nat, expires : Nat, block : Nat] /\ log \in Seq(Nat) /\ now \in Nat
    BY DEF ThrottleTypes, Remembers
<1>2. ASSUME NEW l \in Logins, Login!LoginStep(l)
      PROVE  Cooldowns'
    <2> DEFINE s == login[l].server
    \* What a failure began stays begun.
    <2>1. /\ \A b : Begun(b, log) => Begun(b, log')
          /\ \A t : OfFailure(t, log) => OfFailure(t, log') /\ Begun(t + Cooldown, log')
          /\ Login!Failed(l) => OfFailure(now, log')
          /\ Begun(0, log')
        <3>1. CASE log' = Append(log, now)
            <4>1. /\ Len(log') = Len(log) + 1 /\ log'[Len(log) + 1] = now /\ Len(log) \in Nat
                  /\ \A k \in 1 .. Len(log) : log'[k] = log[k]
                BY <1>1, <3>1
            <4>2. Len(log) + 1 \in 1 .. Len(log') /\ \A k \in 1 .. Len(log) : k \in 1 .. Len(log')
                BY <4>1
            <4> QED
                BY <4>1, <4>2 DEF Begun, OfFailure
        <3>2. CASE log' = log /\ ~Login!Failed(l)
            BY <3>2 DEF Begun, OfFailure
        <3>3. Login!Failed(l) => log' = Append(log, now)
            BY DEF Login!Failed
        <3> QED
            BY <1>2, <3>1, <3>2, <3>3, LogGoes
    <2>2. s \in Servers /\ login[l].pc # "idle"
        <3>1. login[l].pc # "idle"
            BY <1>2 DEF Login!LoginStep, Login!Ask, Login!Pass, Login!Failed, Login!Count, Login!Expire,
                   Login!Decide, Login!Block, Login!Uncount, Login!Succeeded, Login!Clear, Login!Unblock
        <3> QED
            BY <3>1 DEF ThrottleTypes
    <2>3. \A v \in Servers : \A i \in 1 .. Len(memory'[v]) : Begun(memory'[v][i].blockedUntil, log')
        <3>1. CASE memory' = memory
            BY <2>1, <3>1 DEF Cooldowns
        <3>2. CASE \E i \in 1 .. Len(memory[s]), a \in Attempts :
                    /\ memory' = [memory EXCEPT ![s][i] = a]
                    /\ Ascending(a.failures) /\ Until(a.failures, now)
                    /\ Begun(a.blockedUntil, log')
            <4>1. PICK i \in 1 .. Len(memory[s]), a \in Attempts :
                    /\ memory' = [memory EXCEPT ![s][i] = a]
                    /\ Ascending(a.failures) /\ Until(a.failures, now)
                    /\ Begun(a.blockedUntil, log')
                BY <3>2
            <4>2. /\ \A v \in Servers : Len(memory'[v]) = Len(memory[v])
                  /\ \A v \in Servers : \A j \in 1 .. Len(memory[v]) :
                        memory'[v][j] = IF v = s /\ j = i THEN a ELSE memory[v][j]
                BY <1>1, <2>2, <4>1, Rewritten
            <4> QED
                BY <2>1, <4>1, <4>2 DEF Cooldowns
        <3>3. CASE memory' = [memory EXCEPT ![s] = Append(@, Login!NoAttempt)]
            <4>1. Login!NoAttempt \in Attempts /\ Login!NoAttempt.failures = <<>> /\ Login!NoAttempt.blockedUntil = 0
                BY DEF Login!NoAttempt, Attempts
            <4>2. \A v \in Servers : \A j \in 1 .. Len(memory'[v]) :
                        memory'[v][j] = IF j \in 1 .. Len(memory[v]) THEN memory[v][j] ELSE Login!NoAttempt
                BY <1>1, <2>2, <3>3, <4>1, Enlarged
            <4> QED
                BY <2>1, <4>1, <4>2 DEF Cooldowns
        <3>4. ASSUME NEW i \in 1 .. Len(memory[s]), NEW a \in Attempts,
                     \/ /\ Login!Pass(l)
                        /\ a.blockedUntil \in {0, login[l].count, memory[s][i].blockedUntil}
                     \/ a.blockedUntil = memory[s][i].blockedUntil
                     \/ /\ Login!Decide(l)
                        /\ a = [failures |-> <<>>, blockedUntil |-> login[l].at + Cooldown]
                     \/ a = Login!NoAttempt
              PROVE  Begun(a.blockedUntil, log')
            <4>1. Begun(memory[s][i].blockedUntil, log')
                BY <2>1, <2>2 DEF Cooldowns
            <4>2. Login!Pass(l) => Begun(login[l].count, log')
                BY <2>1 DEF Login!Pass, Cooldowns
            <4>3. Login!Decide(l) => Begun(login[l].at + Cooldown, log')
                BY <2>1 DEF Login!Decide, Cooldowns, After
            <4>4. Login!NoAttempt.blockedUntil = 0
                BY DEF Login!NoAttempt
            <4> QED
                BY <2>1, <3>4, <4>1, <4>2, <4>3, <4>4
        <3> QED
            BY <1>2, <3>1, <3>2, <3>3, <3>4, MemoryGoes
    <2>4. Begun(store'.block, log')
        <3>1. login[l].pc = "block" => Begun(login[l].at + Cooldown, log')
            BY <2>1 DEF Cooldowns, After
        <3> QED
            BY <1>2, <2>1, <3>1, LogGoes DEF Cooldowns
    <2>5. PICK e : /\ login' = [login EXCEPT ![l] = e] /\ Going(l, e)
                   /\ e.pc \in After => \/ Login!Failed(l) /\ e.at = now
                                        \/ login[l].pc \in After /\ e.at = login[l].at
        BY <1>2, LoginGoes
    <2>6. \A k \in Logins : login'[k] = IF k = l THEN e ELSE login[k]
        BY <1>1, <2>5
    <2>7. e.pc \in {"ask", "gate"} => Begun(e.count, log')
        BY <2>1, <2>5 DEF Going, Cooldowns
    <2>8. e.pc \in After => OfFailure(e.at, log')
        BY <2>1, <2>5 DEF Cooldowns
    <2>9. \A k \in Logins : /\ login'[k].pc \in {"ask", "gate"} => Begun(login'[k].count, log')
                            /\ login'[k].pc \in After => OfFailure(login'[k].at, log')
        BY <2>1, <2>6, <2>7, <2>8 DEF Cooldowns
    <2> QED
        BY <2>3, <2>4, <2>9 DEF Cooldowns
<1>3. CASE Login!Tick
    <2>1. UNCHANGED <<memory, login, log>> /\ store'.block \in {0, store.block} /\ Begun(0, log)
        BY <1>3 DEF Login!Tick, Begun
    <2> QED
        BY <2>1 DEF Cooldowns
<1>4. ASSUME NEW l \in Logins, NEW v \in Servers, Login!Begin(l, v)
      PROVE  Cooldowns'
    <2> DEFINE e == [pc |-> IF Shared THEN "ask" ELSE "gate", server |-> v, entry |-> Len(memory[v]),
                     at |-> now, count |-> 0]
    <2>1. login' = [login EXCEPT ![l] = e] /\ UNCHANGED <<memory, store, log>>
        BY <1>4 DEF Login!Begin, Login!Newest
    <2>2. e.pc \notin After /\ e.count = 0 /\ Begun(0, log)
        BY DEF After, Begun
    <2> HIDE DEF e
    <2> QED
        BY <1>1, <2>1, <2>2 DEF Cooldowns
<1>5. CASE UNCHANGED Login!vars
    BY <1>5 DEF Login!vars, Cooldowns
<1> QED
    BY <1>2, <1>3, <1>4, <1>5 DEF Login!ThrottleNext

\* Nobody is locked out for good (the head of login-ratelimit.ts: "the cooldown
\* expires"): whatever servers, logins under way at once, lost or half-done commands
\* of the store, a login that comes a cooldown after the last failure passes the gate.
THEOREM LateLoginsPass ==
    ASSUME Login!ThrottleAssumption
    PROVE  Login!ThrottleSpec => []Login!LateLoginPasses
<1>1. Login!ThrottleInit => Cooldowns
    <2>1. <<Login!NoAttempt>>[1].blockedUntil = 0 /\ Len(<<Login!NoAttempt>>) = 1
        BY DEF Login!NoAttempt
    <2> QED
        BY <2>1 DEF Login!ThrottleInit, Login!NoStore, Login!NoLogin, Cooldowns, Begun, After
<1>2. ThrottleTypes /\ Cooldowns /\ [Login!ThrottleNext]_Login!vars => Cooldowns'
    BY CooldownsStep
<1>3. ThrottleTypes /\ Cooldowns => Login!LateLoginPasses
    <2> SUFFICES ASSUME ThrottleTypes, Cooldowns, NEW l \in Logins, login[l].pc = "gate",
                        \A k \in DOMAIN log : log[k] + Cooldown <= login[l].at
                 PROVE  Login!Gate(Login!Blocked(l), login[l].at)
        BY DEF Login!LateLoginPasses
    <2> DEFINE m == Login!Attempt(l)
    <2>1. login[l].at \in Nat /\ DOMAIN log = 1 .. Len(log) /\ login[l].server \in Servers
          /\ login[l].entry \in 1 .. Len(memory[login[l].server])
        BY DEF ThrottleTypes, LoginShape, Keeping
    <2>2. m \in Attempts
        BY <2>1 DEF ThrottleTypes, Remembers, Login!Attempt
    <2>3. Begun(m.blockedUntil, log) /\ Begun(login[l].count, log)
        BY <2>1 DEF Cooldowns, Login!Attempt
    <2> HIDE DEF m
    <2>4. m.blockedUntil <= login[l].at /\ login[l].count <= login[l].at
        BY <2>1, <2>3 DEF Begun
    <2>5. \A b : [m EXCEPT !.blockedUntil = b].blockedUntil = b
        BY <2>2 DEF Attempts
    <2>6. Login!Blocked(l) = [m EXCEPT !.blockedUntil = IF login[l].count > @ THEN login[l].count ELSE @]
        BY DEF Login!Blocked, m
    <2> QED
        BY <2>4, <2>5, <2>6 DEF Login!Gate
<1> QED
    BY <1>1, <1>2, <1>3, ThrottleInvariance, PTL DEF Login!ThrottleSpec

-----------------------------------------------------------------------------
(* One process without the store: the object in the map knows what happened  *)
(* since the last success.                                                   *)

OneProcess == ~Shared /\ \A s, v \in Servers : s = v

\* No more failures are remembered than there were since the last success, and
\* only as many as MaxFailures begin a cooldown.  An object that left the map may
\* hold older ones.
Fits(a, n) == Len(a.failures) <= n /\ (a.blockedUntil # 0 => n >= MaxFailures)
Forgiven ==
    /\ \A s \in Servers : Fits(memory[s][Len(memory[s])], Len(log) - since)
    /\ \A l \in Logins : /\ login[l].pc \in {"idle", "gate", "verify", "decide"}
                         /\ login[l].pc \in {"gate", "decide"} => login[l].count = 0

LEMMA ForgivenStep ==
    ASSUME Login!ThrottleAssumption, OneProcess, ThrottleTypes, Forgiven,
           [Login!ThrottleNext]_Login!vars
    PROVE  Forgiven'
<1> DEFINE n == Len(log) - since
<1>1. /\ n \in Nat /\ now \in Nat /\ Len(log) \in Nat /\ since \in Nat /\ log \in Seq(Nat)
      /\ MaxFailures \in Nat \ {0} /\ ~Shared /\ login \in [Logins -> LoginShape]
      /\ Remembers(memory, now) /\ memory \in [Servers -> Seq(Attempts)]
    BY DEF ThrottleTypes, Remembers, Login!ThrottleAssumption, OneProcess
<1>2. \A s \in Servers : Len(memory[s]) \in 1 .. Len(memory[s]) /\ Len(memory[s]) \in Nat
    BY <1>1 DEF Remembers
<1>3. ASSUME NEW l \in Logins, Login!LoginStep(l)
      PROVE  Forgiven'
    <2> DEFINE s == login[l].server
    <2>1. s \in Servers /\ \A v \in Servers : v = s
        BY <1>3, MemoryGoes DEF OneProcess
    <2>2. Login!Pass(l) \/ Login!Failed(l) \/ Login!Decide(l) \/ Login!Succeeded(l)
        BY <1>3 DEF Forgiven, Login!LoginStep, Login!Ask, Login!Count, Login!Expire, Login!Block,
                    Login!Uncount, Login!Clear, Login!Unblock
    <2>3. \A k \in Logins : /\ login'[k].pc \in {"idle", "gate", "verify", "decide"}
                            /\ login'[k].pc \in {"gate", "decide"} => login'[k].count = 0
        <3>1. PICK e \in {Login!NoLogin, [Login!NoLogin EXCEPT !.pc = "verify", !.server = login[l].server],
                          [pc |-> "decide", server |-> login[l].server, entry |-> Len(memory[s]),
                           at |-> now, count |-> 0]} :
                 login' = [login EXCEPT ![l] = e]
            BY <1>1, <2>2 DEF Login!Pass, Login!Failed, Login!Decide, Login!Succeeded, Login!Leaves, Login!Ends,
                              Login!Newest
        <3>2. e.pc \in {"idle", "verify", "decide"} /\ (e.pc = "decide" => e.count = 0)
            <4>1. Login!NoLogin.pc = "idle" /\ [Login!NoLogin EXCEPT !.pc = "verify", !.server = s].pc = "verify"
                BY DEF Login!NoLogin
            <4> DEFINE x == [pc |-> "decide", server |-> login[l].server, entry |-> Len(memory[s]),
                             at |-> now, count |-> 0]
            <4>2. x.pc = "decide" /\ x.count = 0
                OBVIOUS
            <4>3. e \in {Login!NoLogin, [Login!NoLogin EXCEPT !.pc = "verify", !.server = s], x}
                BY <3>1
            <4> HIDE DEF x
            <4> QED
                BY <4>1, <4>2, <4>3
        <3> QED
            BY <1>1, <3>1, <3>2 DEF Forgiven
    <2> DEFINE z == Len(memory[s])
               m == memory[s][z]
               k == Len(log') - since'
    <2>4. Fits(m, n) /\ Len(m.failures) \in Nat /\ m \in Attempts /\ z \in 1 .. Len(memory[s])
        <3>1. z \in 1 .. Len(memory[s]) /\ m \in Attempts
            BY <1>1, <1>2, <2>1
        <3>2. \A x \in Attempts : Len(x.failures) \in Nat
            BY DEF Attempts
        <3>3. Fits(m, n)
            BY <2>1 DEF Forgiven
        <3> QED
            BY <3>1, <3>2, <3>3
    <2>5. k \in Nat /\ (Login!Failed(l) => k = n + 1) /\ (~Login!Failed(l) /\ ~Login!Succeeded(l) => k = n)
        <3>1. CASE Login!Failed(l)
            <4>1. log' = Append(log, now) /\ since' = since
                BY <3>1 DEF Login!Failed
            <4> QED
                BY <1>1, <3>1, <4>1
        <3>2. CASE Login!Succeeded(l)
            <4>1. log' = log /\ since' = Len(log)
                BY <3>2 DEF Login!Succeeded
            <4>2. ~Login!Failed(l)
                BY <1>1, <4>1 DEF Login!Failed
            <4> QED
                BY <1>1, <3>2, <4>1, <4>2
        <3>3. CASE ~Login!Failed(l) /\ ~Login!Succeeded(l)
            <4>1. log' = log /\ since' = since
                BY <2>2, <3>3 DEF Login!Pass, Login!Decide
            <4> QED
                BY <1>1, <3>3, <4>1
        <3> QED
            BY <3>1, <3>2, <3>3
    <2>6. Fits(Login!NoAttempt, k) /\ Login!NoAttempt \in Attempts /\ Login!NoAttempt.failures = <<>>
        BY <2>5 DEF Fits, Login!NoAttempt, Attempts
    <2>7. ~(Login!Failed(l) /\ Login!Succeeded(l))
        BY <1>1 DEF Login!Failed, Login!Succeeded
    <2>8. CASE memory' = memory /\ ~Login!Succeeded(l)
        <3>1. Fits(m, k)
            <4>1. k \in Nat /\ n \in Nat /\ n <= k
                BY <1>1, <2>5, <2>8
            <4>2. Fits(m, n) /\ Len(m.failures) \in Nat
                BY <2>4
            <4> HIDE DEF m, k, n
            <4> QED
                BY <1>1, <4>1, <4>2 DEF Fits
        <3> QED
            BY <2>1, <2>3, <2>8, <3>1 DEF Forgiven
    <2>9. CASE memory' = [memory EXCEPT ![s] = Append(@, Login!NoAttempt)]
        <3>1. memory'[s][Len(memory'[s])] = Login!NoAttempt
            BY <1>1, <2>1, <2>4, <2>6, <2>9
        <3> QED
            BY <2>1, <2>3, <2>6, <3>1 DEF Forgiven
    <2>10. ASSUME NEW i \in 1 .. Len(memory[s]), NEW a \in Attempts,
                  memory' = [memory EXCEPT ![s][i] = a], Ascending(a.failures), Until(a.failures, now),
                    \/ /\ Login!Pass(l)
                       /\ a.blockedUntil \in {0, login[l].count, memory[s][i].blockedUntil}
                       /\ Len(a.failures) <= Len(memory[s][i].failures)
                    \/ /\ Login!Failed(l)
                       /\ a.blockedUntil = memory[s][i].blockedUntil
                       /\ Len(a.failures) <= Len(memory[s][i].failures) + 1
                    \/ /\ Login!Decide(l) /\ i = login[l].entry /\ Login!TooMany(l)
                       /\ a = [failures |-> <<>>, blockedUntil |-> login[l].at + Cooldown]
                    \/ /\ Login!Succeeded(l) /\ i = Len(memory[s]) /\ a = Login!NoAttempt
           PROVE  Forgiven'
        <3>1. /\ Len(memory'[s]) = Len(memory[s])
              /\ memory'[s][z] = IF i = z THEN a ELSE m
            BY <1>1, <2>1, <2>4, <2>10, Rewritten
        <3>2. CASE i # z
            <4>1. ~Login!Succeeded(l)
                BY <2>7, <2>10, <3>2 DEF Login!Pass, Login!Decide, Login!Succeeded
            <4>2. Fits(m, k)
                BY <1>1, <2>4, <2>5, <4>1 DEF Fits
            <4> QED
                BY <2>1, <2>3, <3>1, <3>2, <4>2 DEF Forgiven
        <3>3. CASE i = z
            <4>1. Len(a.failures) \in Nat
                BY DEF Attempts
            <4>2. CASE /\ Login!Pass(l)
                       /\ a.blockedUntil \in {0, login[l].count, memory[s][i].blockedUntil}
                       /\ Len(a.failures) <= Len(memory[s][i].failures)
                <5>1. login[l].count = 0 /\ ~Login!Succeeded(l) /\ ~Login!Failed(l)
                    BY <4>2 DEF Forgiven, Login!Pass, Login!Succeeded, Login!Failed
                <5>2. Len(a.failures) <= Len(m.failures) /\ a.blockedUntil \in {0, m.blockedUntil} /\ k = n
                    BY <2>5, <3>3, <4>2, <5>1
                <5> HIDE DEF m, n, k
                <5>3. Fits(a, k)
                    BY <1>1, <2>4, <4>1, <5>2 DEF Fits
                <5> QED
                    BY <2>1, <2>3, <3>1, <3>3, <5>3 DEF Forgiven, z, k
            <4>3. CASE /\ Login!Failed(l)
                       /\ a.blockedUntil = memory[s][i].blockedUntil
                       /\ Len(a.failures) <= Len(memory[s][i].failures) + 1
                <5>2. Len(a.failures) <= Len(m.failures) + 1 /\ a.blockedUntil = m.blockedUntil /\ k = n + 1
                    BY <2>5, <3>3, <4>3
                <5> HIDE DEF m, n, k
                <5>3. Fits(a, k)
                    BY <1>1, <2>4, <4>1, <5>2 DEF Fits
                <5> QED
                    BY <2>1, <2>3, <3>1, <3>3, <5>3 DEF Forgiven, z, k
            <4>4. CASE /\ Login!Decide(l) /\ i = login[l].entry /\ Login!TooMany(l)
                       /\ a = [failures |-> <<>>, blockedUntil |-> login[l].at + Cooldown]
                <5>1. login[l].count = 0 /\ ~Login!Succeeded(l) /\ ~Login!Failed(l)
                    BY <4>4 DEF Forgiven, Login!Decide, Login!Succeeded, Login!Failed
                <5>2. Len(m.failures) >= MaxFailures
                    BY <1>1, <3>3, <4>4, <5>1 DEF Login!TooMany, Login!Attempt
                <5>3. n >= MaxFailures /\ k = n
                    BY <1>1, <2>4, <2>5, <5>1, <5>2 DEF Fits
                <5>4. Fits(a, k)
                    BY <1>1, <4>4, <5>3 DEF Fits
                <5> QED
                    BY <2>1, <2>3, <3>1, <3>3, <5>4 DEF Forgiven
            <4>5. CASE Login!Succeeded(l) /\ a = Login!NoAttempt
                BY <2>1, <2>3, <2>6, <3>1, <3>3, <4>5 DEF Forgiven
            <4> QED
                BY <2>10, <4>2, <4>3, <4>4, <4>5
        <3> QED
            BY <3>2, <3>3
    <2> QED
        BY <1>3, <2>8, <2>9, <2>10, MemoryGoes
<1>4. CASE Login!Tick \/ UNCHANGED Login!vars
    <2>1. UNCHANGED <<memory, login, log, since>>
        BY <1>4 DEF Login!Tick, Login!vars
    <2> QED
        BY <2>1 DEF Forgiven
<1>5. ASSUME NEW l \in Logins, NEW v \in Servers, Login!Begin(l, v)
      PROVE  Forgiven'
    <2> DEFINE e == [pc |-> "gate", server |-> v, entry |-> Len(memory[v]), at |-> now, count |-> 0]
    <2>1. login' = [login EXCEPT ![l] = e] /\ UNCHANGED <<memory, log, since>>
        BY <1>1, <1>5 DEF Login!Begin, Login!Newest
    <2>2. e.pc = "gate" /\ e.count = 0
        OBVIOUS
    <2> HIDE DEF e
    <2> QED
        BY <1>1, <2>1, <2>2 DEF Forgiven
<1> QED
    BY <1>3, <1>4, <1>5 DEF Login!ThrottleNext

\* In one process, whatever logins are under way at once: fewer than MaxFailures
\* failures since the last success lock nobody out; a login that failed before the
\* success and goes on after it writes to the object that left the map (recordSuccess,
\* recordFailure and isAllowed of login-ratelimit.ts).
THEOREM SuccessForgets ==
    ASSUME Login!ThrottleAssumption, OneProcess
    PROVE  Login!ThrottleSpec => []Login!SuccessClears
<1>1. Login!ThrottleInit => Forgiven
    <2> SUFFICES ASSUME Login!ThrottleInit
                 PROVE  Forgiven
        OBVIOUS
    <2>1. Login!NoAttempt.failures = <<>> /\ Login!NoAttempt.blockedUntil = 0
        BY DEF Login!NoAttempt
    <2>2. Fits(Login!NoAttempt, 0)
        BY <2>1 DEF Fits
    <2>3. log = <<>> /\ since = 0 /\ Len(<<>>) - 0 = 0
        BY DEF Login!ThrottleInit
    <2>4. \A s \in Servers : memory[s][Len(memory[s])] = Login!NoAttempt
        BY DEF Login!ThrottleInit
    <2> QED
        BY <2>2, <2>3, <2>4 DEF Login!ThrottleInit, Login!NoLogin, Forgiven
<1>2. ThrottleTypes /\ Forgiven /\ [Login!ThrottleNext]_Login!vars => Forgiven'
    BY ForgivenStep
<1>3. ThrottleTypes /\ Forgiven => Login!SuccessClears
    <2> SUFFICES ASSUME ThrottleTypes, Forgiven, NEW s \in Servers,
                        memory[s][Login!Newest(s)].blockedUntil > now
                 PROVE  Len(log) - since >= MaxFailures
        BY DEF Login!SuccessClears
    <2>1. now \in Nat /\ Fits(memory[s][Login!Newest(s)], Len(log) - since)
        BY DEF ThrottleTypes, Forgiven, Login!Newest
    <2>2. memory[s][Login!Newest(s)].blockedUntil # 0
        BY <2>1
    <2> QED
        BY <2>1, <2>2 DEF Fits
<1> QED
    BY <1>1, <1>2, <1>3, ThrottleInvariance, PTL DEF Login!ThrottleSpec

(***************************************************************************)
(* The rate limiter of the 8vance client (lib/eightvance/ratelimit.ts).    *)
(***************************************************************************)

CONSTANTS Capacity, MaxSleep, MaxRounds, Penalties
VARIABLES tokens, waitLeft, queue, caller, counter, penalty, granted, issued

\* Window, MaxFaults and faults are shared with the throttle, the processes with the token cache.
Limiter == INSTANCE RateLimiter

Holding == {"round", "incr", "expire", "asleep"}
CallerShape == [at : {"idle", "queued"} \cup Holding, round : Nat, sleep : Nat]

\* An acquire is in the queue of its process while it is under way, and once, and
\* only the head of the queue goes through the loop.
InTurn ==
    /\ queue \in [Servers -> Seq(Callers)]
    /\ \A s \in Servers : \A i \in 1 .. Len(queue[s]) :
         /\ ServerOf[queue[s][i]] = s /\ caller[queue[s][i]].at # "idle"
         /\ \A j \in 1 .. Len(queue[s]) : queue[s][i] = queue[s][j] => i = j
    /\ caller \in [Callers -> CallerShape]
    /\ \A c \in Callers : LET q == queue[ServerOf[c]] IN
         /\ caller[c].at # "idle" => \E i \in 1 .. Len(q) : q[i] = c
         /\ caller[c].at \in Holding => Head(q) = c

\* A token that was found is there still when it is taken, and what was handed out
\* and what is left come from a full bucket and its refill.
Paced ==
    /\ \A c \in Callers : caller[c].at # "asleep" => caller[c].round < MaxRounds
    /\ \A c \in Callers : caller[c].at \in {"incr", "expire"} => tokens[ServerOf[c]] >= Window
    /\ \A s \in Servers, k \in 0 .. Window :
         granted[s][k] * Window + tokens[s] <= Capacity * Window + k * Capacity
LimiterIInv == Limiter!TypeOK /\ InTurn /\ Paced

LEMMA CeilIsNat ==
    ASSUME NEW a \in Nat, NEW b \in Nat \ {0}
    PROVE  Limiter!Ceil(a, b) \in Nat
<1>1. a + b - 1 \in Nat
    OBVIOUS
<1>2. \A n \in Nat : n \div b \in Nat
    OBVIOUS
<1> QED
    BY <1>1, <1>2 DEF Limiter!Ceil

\* What a step of an acquire that is under way does to the queue and the bucket.
LEMMA CallerMoves ==
    ASSUME Limiter!RateLimiterAssumption, LimiterIInv, NEW c \in Callers, Limiter!CallerStep(c)
    PROVE  /\ caller[c].at \in Holding \/ (caller[c].at = "queued" /\ Head(queue[ServerOf[c]]) = c)
           /\ \/ /\ UNCHANGED <<tokens, queue, granted>>
                 /\ \E e \in CallerShape :
                      /\ caller' = [caller EXCEPT ![c] = e] /\ e.at \in Holding /\ e.round <= MaxRounds
                      /\ e.at # "asleep" => e.round < MaxRounds
                      /\ e.at \in {"incr", "expire"} => tokens[ServerOf[c]] >= Window
              \/ caller[c].at \in {"incr", "expire"} /\ Limiter!Grant(c)
              \/ /\ Limiter!GiveUp(c) /\ UNCHANGED <<tokens, granted>>
<1> DEFINE s == ServerOf[c]
           e0 == caller[c]
           Onward(e) == /\ e \in CallerShape /\ e.at \in Holding /\ e.round <= MaxRounds
                        /\ e.at # "asleep" => e.round < MaxRounds
                        /\ e.at \in {"incr", "expire"} => tokens[s] >= Window
           Goes(e) == UNCHANGED <<tokens, queue, granted>> /\ caller' = [caller EXCEPT ![c] = e]
<1>1. /\ e0 \in CallerShape /\ s \in Servers /\ caller \in [Callers -> CallerShape]
      /\ tokens[s] \in Nat /\ waitLeft[s] \in Nat /\ penalty \in Nat
      /\ Window \in Nat \ {0} /\ Capacity \in Nat \ {0} /\ MaxSleep \in Nat \ {0} /\ MaxRounds \in Nat \ {0}
      /\ e0.at # "asleep" => e0.round < MaxRounds
      /\ e0.at \in {"incr", "expire"} => tokens[s] >= Window
    <2>1. /\ e0 \in CallerShape /\ s \in Servers /\ caller \in [Callers -> CallerShape]
          /\ tokens[s] \in Nat /\ waitLeft[s] \in Nat /\ penalty \in Nat
        <3>1. caller \in [Callers -> CallerShape]
            <4> DEFINE Narrow == [at : {"idle", "queued", "round", "incr", "expire", "asleep"},
                                  round : 0 .. MaxRounds, sleep : Nat]
            <4>1. caller \in [Callers -> Narrow] /\ MaxRounds \in Nat
                BY DEF LimiterIInv, Limiter!TypeOK, Limiter!RateLimiterAssumption
            <4>2. \A e \in Narrow : e \in CallerShape
                BY <4>1 DEF CallerShape, Holding
            <4> HIDE DEF Narrow
            <4> QED
                BY <4>1, <4>2
        <3>2. s \in Servers
            BY DEF Limiter!RateLimiterAssumption
        <3>3. tokens[s] \in Nat /\ waitLeft[s] \in Nat /\ penalty \in Nat
            BY <3>2 DEF LimiterIInv, Limiter!TypeOK, Limiter!RateLimiterAssumption
        <3> QED
            BY <3>1, <3>2, <3>3
    <2>2. Window \in Nat \ {0} /\ Capacity \in Nat \ {0} /\ MaxSleep \in Nat \ {0} /\ MaxRounds \in Nat \ {0}
        BY DEF Limiter!RateLimiterAssumption
    <2>3. (e0.at # "asleep" => e0.round < MaxRounds) /\ (e0.at \in {"incr", "expire"} => tokens[s] >= Window)
        BY DEF LimiterIInv, Paced
    <2> QED
        BY <2>1, <2>2, <2>3
<1>2. "round" \in Holding /\ "incr" \in Holding /\ "expire" \in Holding /\ "asleep" \in Holding
    BY DEF Holding
<1>3. \A a : [e0 EXCEPT !.at = a] = [at |-> a, round |-> e0.round, sleep |-> e0.sleep]
    <2>1. e0 \in CallerShape
        BY <1>1
    <2> HIDE DEF e0
    <2> QED
        BY <2>1 DEF CallerShape
<1>4. e0.round \in Nat /\ e0.sleep \in Nat
    BY <1>1 DEF CallerShape
<1>5. ASSUME NEW a \in {"round", "incr", "expire"}, e0.round < MaxRounds,
             a \in {"incr", "expire"} => tokens[s] >= Window
      PROVE  Onward([e0 EXCEPT !.at = a])
    <2>1. /\ [e0 EXCEPT !.at = a] \in CallerShape
          /\ [e0 EXCEPT !.at = a].at = a /\ [e0 EXCEPT !.at = a].round = e0.round
        BY <1>1, <1>3, <1>4, <1>5 DEF CallerShape, Holding
    <2> HIDE DEF e0
    <2> QED
        BY <1>1, <1>2, <1>4, <1>5, <2>1
<1>6. ASSUME NEW w \in Nat, e0.round < MaxRounds
      PROVE  Onward(Limiter!Sleeping(c, w))
    BY <1>1, <1>4, <1>6 DEF CallerShape, Holding, Limiter!Sleeping
<1>7. \A w \in Nat : Limiter!Least(w, MaxSleep) \in Nat
    BY <1>1 DEF Limiter!Least
<1> DEFINE Moves == /\ e0.at \in Holding \/ (e0.at = "queued" /\ Head(queue[s]) = c)
                    /\ \/ \E e : Onward(e) /\ Goes(e)
                       \/ e0.at \in {"incr", "expire"} /\ Limiter!Grant(c)
                       \/ Limiter!GiveUp(c) /\ UNCHANGED <<tokens, granted>>
<1> SUFFICES Moves
    OBVIOUS
<1> HIDE DEF Onward, Goes
<1> HIDE DEF e0
<1>14. ASSUME NEW e, Onward(e), Goes(e), e0.at \in Holding \/ (e0.at = "queued" /\ Head(queue[s]) = c)
       PROVE  Moves
    BY <1>14
<1> HIDE DEF Moves
<1>8. CASE Limiter!Begin(c)
    <2>1. e0.at = "queued" /\ Head(queue[s]) = c /\ Goes([e0 EXCEPT !.at = "round"])
        BY <1>8 DEF Limiter!Begin, Limiter!bucketVars, Goes, e0
    <2>2. Onward([e0 EXCEPT !.at = "round"])
        BY <1>1, <1>5, <2>1
    <2> QED
        BY <1>14, <2>1, <2>2
<1>9. CASE Limiter!Round(c)
    <2>1. e0.at = "round" /\ UNCHANGED <<tokens, queue, granted>>
        BY <1>9 DEF Limiter!Round, e0
    <2>2. PICK w \in Nat :
            caller' = [caller EXCEPT ![c] =
                        IF w > 0 THEN Limiter!Sleeping(c, Limiter!Least(w, MaxSleep))
                        ELSE IF tokens[s] >= Window THEN [e0 EXCEPT !.at = "incr"]
                        ELSE Limiter!Sleeping(c, Limiter!Least(Limiter!Ceil(Window - tokens[s], Capacity), MaxSleep))]
        <3>1. \A a, b \in Nat : Limiter!Greatest(a, b) \in Nat
            BY DEF Limiter!Greatest
        <3>2. PICK d \in {0, penalty} :
                LET w == Limiter!Greatest(waitLeft[s], IF Redis THEN d ELSE 0)
                IN  caller' = [caller EXCEPT ![c] =
                        IF w > 0 THEN Limiter!Sleeping(c, Limiter!Least(w, MaxSleep))
                        ELSE IF tokens[s] >= Window THEN [e0 EXCEPT !.at = "incr"]
                        ELSE Limiter!Sleeping(c, Limiter!Least(Limiter!Ceil(Window - tokens[s], Capacity), MaxSleep))]
            BY <1>9 DEF Limiter!Round, e0
        <3> DEFINE w == Limiter!Greatest(waitLeft[s], IF Redis THEN d ELSE 0)
        <3>3. w \in Nat
            BY <1>1, <3>1
        <3> QED
            BY <3>2, <3>3
    <2>3. tokens[s] < Window => Limiter!Ceil(Window - tokens[s], Capacity) \in Nat
        <3> SUFFICES ASSUME tokens[s] < Window
                     PROVE  Limiter!Ceil(Window - tokens[s], Capacity) \in Nat
            OBVIOUS
        <3>1. Window - tokens[s] \in Nat
            BY <1>1
        <3> QED
            BY <1>1, <3>1, CeilIsNat
    <2>4. e0.round < MaxRounds
        BY <1>1, <2>1
    <2>5. CASE w > 0
        <3>1. Onward(Limiter!Sleeping(c, Limiter!Least(w, MaxSleep)))
            BY <1>6, <1>7, <2>4
        <3>2. Goes(Limiter!Sleeping(c, Limiter!Least(w, MaxSleep)))
            BY <2>1, <2>2, <2>5 DEF Goes
        <3> QED
            BY <1>2, <1>14, <2>1, <3>1, <3>2
    <2>6. CASE ~(w > 0) /\ tokens[s] >= Window
        <3>1. Onward([e0 EXCEPT !.at = "incr"])
            BY <1>5, <2>4, <2>6
        <3>2. Goes([e0 EXCEPT !.at = "incr"])
            BY <2>1, <2>2, <2>6 DEF Goes
        <3> QED
            BY <1>2, <1>14, <2>1, <3>1, <3>2
    <2>7. CASE ~(w > 0) /\ ~(tokens[s] >= Window)
        <3>1. Onward(Limiter!Sleeping(c, Limiter!Least(Limiter!Ceil(Window - tokens[s], Capacity), MaxSleep)))
            <4>1. tokens[s] < Window
                BY <1>1, <2>7
            <4> QED
                BY <1>6, <1>7, <2>3, <2>4, <4>1
        <3>2. Goes(Limiter!Sleeping(c, Limiter!Least(Limiter!Ceil(Window - tokens[s], Capacity), MaxSleep)))
            BY <2>1, <2>2, <2>7 DEF Goes
        <3> QED
            BY <1>2, <1>14, <2>1, <3>1, <3>2
    <2> QED
        BY <2>5, <2>6, <2>7
<1>10. CASE Limiter!Incr(c)
    <2>1. e0.at = "incr" /\ e0.at \in Holding
        BY <1>10 DEF Limiter!Incr, Holding, e0
    <2>2. \/ Limiter!Grant(c)
          \/ Goes([e0 EXCEPT !.at = "expire"])
          \/ Goes(Limiter!Sleeping(c, Limiter!Least(Limiter!Ceil(Window, Capacity), MaxSleep)))
        BY <1>10 DEF Limiter!Incr, Limiter!bucketVars, Goes, e0
    <2>3. Onward([e0 EXCEPT !.at = "expire"])
        BY <1>1, <1>5, <2>1
    <2>4. Onward(Limiter!Sleeping(c, Limiter!Least(Limiter!Ceil(Window, Capacity), MaxSleep)))
        <3>1. Limiter!Ceil(Window, Capacity) \in Nat
            BY <1>1, CeilIsNat
        <3> QED
            BY <1>1, <1>6, <1>7, <2>1, <3>1
    <2>5. Limiter!Grant(c) => Moves
        BY <2>1 DEF Moves
    <2> QED
        BY <1>14, <2>1, <2>2, <2>3, <2>4, <2>5
<1>11. CASE Limiter!Expire(c)
    <2>1. e0.at = "expire" /\ Limiter!Grant(c)
        BY <1>11 DEF Limiter!Expire, e0
    <2> QED
        BY <1>2, <2>1 DEF Moves
<1>12. CASE Limiter!Wake(c)
    <2>1. e0.at = "asleep" /\ e0.round < MaxRounds /\ Goes([e0 EXCEPT !.at = "round"])
        BY <1>12 DEF Limiter!Wake, Limiter!bucketVars, Goes, e0
    <2>2. Onward([e0 EXCEPT !.at = "round"])
        BY <1>5, <2>1
    <2> QED
        BY <1>2, <1>14, <2>1, <2>2
<1>13. CASE Limiter!GiveUp(c)
    <2>1. e0.at = "asleep" /\ UNCHANGED <<tokens, granted>>
        BY <1>13 DEF Limiter!GiveUp, e0
    <2> QED
        BY <1>2, <1>13, <2>1 DEF Moves
<1> QED
    BY <1>8, <1>9, <1>10, <1>11, <1>12, <1>13 DEF Limiter!CallerStep
\* What the other steps do: an acquire arrives, a process is told to wait or dies, and
\* time passes.
LEMMA LimiterTypesStep ==
    ASSUME Limiter!RateLimiterAssumption, LimiterIInv, [Limiter!LimiterNext]_Limiter!limiterVars
    PROVE  Limiter!TypeOK'
<1> DEFINE Bucket == /\ tokens \in [Servers -> 0 .. (Capacity * Window)]
                     /\ granted \in [Servers -> [0 .. Window -> Nat]]
           Queues == /\ queue \in [Servers -> Seq(Callers)]
                     /\ caller \in [Callers -> [at : {"idle", "queued", "round", "incr", "expire", "asleep"},
                                                round : 0 .. MaxRounds, sleep : Nat]]
           Shares == /\ waitLeft \in [Servers -> Nat] /\ penalty \in Nat
                     /\ counter \in [n : Nat, ttl : 0 .. Window] /\ faults \in 0 .. MaxFaults
<1>0. issued' \in [0 .. Window -> Nat]
    <2>1. issued \in [0 .. Window -> Nat] /\ Window \in Nat \ {0}
        BY DEF LimiterIInv, Limiter!TypeOK, Limiter!RateLimiterAssumption
    <2>2. Limiter!OneMore(issued) \in [0 .. Window -> Nat] /\ Limiter!Aged(issued) \in [0 .. Window -> Nat]
        BY <2>1 DEF Limiter!OneMore, Limiter!Aged
    <2>3. ASSUME NEW c \in Callers, Limiter!Arrive(c) \/ Limiter!CallerStep(c)
          PROVE  issued' = issued \/ issued' = Limiter!OneMore(issued)
        <3>1. Limiter!Grant(c) => issued' = Limiter!OneMore(issued)
            BY DEF Limiter!Grant
        <3> QED
            BY <2>3, <3>1 DEF Limiter!Arrive, Limiter!CallerStep, Limiter!Begin, Limiter!Round, Limiter!Incr,
                              Limiter!Expire, Limiter!Wake, Limiter!GiveUp
    <2>4. ASSUME Limiter!Tick \/ (\E s \in Servers : Limiter!Crash(s) \/ \E ms \in Penalties : Limiter!Penalize(s, ms))
          PROVE  issued' = issued \/ issued' = Limiter!Aged(issued)
        BY <2>4 DEF Limiter!Tick, Limiter!Crash, Limiter!Penalize
    <2>5. CASE UNCHANGED Limiter!limiterVars
        BY <2>1, <2>5 DEF Limiter!limiterVars
    <2> QED
        BY <2>1, <2>2, <2>3, <2>4, <2>5 DEF Limiter!LimiterNext
<1>1. Bucket /\ Queues /\ Shares /\ (Bucket' /\ Queues' /\ Shares' => Limiter!TypeOK')
    BY <1>0 DEF LimiterIInv, Limiter!TypeOK
<1>2. /\ ServerOf \in [Callers -> Servers] /\ Window \in Nat \ {0} /\ Capacity \in Nat \ {0}
      /\ MaxRounds \in Nat \ {0} /\ Penalties \subseteq Nat /\ MaxFaults \in Nat
      /\ Capacity * Window \in Nat
    BY DEF Limiter!RateLimiterAssumption
<1>3. \A e \in CallerShape : e.round <= MaxRounds =>
        e \in [at : {"idle", "queued", "round", "incr", "expire", "asleep"}, round : 0 .. MaxRounds, sleep : Nat]
    BY <1>2 DEF CallerShape, Holding
<1>4. ASSUME NEW kind, Limiter!Fails(kind) \/ Limiter!Works
      PROVE  faults' \in 0 .. MaxFaults
    BY <1>1, <1>2, <1>4 DEF Limiter!Fails, Limiter!Works
<1>5. \A s \in Servers : Tail(queue[s]) \in Seq(Callers) \/ queue[s] = <<>>
    BY <1>1
<1>6. Limiter!Resting \in CallerShape /\ Limiter!Resting.round <= MaxRounds
      /\ Limiter!NoGrants \in [0 .. Window -> Nat]
    BY <1>2 DEF Limiter!Resting, CallerShape, Limiter!NoGrants
<1>7. ASSUME NEW c \in Callers, Limiter!Arrive(c)
      PROVE  Limiter!TypeOK'
    <2>1. Bucket' /\ Shares'
        BY <1>1, <1>7 DEF Limiter!Arrive, Limiter!redisVars
    <2>2. Queues'
        <3> DEFINE s == ServerOf[c]
                   e == [caller[c] EXCEPT !.at = "queued"]
        <3>1. s \in Servers /\ Append(queue[s], c) \in Seq(Callers)
            BY <1>1, <1>2
        <3>2. e \in [at : {"idle", "queued", "round", "incr", "expire", "asleep"}, round : 0 .. MaxRounds, sleep : Nat]
            BY <1>1
        <3>3. queue' = [queue EXCEPT ![s] = Append(queue[s], c)] /\ caller' = [caller EXCEPT ![c] = e]
            BY <1>7 DEF Limiter!Arrive
        <3> HIDE DEF s, e
        <3> QED
            BY <1>1, <3>1, <3>2, <3>3
    <2> QED
        BY <1>1, <2>1, <2>2
<1>8. ASSUME NEW c \in Callers, Limiter!CallerStep(c)
      PROVE  Limiter!TypeOK'
    <2> DEFINE s == ServerOf[c]
    <2>0. s \in Servers
        BY <1>2
    <2>1. Shares'
        <3>1. \A a, b \in Nat : Limiter!Greatest(a, b) \in Nat
            BY DEF Limiter!Greatest
        <3>2. CASE Limiter!Round(c)
            <4>1. UNCHANGED <<counter, penalty>>
                BY <3>2 DEF Limiter!Round, Limiter!redisVars
            <4>2. waitLeft' \in [Servers -> Nat]
                <5>1. PICK d \in {0, penalty} :
                        waitLeft' = [waitLeft EXCEPT ![s] = Limiter!Greatest(waitLeft[s], IF Redis THEN d ELSE 0)]
                    BY <3>2 DEF Limiter!Round
                <5>2. Limiter!Greatest(waitLeft[s], IF Redis THEN d ELSE 0) \in Nat
                    BY <1>1, <2>0, <3>1
                <5> QED
                    BY <1>1, <5>1, <5>2
            <4>3. faults' \in 0 .. MaxFaults
                BY <1>4, <3>2 DEF Limiter!Round
            <4> QED
                BY <1>1, <4>1, <4>2, <4>3
        <3>3. CASE Limiter!Incr(c)
            <4>1. UNCHANGED <<waitLeft, penalty>> /\ counter' \in {counter, Limiter!CountUp}
                BY <3>3 DEF Limiter!Incr, Limiter!Grant, Limiter!redisVars, Limiter!bucketVars
            <4>2. Limiter!CountUp \in [n : Nat, ttl : 0 .. Window]
                <5>1. Limiter!Least(counter.n + 1, Capacity + 2) \in Nat
                    <6>1. counter \in [n : Nat, ttl : 0 .. Window] /\ Capacity \in Nat
                        BY <1>1, <1>2
                    <6>2. counter.n + 1 \in Nat /\ Capacity + 2 \in Nat
                        BY <6>1
                    <6> QED
                        BY <6>2 DEF Limiter!Least
                <5> QED
                    BY <1>1, <5>1 DEF Limiter!CountUp
            <4>3. faults' \in 0 .. MaxFaults
                BY <1>4, <3>3 DEF Limiter!Incr
            <4> QED
                BY <1>1, <4>1, <4>2, <4>3
        <3>4. CASE Limiter!Expire(c)
            <4>1. /\ UNCHANGED <<waitLeft, penalty>>
                  /\ counter' = counter \/ counter' = [counter EXCEPT !.ttl = Window]
                BY <3>4 DEF Limiter!Expire, Limiter!Grant
            <4>2. faults' \in 0 .. MaxFaults
                BY <1>4, <3>4 DEF Limiter!Expire
            <4>3. counter' \in [n : Nat, ttl : 0 .. Window]
                BY <1>1, <1>2, <4>1
            <4> QED
                BY <1>1, <4>1, <4>2, <4>3
        <3>5. CASE Limiter!Begin(c) \/ Limiter!Wake(c) \/ Limiter!GiveUp(c)
            BY <1>1, <3>5 DEF Limiter!Begin, Limiter!Wake, Limiter!GiveUp, Limiter!bucketVars, Limiter!redisVars
        <3> QED
            BY <1>8, <3>2, <3>3, <3>4, <3>5 DEF Limiter!CallerStep
    <2>2. CASE /\ UNCHANGED <<tokens, queue, granted>>
               /\ \E e \in CallerShape : caller' = [caller EXCEPT ![c] = e] /\ e.round <= MaxRounds
        BY <1>1, <1>3, <2>1, <2>2
    <2>3. ASSUME Head(queue[s]) = c, queue' = [queue EXCEPT ![s] = Tail(queue[s])],
                 caller' = [caller EXCEPT ![c] = Limiter!Resting]
          PROVE  Queues'
        <3>1. queue[s] # <<>>
            <4>1. caller[c].at # "idle"
                BY <1>8, CallerMoves DEF Holding
            <4>2. PICK i \in 1 .. Len(queue[s]) : queue[s][i] = c
                BY <4>1 DEF LimiterIInv, InTurn
            <4> QED
                BY <4>2
        <3>2. queue' \in [Servers -> Seq(Callers)]
            BY <1>1, <1>5, <2>0, <2>3, <3>1
        <3> QED
            BY <1>1, <1>3, <1>6, <2>3, <3>2
    <2>4. CASE caller[c].at \in {"incr", "expire"} /\ Limiter!Grant(c)
        <3>1. Queues'
            BY <2>3, <2>4 DEF Limiter!Grant, LimiterIInv, InTurn, Holding
        <3>2. Bucket'
            <4>1. /\ tokens' = [tokens EXCEPT ![s] = tokens[s] - Window]
                  /\ granted' = [granted EXCEPT ![s] = Limiter!OneMore(granted[s])]
                BY <2>4 DEF Limiter!Grant
            <4>2. tokens[s] - Window \in 0 .. (Capacity * Window)
                <5> DEFINE m == Capacity * Window
                <5>1. m \in Nat /\ tokens[s] \in 0 .. m /\ tokens[s] >= Window
                    BY <1>1, <1>2, <2>0, <2>4 DEF LimiterIInv, Paced
                <5> HIDE DEF m
                <5> QED
                    BY <1>2, <5>1 DEF m
            <4>3. Limiter!OneMore(granted[s]) \in [0 .. Window -> Nat]
                <5> DEFINE g == granted[s]
                <5>1. g \in [0 .. Window -> Nat]
                    BY <1>1, <2>0
                <5> HIDE DEF g
                <5>2. Limiter!OneMore(g) \in [0 .. Window -> Nat]
                    BY <1>2, <5>1 DEF Limiter!OneMore
                <5> QED
                    BY <5>2 DEF g
            <4> HIDE DEF s
            <4> QED
                BY <1>1, <4>1, <4>2, <4>3
        <3> QED
            BY <1>1, <2>1, <3>1, <3>2
    <2>5. CASE Limiter!GiveUp(c) /\ UNCHANGED <<tokens, granted>>
        <3>1. Queues'
            BY <2>3, <2>5 DEF Limiter!GiveUp, LimiterIInv, InTurn, Holding
        <3> QED
            BY <1>1, <2>1, <2>5, <3>1
    <2> QED
        BY <1>8, <2>2, <2>4, <2>5, CallerMoves
<1>9. ASSUME NEW s \in Servers, NEW ms \in Penalties, Limiter!Penalize(s, ms)
      PROVE  Limiter!TypeOK'
    <2>1. ms \in Nat /\ UNCHANGED <<tokens, queue, caller, counter, granted>>
        BY <1>2, <1>9 DEF Limiter!Penalize
    <2>2. penalty' \in Nat /\ waitLeft' \in [Servers -> Nat]
        BY <1>1, <1>9, <2>1 DEF Limiter!Penalize, Limiter!Greatest
    <2>3. faults' \in 0 .. MaxFaults
        BY <1>4, <1>9 DEF Limiter!Penalize
    <2> QED
        BY <1>1, <2>1, <2>2, <2>3
<1>10. ASSUME NEW s \in Servers, Limiter!Crash(s)
       PROVE  Limiter!TypeOK'
    <2>1. /\ tokens' = [tokens EXCEPT ![s] = Capacity * Window]
          /\ granted' = [granted EXCEPT ![s] = Limiter!NoGrants]
          /\ queue' = [queue EXCEPT ![s] = <<>>] /\ waitLeft' = [waitLeft EXCEPT ![s] = 0]
          /\ caller' = [c \in Callers |-> IF ServerOf[c] = s THEN Limiter!Resting ELSE caller[c]]
          /\ UNCHANGED <<counter, penalty>> /\ Limiter!Fails("crash")
        BY <1>10 DEF Limiter!Crash, Limiter!redisVars
    <2>2. Bucket'
        <3> DEFINE m == Capacity * Window
        <3> HIDE DEF m
        <3>1. m \in 0 .. m
            BY <1>2 DEF m
        <3>2. tokens \in [Servers -> 0 .. m] /\ tokens' = [tokens EXCEPT ![s] = m]
            BY <1>1, <2>1 DEF m
        <3>3. tokens' \in [Servers -> 0 .. m]
            BY <3>1, <3>2
        <3> QED
            BY <1>1, <1>6, <2>1, <3>3 DEF m
    <2>3. Queues'
        BY <1>1, <1>3, <1>6, <2>1
    <2>4. Shares'
        BY <1>1, <1>4, <2>1
    <2> QED
        BY <1>1, <2>2, <2>3, <2>4
<1>11. CASE Limiter!Tick
    <2>1. \A n \in Nat : Limiter!Less(n) \in Nat /\ Limiter!Less(n) <= n
        BY DEF Limiter!Less
    <2>2. Bucket'
        <3>1. \A s \in Servers : Limiter!Refilled(s) \in 0 .. (Capacity * Window)
            <4> DEFINE m == Capacity * Window
            <4>1. m \in Nat /\ \A s \in Servers : tokens[s] \in 0 .. m
                BY <1>1, <1>2
            <4> HIDE DEF m
            <4>2. \A s \in Servers : Limiter!Least(m, tokens[s] + Capacity) \in 0 .. m
                BY <1>2, <4>1 DEF Limiter!Least
            <4> QED
                BY <4>2 DEF Limiter!Refilled, m
        <3>2. \A s \in Servers : Limiter!Aged(granted[s]) \in [0 .. Window -> Nat]
            BY <1>1, <1>2 DEF Limiter!Aged
        <3> QED
            BY <1>11, <3>1, <3>2 DEF Limiter!Tick
    <2>3. Queues'
        <3>1. queue' = queue /\ caller' = [c \in Callers |-> [caller[c] EXCEPT !.sleep = Limiter!Less(@)]]
            BY <1>11 DEF Limiter!Tick
        <3> QED
            BY <1>1, <2>1, <3>1
    <2>4. Shares'
        <3>1. /\ waitLeft' = [s \in Servers |-> Limiter!Less(waitLeft[s])] /\ faults' = faults
              /\ penalty' = Limiter!Less(penalty)
              /\ counter' = IF counter.ttl = 1 THEN [n |-> 0, ttl |-> 0]
                            ELSE [counter EXCEPT !.ttl = Limiter!Less(counter.ttl)]
            BY <1>11 DEF Limiter!Tick
        <3>2. counter.ttl \in 0 .. Window /\ Limiter!Less(counter.ttl) \in 0 .. Window
            BY <1>1, <1>2, <2>1
        <3>3. counter' \in [n : Nat, ttl : 0 .. Window]
            <4>1. [n |-> 0, ttl |-> 0] \in [n : Nat, ttl : 0 .. Window]
                BY <1>2
            <4>2. [counter EXCEPT !.ttl = Limiter!Less(counter.ttl)] \in [n : Nat, ttl : 0 .. Window]
                BY <1>1, <3>2
            <4> QED
                BY <3>1, <4>1, <4>2
        <3> QED
            BY <1>1, <2>1, <3>1, <3>3
    <2> QED
        BY <1>1, <2>2, <2>3, <2>4
<1>12. CASE UNCHANGED Limiter!limiterVars
    BY <1>1, <1>12 DEF Limiter!limiterVars
<1> QED
    BY <1>7, <1>8, <1>9, <1>10, <1>11, <1>12 DEF Limiter!LimiterNext
LEMMA InTurnStep ==
    ASSUME Limiter!RateLimiterAssumption, LimiterIInv, [Limiter!LimiterNext]_Limiter!limiterVars
    PROVE  InTurn'
<1> DEFINE Line(s, q, who) == \A i \in 1 .. Len(q) :
                                /\ ServerOf[q[i]] = s /\ who[q[i]].at # "idle"
                                /\ \A j \in 1 .. Len(q) : q[i] = q[j] => i = j
           Place(c, q, e) == /\ e.at # "idle" => \E i \in 1 .. Len(q) : q[i] = c
                             /\ e.at \in Holding => Head(q) = c
<1>1. /\ queue \in [Servers -> Seq(Callers)] /\ caller \in [Callers -> CallerShape]
      /\ \A s \in Servers : Line(s, queue[s], caller)
      /\ \A c \in Callers : Place(c, queue[ServerOf[c]], caller[c])
      /\ ServerOf \in [Callers -> Servers]
    BY DEF LimiterIInv, InTurn, Limiter!RateLimiterAssumption
<1>2. queue' \in [Servers -> Seq(Callers)] /\ caller' \in [Callers -> CallerShape]
    BY LimiterTypesStep DEF Limiter!TypeOK, CallerShape, Holding
<1>3. ASSUME \A s \in Servers : Line(s, queue'[s], caller'),
             \A c \in Callers : Place(c, queue'[ServerOf[c]], caller'[c])
      PROVE  InTurn'
    BY <1>2, <1>3 DEF InTurn
<1>4. "idle" \notin Holding /\ "queued" \notin Holding
    BY DEF Holding
<1>5. ASSUME queue' = queue,
             \A c \in Callers : /\ caller'[c].at = "idle" <=> caller[c].at = "idle"
                                /\ \/ caller'[c].at \notin Holding \/ caller[c].at \in Holding
                                   \/ Head(queue[ServerOf[c]]) = c
      PROVE  InTurn'
    <2>1. \A s \in Servers : \A i \in 1 .. Len(queue[s]) : queue[s][i] \in Callers
        BY <1>1
    <2>2. \A s \in Servers : Line(s, queue'[s], caller')
        <3> SUFFICES ASSUME NEW s \in Servers, NEW i \in 1 .. Len(queue[s])
                     PROVE  /\ ServerOf[queue[s][i]] = s /\ caller'[queue[s][i]].at # "idle"
                            /\ \A j \in 1 .. Len(queue[s]) : queue[s][i] = queue[s][j] => i = j
            BY <1>5
        <3>1. queue[s][i] \in Callers /\ Line(s, queue[s], caller)
            BY <1>1
        <3> QED
            BY <1>5, <3>1
    <2>3. \A c \in Callers : Place(c, queue'[ServerOf[c]], caller'[c])
        BY <1>1, <1>5
    <2> QED
        BY <1>3, <2>2, <2>3
<1>6. ASSUME NEW c \in Callers, Limiter!Arrive(c)
      PROVE  InTurn'
    <2> DEFINE s == ServerOf[c]
               q == queue[s]
               p == Append(q, c)
    <2>1. /\ caller[c].at = "idle" /\ queue' = [queue EXCEPT ![s] = p]
          /\ caller' = [caller EXCEPT ![c] = [caller[c] EXCEPT !.at = "queued"]]
        BY <1>6 DEF Limiter!Arrive
    <2>2. s \in Servers /\ q \in Seq(Callers) /\ Len(q) \in Nat /\ \A i \in 1 .. Len(q) : q[i] \in Callers /\ q[i] # c
        BY <1>1, <2>1
    <2> HIDE DEF q
    <2>3. /\ Len(p) = Len(q) + 1 /\ p[Len(q) + 1] = c /\ \A i \in 1 .. Len(q) : p[i] = q[i]
          /\ \A i \in 1 .. Len(p) : i \in 1 .. Len(q) \/ i = Len(q) + 1
          /\ Len(q) + 1 \in 1 .. Len(p)
        BY <2>2
    <2>4. caller'[c].at = "queued" /\ \A d \in Callers : d # c => caller'[d] = caller[d]
        BY <1>1, <2>1 DEF CallerShape
    <2>5. Line(s, q, caller)
        BY <1>1, <2>2 DEF q
    <2> HIDE DEF p
    <2>6. Line(s, p, caller')
        <3> SUFFICES ASSUME NEW i \in 1 .. Len(p)
                     PROVE  /\ ServerOf[p[i]] = s /\ caller'[p[i]].at # "idle"
                            /\ \A j \in 1 .. Len(p) : p[i] = p[j] => i = j
            OBVIOUS
        <3>1. CASE i = Len(q) + 1
            BY <2>2, <2>3, <2>4, <3>1
        <3>2. CASE i \in 1 .. Len(q)
            BY <2>2, <2>3, <2>4, <2>5, <3>2
        <3> QED
            BY <2>3, <3>1, <3>2
    <2>7. ASSUME NEW v \in Servers, v # s
          PROVE  Line(v, queue'[v], caller')
        <3>1. queue'[v] = queue[v] /\ Line(v, queue[v], caller)
            BY <1>1, <2>1, <2>7
        <3>2. \A i \in 1 .. Len(queue[v]) : queue[v][i] \in Callers /\ queue[v][i] # c
            BY <1>1, <2>7
        <3> QED
            BY <2>4, <3>1, <3>2
    <2>8. queue'[s] = p
        BY <1>1, <2>1, <2>2
    <2>9. ASSUME NEW d \in Callers
          PROVE  Place(d, queue'[ServerOf[d]], caller'[d])
        <3>1. CASE d = c
            BY <1>4, <2>3, <2>4, <2>8, <3>1
        <3>2. CASE d # c /\ ServerOf[d] = s
            <4>1. Place(d, q, caller[d]) /\ caller'[d] = caller[d]
                <5>1. Place(d, queue[ServerOf[d]], caller[d])
                    BY <1>1
                <5> QED
                    BY <2>4, <3>2, <5>1 DEF q
            <4>2. caller[d].at # "idle" => \E i \in 1 .. Len(p) : p[i] = d
                BY <2>2, <2>3, <4>1
            <4>3. caller[d].at \in Holding => Head(p) = d
                <5> SUFFICES ASSUME caller[d].at \in Holding
                             PROVE  Head(p) = d
                    OBVIOUS
                <5>1. Head(q) = d /\ \E i \in 1 .. Len(q) : q[i] = d
                    BY <1>4, <4>1
                <5>2. Len(q) >= 1 /\ 1 \in 1 .. Len(q) /\ Head(q) = q[1]
                    BY <2>2, <5>1
                <5>3. Head(p) = p[1]
                    OBVIOUS
                <5> QED
                    BY <2>3, <5>1, <5>2, <5>3
            <4> QED
                BY <2>8, <3>2, <4>1, <4>2, <4>3
        <3>3. CASE ServerOf[d] # s
            <4>1. d # c /\ queue'[ServerOf[d]] = queue[ServerOf[d]] /\ caller'[d] = caller[d]
                BY <1>1, <2>1, <2>4, <3>3
            <4> QED
                BY <1>1, <4>1
        <3> QED
            BY <3>1, <3>2, <3>3
    <2> QED
        BY <1>3, <2>6, <2>7, <2>8, <2>9
<1>7. ASSUME NEW c \in Callers, caller[c].at \in Holding,
             caller' = [caller EXCEPT ![c] = Limiter!Resting],
             queue' = [queue EXCEPT ![ServerOf[c]] = Tail(queue[ServerOf[c]])]
      PROVE  InTurn'
    <2> DEFINE s == ServerOf[c]
               q == queue[s]
               p == Tail(q)
    <2>1. /\ s \in Servers /\ q \in Seq(Callers) /\ Len(q) \in Nat /\ Len(q) >= 1 /\ q[1] = c
          /\ \A i \in 1 .. Len(q) : q[i] \in Callers
        <3>1. Head(q) = c /\ q \in Seq(Callers) /\ s \in Servers
            BY <1>1, <1>7
        <3>2. PICK i \in 1 .. Len(q) : q[i] = c
            BY <1>1, <1>4, <1>7
        <3> HIDE DEF q
        <3> QED
            BY <3>1, <3>2
    <2>2. queue'[s] = p /\ \A v \in Servers : v # s => queue'[v] = queue[v]
        BY <1>1, <1>7, <2>1
    <2>3. caller'[c].at = "idle" /\ \A d \in Callers : d # c => caller'[d] = caller[d]
        BY <1>1, <1>7 DEF Limiter!Resting
    <2>4. Line(s, q, caller)
        BY <1>1, <2>1
    <2>5. \A d \in Callers : ServerOf[d] = s => Place(d, q, caller[d])
        BY <1>1
    <2> HIDE DEF q
    <2>6. /\ Len(p) = Len(q) - 1 /\ \A i \in 1 .. Len(p) : p[i] = q[i + 1] /\ i + 1 \in 1 .. Len(q)
        BY <2>1
    <2>7. \A i \in 1 .. Len(q) : q[i] = c => i = 1
        BY <2>1, <2>4
    <2> HIDE DEF p
    <2>8. \A i \in 1 .. Len(p) : i + 1 # 1
        BY <2>1, <2>6
    <2>9. Line(s, p, caller')
        <3> SUFFICES ASSUME NEW i \in 1 .. Len(p)
                     PROVE  /\ ServerOf[p[i]] = s /\ caller'[p[i]].at # "idle"
                            /\ \A j \in 1 .. Len(p) : p[i] = p[j] => i = j
            OBVIOUS
        <3>1. p[i] = q[i + 1] /\ i + 1 \in 1 .. Len(q) /\ p[i] # c /\ p[i] \in Callers
            BY <2>1, <2>6, <2>7, <2>8
        <3>2. ServerOf[p[i]] = s /\ caller'[p[i]].at # "idle"
            BY <2>3, <2>4, <3>1
        <3>3. \A j \in 1 .. Len(p) : p[i] = p[j] => i + 1 = j + 1
            BY <2>4, <2>6, <3>1
        <3> QED
            BY <2>1, <2>6, <3>2, <3>3
    <2>10. ASSUME NEW v \in Servers, v # s
           PROVE  Line(v, queue[v], caller')
        <3>1. \A i \in 1 .. Len(queue[v]) : queue[v][i] \in Callers /\ queue[v][i] # c
            BY <1>1, <2>10
        <3> QED
            BY <1>1, <2>3, <3>1
    <2>11. ASSUME NEW d \in Callers
           PROVE  Place(d, queue'[ServerOf[d]], caller'[d])
        <3>1. CASE d = c
            BY <1>4, <2>3, <3>1
        <3>2. CASE d # c /\ ServerOf[d] = s
            <4>1. caller'[d] = caller[d] /\ Place(d, q, caller[d])
                BY <2>3, <2>5, <3>2
            <4>2. caller[d].at \notin Holding
                <5>1. Head(q) = c
                    BY <2>1
                <5> QED
                    BY <3>2, <4>1, <5>1
            <4>3. ASSUME caller[d].at # "idle"
                  PROVE  \E i \in 1 .. Len(p) : p[i] = d
                <5>1. PICK i \in 1 .. Len(q) : q[i] = d
                    BY <4>1, <4>3
                <5>2. i # 1
                    BY <2>1, <3>2, <5>1
                <5>3. i - 1 \in 1 .. Len(p) /\ (i - 1) + 1 = i
                    BY <2>1, <2>6, <5>1, <5>2
                <5> QED
                    BY <2>6, <5>1, <5>3
            <4> QED
                BY <2>2, <3>2, <4>1, <4>2, <4>3
        <3>3. CASE ServerOf[d] # s
            <4>1. d # c /\ queue'[ServerOf[d]] = queue[ServerOf[d]] /\ caller'[d] = caller[d]
                BY <1>1, <2>2, <2>3, <3>3
            <4> QED
                BY <1>1, <4>1
        <3> QED
            BY <3>1, <3>2, <3>3
    <2> QED
        BY <1>3, <2>2, <2>9, <2>10, <2>11
<1>8. ASSUME NEW c \in Callers, Limiter!CallerStep(c)
      PROVE  InTurn'
    <2>1. /\ caller[c].at \in Holding \/ (caller[c].at = "queued" /\ Head(queue[ServerOf[c]]) = c)
        BY <1>8, CallerMoves
    <2>2. ASSUME queue' = queue, NEW e \in CallerShape, caller' = [caller EXCEPT ![c] = e], e.at \in Holding
          PROVE  InTurn'
        <3>1. caller'[c] = e /\ \A d \in Callers : d # c => caller'[d] = caller[d]
            BY <1>1, <2>2
        <3>2. caller[c].at # "idle" /\ e.at # "idle"
            BY <1>4, <2>1, <2>2
        <3> QED
            BY <1>5, <2>1, <2>2, <3>1, <3>2
    <2>3. CASE caller[c].at \in {"incr", "expire"} /\ Limiter!Grant(c)
        BY <1>7, <2>3 DEF Limiter!Grant, Holding
    <2>4. CASE Limiter!GiveUp(c)
        BY <1>7, <2>4 DEF Limiter!GiveUp, Holding
    <2> QED
        BY <1>8, <2>2, <2>3, <2>4, CallerMoves
<1>9. CASE Limiter!Tick
    <2>1. queue' = queue /\ caller' = [c \in Callers |-> [caller[c] EXCEPT !.sleep = Limiter!Less(@)]]
        BY <1>9 DEF Limiter!Tick
    <2>2. \A c \in Callers : caller'[c].at = caller[c].at
        BY <1>1, <2>1 DEF CallerShape
    <2> QED
        BY <1>5, <2>1, <2>2
<1>10. ASSUME NEW s \in Servers, Limiter!Crash(s)
       PROVE  InTurn'
    <2>1. /\ queue' = [queue EXCEPT ![s] = <<>>]
          /\ caller' = [c \in Callers |-> IF ServerOf[c] = s THEN Limiter!Resting ELSE caller[c]]
        BY <1>10 DEF Limiter!Crash
    <2>2. ASSUME NEW v \in Servers
          PROVE  Line(v, queue'[v], caller')
        <3>1. CASE v = s
            BY <1>1, <2>1, <3>1
        <3>2. CASE v # s
            <4>1. queue'[v] = queue[v] /\ Line(v, queue[v], caller)
                BY <1>1, <2>1, <3>2
            <4>2. \A i \in 1 .. Len(queue[v]) : queue[v][i] \in Callers /\ caller'[queue[v][i]] = caller[queue[v][i]]
                BY <1>1, <2>1, <3>2, <4>1
            <4> QED
                BY <4>1, <4>2
        <3> QED
            BY <3>1, <3>2
    <2>3. ASSUME NEW c \in Callers
          PROVE  Place(c, queue'[ServerOf[c]], caller'[c])
        BY <1>1, <1>4, <2>1 DEF Limiter!Resting
    <2> QED
        BY <1>3, <2>2, <2>3
<1>11. CASE UNCHANGED <<queue, caller>>
    BY <1>5, <1>11
<1> QED
    BY <1>6, <1>8, <1>9, <1>10, <1>11 DEF Limiter!LimiterNext, Limiter!Penalize, Limiter!limiterVars
\* The sum over k ticks: what was handed out, in units of 1 / Window token, and what is left.
LEMMA BudgetMoves ==
    ASSUME NEW W \in Nat \ {0}, NEW C \in Nat \ {0}, NEW g \in [0 .. W -> Nat], NEW t \in Nat,
           \A k \in 0 .. W : g[k] * W + t <= C * W + k * C
    PROVE  /\ t >= W => \A k \in 0 .. W : (g[k] + 1) * W + (t - W) <= C * W + k * C
           /\ \A u \in Nat : u <= t + C /\ u <= C * W =>
                /\ 0 * W + u <= C * W + 0 * C
                /\ \A k \in 1 .. W : g[k - 1] * W + u <= C * W + k * C
<1>1. ASSUME t >= W, NEW k \in 0 .. W
      PROVE  (g[k] + 1) * W + (t - W) <= C * W + k * C
    <2> DEFINE x == g[k] * W
               y == C * W + k * C
    <2>1. x + t <= y
        OBVIOUS
    <2>2. (g[k] + 1) * W = x + W /\ x \in Nat /\ y \in Nat
        <3>1. g[k] \in Nat /\ k \in Nat
            OBVIOUS
        <3>2. \A n \in Nat : (n + 1) * W = n * W + W /\ n * W \in Nat
            OBVIOUS
        <3>3. C * W \in Nat /\ \A n \in Nat : n * C \in Nat
            OBVIOUS
        <3>4. \A m, n \in Nat : m + n \in Nat
            OBVIOUS
        <3> QED
            BY <3>1, <3>2, <3>3, <3>4
    <2> HIDE DEF x, y
    <2>3. (x + W) + (t - W) <= y
        BY <2>1, <2>2
    <2> QED
        BY <2>2, <2>3 DEF y
<1>2. ASSUME NEW u \in Nat, u <= t + C, u <= C * W
      PROVE  /\ 0 * W + u <= C * W + 0 * C
             /\ \A k \in 1 .. W : g[k - 1] * W + u <= C * W + k * C
    <2>1. 0 * W + u <= C * W + 0 * C
        <3> DEFINE m == C * W
        <3>1. 0 * W = 0 /\ 0 * C = 0 /\ m \in Nat /\ u <= m
            BY <1>2
        <3> HIDE DEF m
        <3>2. 0 + u <= m + 0
            BY <3>1
        <3> QED
            BY <3>1, <3>2 DEF m
    <2>2. ASSUME NEW k \in 1 .. W
          PROVE  g[k - 1] * W + u <= C * W + k * C
        <3> DEFINE x == g[k - 1] * W
                   m == C * W
                   z == (k - 1) * C
        <3>1. k - 1 \in 0 .. W
            OBVIOUS
        <3>2. x + t <= m + z
            BY <3>1
        <3>3. k * C = z + C /\ x \in Nat /\ m \in Nat /\ z \in Nat
            <4>1. g[k - 1] \in Nat /\ k - 1 \in Nat /\ (k - 1) + 1 = k
                BY <3>1
            <4>2. \A n \in Nat : (n + 1) * C = n * C + C /\ n * C \in Nat /\ n * W \in Nat
                OBVIOUS
            <4> QED
                BY <4>1, <4>2
        <3> HIDE DEF x, m, z
        <3>4. x + u <= m + (z + C)
            BY <1>2, <3>2, <3>3
        <3> QED
            BY <3>3, <3>4 DEF x, m
    <2> QED
        BY <2>1, <2>2
<1> QED
    BY <1>1, <1>2

LEMMA PacedStep ==
    ASSUME Limiter!RateLimiterAssumption, LimiterIInv, [Limiter!LimiterNext]_Limiter!limiterVars
    PROVE  Paced'
<1> DEFINE Within(g, t) == \A k \in 0 .. Window : g[k] * Window + t <= Capacity * Window + k * Capacity
           Fit(e, t) == /\ e.at # "asleep" => e.round < MaxRounds
                        /\ e.at \in {"incr", "expire"} => t >= Window
           full == Capacity * Window
<1>1. /\ ServerOf \in [Callers -> Servers] /\ Window \in Nat \ {0} /\ Capacity \in Nat \ {0}
      /\ MaxRounds \in Nat \ {0} /\ full \in Nat
      /\ tokens \in [Servers -> 0 .. full] /\ granted \in [Servers -> [0 .. Window -> Nat]]
      /\ caller \in [Callers -> CallerShape]
    BY DEF Limiter!RateLimiterAssumption, LimiterIInv, Limiter!TypeOK, InTurn
<1>2. /\ \A s \in Servers : Within(granted[s], tokens[s])
      /\ \A c \in Callers : Fit(caller[c], tokens[ServerOf[c]])
    BY DEF LimiterIInv, Paced
<1>3. ASSUME \A s \in Servers : Within(granted'[s], tokens'[s]),
             \A c \in Callers : Fit(caller'[c], tokens'[ServerOf[c]])
      PROVE  Paced'
    BY <1>3 DEF Paced
<1>4. ASSUME NEW t PROVE  Fit(Limiter!Resting, t)
    BY <1>1 DEF Limiter!Resting
<1> HIDE DEF Within, Fit, full
<1>5. ASSUME UNCHANGED <<tokens, granted>>, NEW c \in Callers, NEW e, caller' = [caller EXCEPT ![c] = e],
             Fit(e, tokens[ServerOf[c]])
      PROVE  Paced'
    BY <1>1, <1>2, <1>3, <1>5
<1>6. ASSUME NEW c \in Callers, Limiter!Arrive(c)
      PROVE  Paced'
    <2>1. /\ UNCHANGED <<tokens, granted>> /\ caller[c].at = "idle"
          /\ caller' = [caller EXCEPT ![c] = [caller[c] EXCEPT !.at = "queued"]]
        BY <1>6 DEF Limiter!Arrive
    <2>2. Fit([caller[c] EXCEPT !.at = "queued"], tokens[ServerOf[c]])
        BY <1>1, <1>2, <2>1 DEF Fit, CallerShape
    <2> QED
        BY <1>5, <2>1, <2>2
<1>7. ASSUME NEW c \in Callers, caller[c].at \in {"incr", "expire"}, Limiter!Grant(c)
      PROVE  Paced'
    <2> DEFINE s == ServerOf[c]
    <2>1. /\ s \in Servers /\ tokens' = [tokens EXCEPT ![s] = tokens[s] - Window]
          /\ granted' = [granted EXCEPT ![s] = Limiter!OneMore(granted[s])]
          /\ caller' = [caller EXCEPT ![c] = Limiter!Resting]
        BY <1>1, <1>7 DEF Limiter!Grant
    <2>2. tokens[s] >= Window /\ tokens[s] \in Nat
        BY <1>1, <1>2, <1>7, <2>1 DEF Fit
    <2>3. ASSUME NEW v \in Servers
          PROVE  Within(granted'[v], tokens'[v])
        <3>1. CASE v = s
            <4> DEFINE g == granted[s]
                       t == tokens[s]
            <4>1. g \in [0 .. Window -> Nat] /\ t \in Nat /\ t >= Window /\ Within(g, t)
                BY <1>1, <1>2, <2>1, <2>2
            <4>2. tokens'[v] = t - Window /\ granted'[v] = Limiter!OneMore(g)
                BY <1>1, <2>1, <3>1
            <4> HIDE DEF g, t
            <4>3. \A k \in 0 .. Window : (g[k] + 1) * Window + (t - Window) <= Capacity * Window + k * Capacity
                BY <1>1, <4>1, BudgetMoves DEF Within
            <4>4. \A k \in 0 .. Window : Limiter!OneMore(g)[k] = g[k] + 1
                BY <1>1 DEF Limiter!OneMore
            <4> QED
                BY <4>2, <4>3, <4>4 DEF Within
        <3>2. CASE v # s
            BY <1>1, <1>2, <2>1, <3>2
        <3> QED
            BY <3>1, <3>2
    <2>4. ASSUME NEW d \in Callers
          PROVE  Fit(caller'[d], tokens'[ServerOf[d]])
        <3>1. CASE d = c
            BY <1>1, <1>4, <2>1, <3>1
        <3>2. CASE d # c /\ ServerOf[d] = s
            <4>1. caller[d].at \notin {"incr", "expire"}
                BY <1>7, <3>2 DEF LimiterIInv, InTurn, Holding
            <4>2. caller'[d] = caller[d]
                BY <1>1, <2>1, <3>2
            <4> QED
                BY <1>2, <4>1, <4>2 DEF Fit
        <3>3. CASE ServerOf[d] # s
            <4>1. caller'[d] = caller[d] /\ tokens'[ServerOf[d]] = tokens[ServerOf[d]]
                BY <1>1, <2>1, <3>3
            <4> QED
                BY <1>2, <4>1
        <3> QED
            BY <3>1, <3>2, <3>3
    <2> QED
        BY <1>3, <2>3, <2>4
<1>8. ASSUME NEW c \in Callers, Limiter!CallerStep(c)
      PROVE  Paced'
    <2>1. CASE /\ UNCHANGED <<tokens, granted>>
               /\ \E e \in CallerShape :
                    /\ caller' = [caller EXCEPT ![c] = e]
                    /\ e.at # "asleep" => e.round < MaxRounds
                    /\ e.at \in {"incr", "expire"} => tokens[ServerOf[c]] >= Window
        BY <1>5, <2>1 DEF Fit
    <2>2. CASE Limiter!GiveUp(c) /\ UNCHANGED <<tokens, granted>>
        BY <1>4, <1>5, <2>2 DEF Limiter!GiveUp
    <2> QED
        BY <1>7, <1>8, <2>1, <2>2, CallerMoves
<1>9. CASE Limiter!Tick
    <2>1. /\ \A c \in Callers : caller[c].at \in {"idle", "queued", "asleep"}
          /\ tokens' = [s \in Servers |-> Limiter!Refilled(s)]
          /\ caller' = [c \in Callers |-> [caller[c] EXCEPT !.sleep = Limiter!Less(@)]]
          /\ granted' = [s \in Servers |-> Limiter!Aged(granted[s])]
        BY <1>9 DEF Limiter!Tick
    <2>2. \A c \in Callers : caller'[c].at = caller[c].at /\ caller'[c].round = caller[c].round
        BY <1>1, <2>1 DEF CallerShape
    <2>3. \A c \in Callers : Fit(caller'[c], tokens'[ServerOf[c]])
        BY <1>2, <2>1, <2>2 DEF Fit
    <2>4. ASSUME NEW s \in Servers
          PROVE  Within(granted'[s], tokens'[s])
        <3> DEFINE g == granted[s]
                   t == tokens[s]
                   u == Limiter!Refilled(s)
        <3>1. g \in [0 .. Window -> Nat] /\ t \in Nat /\ t <= full /\ Within(g, t)
            BY <1>1, <1>2
        <3>2. u = Limiter!Least(full, t + Capacity)
            BY DEF Limiter!Refilled, full
        <3>3. tokens'[s] = u /\ granted'[s] = Limiter!Aged(g)
            BY <2>1
        <3> HIDE DEF g, t, u
        <3>4. u \in Nat /\ u <= t + Capacity /\ u <= full
            BY <1>1, <3>1, <3>2 DEF Limiter!Least
        <3>5. /\ 0 * Window + u <= Capacity * Window + 0 * Capacity
              /\ \A k \in 1 .. Window : g[k - 1] * Window + u <= Capacity * Window + k * Capacity
            BY <1>1, <3>1, <3>4, BudgetMoves DEF Within, full
        <3>6. \A k \in 0 .. Window : Limiter!Aged(g)[k] = IF k = 0 THEN 0 ELSE g[k - 1]
            BY <1>1 DEF Limiter!Aged
        <3>7. \A k \in 0 .. Window : k = 0 \/ k \in 1 .. Window
            BY <1>1
        <3>8. \A k \in 1 .. Window : k # 0 /\ k \in 0 .. Window
            BY <1>1
        <3>9. ASSUME NEW k \in 0 .. Window
              PROVE  Limiter!Aged(g)[k] * Window + u <= Capacity * Window + k * Capacity
            <4>1. CASE k = 0
                BY <3>5, <3>6, <4>1
            <4>2. CASE k \in 1 .. Window
                <5>1. Limiter!Aged(g)[k] = g[k - 1]
                    BY <3>6, <3>8, <4>2
                <5> QED
                    BY <3>5, <4>2, <5>1
            <4> QED
                BY <3>7, <4>1, <4>2
        <3> QED
            BY <3>3, <3>9 DEF Within
    <2> QED
        BY <1>3, <2>3, <2>4
<1>10. ASSUME NEW s \in Servers, Limiter!Crash(s)
       PROVE  Paced'
    <2>1. /\ tokens' = [tokens EXCEPT ![s] = full]
          /\ granted' = [granted EXCEPT ![s] = Limiter!NoGrants]
          /\ caller' = [c \in Callers |-> IF ServerOf[c] = s THEN Limiter!Resting ELSE caller[c]]
        BY <1>10 DEF Limiter!Crash, full
    <2>2. Within(Limiter!NoGrants, full)
        <3> SUFFICES ASSUME NEW k \in 0 .. Window
                     PROVE  Limiter!NoGrants[k] * Window + full <= full + k * Capacity
            BY DEF Within, full
        <3>1. Limiter!NoGrants[k] = 0 /\ 0 * Window = 0
            BY <1>1 DEF Limiter!NoGrants
        <3>2. \A n \in Nat : n * Capacity \in Nat
            BY <1>1
        <3>3. k \in Nat
            BY <1>1
        <3> DEFINE z == k * Capacity
        <3>4. z \in Nat
            BY <3>2, <3>3
        <3> HIDE DEF z
        <3>5. 0 + full <= full + z
            BY <1>1, <3>4
        <3> QED
            BY <3>1, <3>5 DEF z
    <2>3. \A v \in Servers : Within(granted'[v], tokens'[v])
        BY <1>1, <1>2, <2>1, <2>2
    <2>4. \A c \in Callers : Fit(caller'[c], tokens'[ServerOf[c]])
        BY <1>1, <1>2, <1>4, <2>1
    <2> QED
        BY <1>3, <2>3, <2>4
<1>11. CASE UNCHANGED <<tokens, granted, caller>>
    BY <1>2, <1>3, <1>11
<1> QED
    BY <1>6, <1>8, <1>9, <1>10, <1>11 DEF Limiter!LimiterNext, Limiter!Penalize, Limiter!limiterVars

LEMMA LimiterStarts ==
    ASSUME Limiter!RateLimiterAssumption, Limiter!LimiterInit
    PROVE  LimiterIInv
<1>1. /\ Window \in Nat \ {0} /\ Capacity \in Nat \ {0} /\ MaxRounds \in Nat \ {0} /\ MaxFaults \in Nat
      /\ ServerOf \in [Callers -> Servers] /\ Capacity * Window \in Nat
    BY DEF Limiter!RateLimiterAssumption
<1>2. /\ tokens = [s \in Servers |-> Capacity * Window]
      /\ waitLeft = [s \in Servers |-> 0] /\ queue = [s \in Servers |-> <<>>]
      /\ caller = [c \in Callers |-> Limiter!Resting]
      /\ counter = [n |-> 0, ttl |-> 0] /\ penalty = 0
      /\ granted = [s \in Servers |-> Limiter!NoGrants] /\ issued = Limiter!NoGrants /\ faults = 0
    BY DEF Limiter!LimiterInit
<1>3. /\ Limiter!NoGrants \in [0 .. Window -> Nat] /\ Limiter!Resting \in CallerShape
      /\ Limiter!Resting.at = "idle" /\ Limiter!Resting.round = 0
      /\ Limiter!Resting \in [at : {"idle", "queued", "round", "incr", "expire", "asleep"},
                              round : 0 .. MaxRounds, sleep : Nat]
    BY <1>1 DEF Limiter!NoGrants, Limiter!Resting, CallerShape
<1>4. Capacity * Window \in 0 .. (Capacity * Window)
    BY <1>1
<1>5. Limiter!TypeOK
    BY <1>1, <1>2, <1>3, <1>4 DEF Limiter!TypeOK
<1>6. InTurn
    BY <1>1, <1>2, <1>3 DEF InTurn, Holding
<1>7. Paced
    <2>1. ASSUME NEW k \in 0 .. Window
          PROVE  Limiter!NoGrants[k] * Window + Capacity * Window <= Capacity * Window + k * Capacity
        <3> DEFINE z == k * Capacity
                   full == Capacity * Window
        <3>1. Limiter!NoGrants[k] = 0 /\ 0 * Window = 0 /\ full \in Nat /\ k \in Nat
            BY <1>1 DEF Limiter!NoGrants
        <3>2. \A n \in Nat : n * Capacity \in Nat
            BY <1>1
        <3>3. z \in Nat
            BY <3>1, <3>2
        <3> HIDE DEF z, full
        <3>4. 0 + full <= full + z
            BY <3>1, <3>3
        <3> QED
            BY <3>1, <3>4 DEF z, full
    <2>2. \A c \in Callers : caller[c].at = "idle" /\ caller[c].round = 0
        BY <1>2, <1>3
    <2> QED
        BY <1>1, <1>2, <2>1, <2>2 DEF Paced
<1> QED
    BY <1>5, <1>6, <1>7 DEF LimiterIInv

LEMMA LimiterInvariance ==
    ASSUME Limiter!RateLimiterAssumption
    PROVE  Limiter!LimiterSpec => []LimiterIInv
<1>1. Limiter!LimiterInit => LimiterIInv
    BY LimiterStarts
<1>2. LimiterIInv /\ [Limiter!LimiterNext]_Limiter!limiterVars => LimiterIInv'
    BY LimiterTypesStep, InTurnStep, PacedStep DEF LimiterIInv
<1> QED
    BY <1>1, <1>2, PTL DEF Limiter!LimiterSpec

\* However many acquires there are, in whatever processes, and however they are
\* penalized, crash and lose Redis: no process hands out more tokens in any stretch of
\* time than a full bucket and its refill (acquire and penalize of ratelimit.ts).
THEOREM GrantsArePacedAlways ==
    ASSUME Limiter!RateLimiterAssumption
    PROVE  Limiter!LimiterSpec => [](Limiter!TypeOK /\ Limiter!PacedGrants)
<1>1. LimiterIInv => Limiter!TypeOK /\ Limiter!PacedGrants
    <2> SUFFICES ASSUME LimiterIInv, NEW s \in Servers, NEW k \in 0 .. Window
                 PROVE  granted[s][k] * Window <= Capacity * Window + k * Capacity
        BY DEF LimiterIInv, Limiter!PacedGrants, Limiter!GrantsWithin
    <2> DEFINE x == granted[s][k] * Window
               y == Capacity * Window + k * Capacity
               t == tokens[s]
    <2>1. x + t <= y /\ t \in Nat
        BY DEF LimiterIInv, Paced, Limiter!TypeOK
    <2>2. x \in Nat /\ y \in Nat
        <3>1. granted[s][k] \in Nat /\ k \in Nat /\ Window \in Nat /\ Capacity \in Nat
            BY DEF LimiterIInv, Limiter!TypeOK, Limiter!RateLimiterAssumption
        <3>2. \A m, n \in Nat : m * n \in Nat /\ m + n \in Nat
            OBVIOUS
        <3> QED
            BY <3>1, <3>2
    <2> HIDE DEF x, y, t
    <2>3. x <= y
        BY <2>1, <2>2
    <2> QED
        BY <2>3 DEF x, y
<1> QED
    BY <1>1, LimiterInvariance, PTL

\* A round that starts under a penalty, of its own process or of any other, never claims
\* a token, whatever else fails, unless its own read of the shared deadline does (acquire
\* and penalize of ratelimit.ts).
THEOREM PenaltiesKeepOff ==
    ASSUME Limiter!RateLimiterAssumption
    PROVE  Limiter!LimiterSpec => [][Limiter!PenaltyKeepsOff]_Limiter!limiterVars
<1>1. LimiterIInv /\ [Limiter!LimiterNext]_Limiter!limiterVars => [Limiter!PenaltyKeepsOff]_Limiter!limiterVars
    <2> SUFFICES ASSUME LimiterIInv, [Limiter!LimiterNext]_Limiter!limiterVars, NEW c \in Callers,
                        caller[c].at = "round", caller'[c].at = "incr"
                 PROVE  waitLeft[ServerOf[c]] = 0 /\ (Redis /\ faults' = faults => penalty = 0)
        BY DEF Limiter!PenaltyKeepsOff
    <2> DEFINE s == ServerOf[c]
    <2>1. /\ caller \in [Callers -> CallerShape] /\ s \in Servers
          /\ waitLeft[s] \in Nat /\ penalty \in Nat
        BY DEF LimiterIInv, InTurn, Limiter!TypeOK, Limiter!RateLimiterAssumption
    <2>2. \A d \in Callers : ~Limiter!Arrive(d)
        BY <2>1 DEF Limiter!Arrive, CallerShape
    <2>3. \A d \in Callers : Limiter!CallerStep(d) => d = c
        <3> SUFFICES ASSUME NEW d \in Callers, Limiter!CallerStep(d), d # c
                     PROVE  caller'[c] = caller[c]
            OBVIOUS
        <3>1. PICK e : caller' = [caller EXCEPT ![d] = e]
            BY CallerMoves DEF Limiter!Grant, Limiter!GiveUp
        <3> QED
            BY <2>1, <3>1
    <2>4. ~Limiter!Tick
        BY DEF Limiter!Tick
    <2>5. \A v \in Servers : ~Limiter!Crash(v) /\ \A ms \in Penalties : ~Limiter!Penalize(v, ms)
        BY <2>1 DEF Limiter!Crash, Limiter!Penalize, Limiter!Resting
    <2>6. Limiter!CallerStep(c)
        BY <2>2, <2>3, <2>4, <2>5 DEF Limiter!LimiterNext, Limiter!limiterVars
    <2>7. Limiter!Round(c)
        <3>1. ~Limiter!Grant(c)
            BY <2>1 DEF Limiter!Grant, Limiter!Resting
        <3> QED
            BY <2>6 DEF Limiter!CallerStep, Limiter!Begin, Limiter!Incr, Limiter!Expire, Limiter!Wake, Limiter!GiveUp
    <2>8. PICK d \in {0, penalty} :
            LET w == Limiter!Greatest(waitLeft[s], IF Redis THEN d ELSE 0)
            IN  /\ d = penalty \/ ~Redis \/ faults' # faults
                /\ caller'[c] = IF w > 0 THEN Limiter!Sleeping(c, Limiter!Least(w, MaxSleep))
                                ELSE IF tokens[s] >= Window THEN [caller[c] EXCEPT !.at = "incr"]
                                ELSE Limiter!Sleeping(c, Limiter!Least(Limiter!Ceil(Window - tokens[s], Capacity), MaxSleep))
        <3>1. faults \in Nat
            BY DEF LimiterIInv, Limiter!TypeOK
        <3> QED
            BY <2>1, <2>7, <3>1 DEF Limiter!Round, Limiter!Fails
    <2> DEFINE w == Limiter!Greatest(waitLeft[s], IF Redis THEN d ELSE 0)
    <2>9. ~(w > 0)
        BY <2>8 DEF Limiter!Sleeping
    <2>10. \A a, b \in Nat : ~(Limiter!Greatest(a, b) > 0) => a = 0 /\ b = 0
        BY DEF Limiter!Greatest
    <2>11. waitLeft[s] = 0 /\ (IF Redis THEN d ELSE 0) = 0
        BY <2>1, <2>9, <2>10
    <2> QED
        BY <2>8, <2>11
<1> QED
    BY <1>1, LimiterInvariance, PTL DEF Limiter!LimiterSpec

\* A penalty that lands while a round of its process waits for Redis lets that round's
\* token go, and no other: whoever is past the check holds the queue alone (the loop of
\* acquire, its read of the deadline before the await and none after it).
THEOREM PenaltyLetsOneGoAlways ==
    ASSUME Limiter!RateLimiterAssumption
    PROVE  Limiter!LimiterSpec => [][Limiter!PenaltyLetsOneGo]_Limiter!limiterVars
<1>1. LimiterIInv /\ [Limiter!LimiterNext]_Limiter!limiterVars => [Limiter!PenaltyLetsOneGo]_Limiter!limiterVars
    <2> SUFFICES ASSUME LimiterIInv, [Limiter!LimiterNext]_Limiter!limiterVars, NEW s \in Servers, Limiter!Granting(s),
                        NEW d \in Callers, ServerOf[d] = s
                 PROVE  caller'[d].at \notin {"incr", "expire"}
        BY DEF Limiter!PenaltyLetsOneGo
    <2>0. Window \in Nat /\ 0 \in 0 .. Window
        BY DEF Limiter!RateLimiterAssumption
    <2>1. /\ caller \in [Callers -> CallerShape] /\ granted[s][0] \in Nat
          /\ granted \in [Servers -> [0 .. Window -> Nat]] /\ 0 \in 0 .. Window
        <3>1. granted \in [Servers -> [0 .. Window -> Nat]]
            BY DEF LimiterIInv, Limiter!TypeOK
        <3>2. granted[s] \in [0 .. Window -> Nat]
            BY <3>1
        <3> QED
            BY <2>0, <3>1, <3>2 DEF LimiterIInv, InTurn
    <2>2. ~Limiter!Tick
        <3>1. Limiter!Aged(granted[s])[0] = 0
            BY <2>1 DEF Limiter!Aged
        <3> QED
            BY <2>1, <3>1 DEF Limiter!Tick, Limiter!Granting
    <2>3. \A v \in Servers : ~Limiter!Crash(v) /\ \A ms \in Penalties : ~Limiter!Penalize(v, ms)
        <3>1. Limiter!NoGrants[0] = 0
            BY <2>1 DEF Limiter!NoGrants
        <3>2. granted'[s] # granted[s] /\ granted'[s] # Limiter!NoGrants
            BY <2>1, <3>1 DEF Limiter!Granting
        <3> QED
            BY <2>1, <3>2 DEF Limiter!Crash, Limiter!Penalize
    <2>4. granted' # granted
        BY <2>1 DEF Limiter!Granting
    <2>5. PICK c \in Callers : Limiter!Grant(c) /\ caller[c].at \in {"incr", "expire"}
        BY <2>2, <2>3, <2>4 DEF Limiter!LimiterNext, Limiter!limiterVars, Limiter!Arrive, Limiter!CallerStep,
                               Limiter!Begin, Limiter!Round, Limiter!Incr, Limiter!Expire, Limiter!Wake, Limiter!GiveUp
    <2>6. ServerOf[c] = s
        BY <2>1, <2>5 DEF Limiter!Grant, Limiter!Granting
    <2>7. caller' = [caller EXCEPT ![c] = Limiter!Resting]
        BY <2>5 DEF Limiter!Grant
    <2>8. CASE d = c
        BY <2>1, <2>7, <2>8 DEF Limiter!Resting
    <2>9. CASE d # c
        <3>1. Head(queue[s]) = c /\ (caller[d].at \in {"incr", "expire"} => Head(queue[s]) = d)
            BY <2>5, <2>6 DEF LimiterIInv, InTurn, Holding
        <3> QED
            BY <2>1, <2>7, <2>9, <3>1
    <2> QED
        BY <2>8, <2>9
<1> QED
    BY <1>1, LimiterInvariance, PTL DEF Limiter!LimiterSpec

(***************************************************************************)
(* Reading a CV (lib/candidate/cv-ai.ts).                                  *)
(***************************************************************************)

CONSTANTS Cvs, Scans, Short, Pages, Named, Plain, Mentioned, Baseline, TextKey, VisionKey
VARIABLES cache, req, inflight, failures

\* Requests, MaxCalls and calls are shared with the token cache, MaxFailures with the throttle.
Cv == INSTANCE CvExtraction

Calling == [cv : Cvs, at : {"running", "landed", "failed"}]
Profiles == UNION {{Cv!regexProfile(c), Cv!Extracted(c), Cv!Seen(c)} : c \in Cvs}
Reading == [at : {"idle", "waiting", "looking", "fallback", "got"}, cv : Cvs \cup {"none"},
            call : Nat, profile : Profiles \cup {Cv!NoProfile}]

CvTypes ==
    /\ cache \in [Cvs -> SUBSET Profiles]
    /\ inflight \in [Cvs -> SUBSET Nat]
    /\ calls \in Seq(Calling)
    /\ req \in [Requests -> Reading]
    /\ failures \in 0 .. MaxFailures

\* What is kept is the model's answer for that very text, and a text's one running
\* call is what others join; while it runs nothing is kept of the text.
OneCall ==
    /\ \A c \in Cvs : cache[c] \subseteq {Cv!Extracted(c)}
    /\ \A c \in Cvs : \A n \in inflight[c] : n \in DOMAIN calls /\ calls[n] = [cv |-> c, at |-> "running"]
    /\ \A n \in DOMAIN calls : calls[n].at = "running" =>
          inflight[calls[n].cv] = {n} /\ cache[calls[n].cv] = {}

\* Who waits does so for a running call of its own text; who has a profile has one of
\* its text, and a plain one only with a cause.
OwnAnswer ==
    \A r \in Requests :
        /\ req[r].at # "idle" => req[r].cv \in Cvs
        /\ req[r].call \in 0 .. Len(calls)
        /\ req[r].at = "waiting" =>
              req[r].call \in DOMAIN calls /\ calls[req[r].call] = [cv |-> req[r].cv, at |-> "running"]
        /\ req[r].at = "got" =>
              /\ req[r].profile \in {Cv!regexProfile(req[r].cv), Cv!Extracted(req[r].cv), Cv!Seen(req[r].cv)}
              /\ req[r].profile.source = "regex" /\ TextKey /\ req[r].cv \notin Short =>
                    req[r].call \in DOMAIN calls /\ calls[req[r].call].at = "failed"

CvIInv == CvTypes /\ OneCall /\ OwnAnswer

LEMMA CvProfilesFit ==
    ASSUME NEW c \in Cvs
    PROVE  /\ Cv!regexProfile(c) \in Profiles /\ Cv!Extracted(c) \in Profiles /\ Cv!Seen(c) \in Profiles
           /\ Cv!regexProfile(c).source = "regex" /\ Cv!Extracted(c).source = "llm"
           /\ Cv!Seen(c).source = "vision"
<1>1. Cv!regexProfile(c).source = "regex" /\ Cv!Extracted(c).source = "llm" /\ Cv!Seen(c).source = "vision"
    BY DEF Cv!regexProfile, Cv!Extracted, Cv!Seen
<1>2. \E d \in Cvs : {Cv!regexProfile(c), Cv!Extracted(c), Cv!Seen(c)} = {Cv!regexProfile(d), Cv!Extracted(d), Cv!Seen(d)}
    OBVIOUS
<1> QED
    BY <1>1, <1>2 DEF Profiles

LEMMA CvCallsFit ==
    ASSUME CvTypes
    PROVE  /\ Len(calls) \in Nat /\ DOMAIN calls = 1 .. Len(calls)
           /\ \A n \in DOMAIN calls : /\ calls[n] \in Calling /\ calls[n].cv \in Cvs
                                      /\ calls[n].at \in {"running", "landed", "failed"}
<1>1. calls \in Seq(Calling)
    BY DEF CvTypes
<1>2. \A n \in DOMAIN calls : calls[n] \in Calling
    BY <1>1
<1>3. \A k \in Calling : k.cv \in Cvs /\ k.at \in {"running", "landed", "failed"}
    BY DEF Calling
<1> QED
    BY <1>1, <1>2, <1>3

LEMMA InitCv ==
    ASSUME Cv!CvAssumption, Cv!CvInit
    PROVE  CvIInv
<1>1. Cv!Idle \in Reading
    BY DEF Cv!Idle, Cv!NoProfile, Reading
<1>2. calls = <<>> /\ DOMAIN calls = {} /\ Len(calls) = 0 /\ calls \in Seq(Calling)
    BY DEF Cv!CvInit
<1>3. CvTypes
    BY <1>1, <1>2 DEF Cv!CvInit, CvTypes, Cv!CvAssumption
<1>4. OneCall
    BY <1>2 DEF Cv!CvInit, OneCall
<1>5. OwnAnswer
    BY <1>2 DEF Cv!CvInit, OwnAnswer, Cv!Idle
<1> QED
    BY <1>3, <1>4, <1>5 DEF CvIInv

\* Giving or taking back what one request has, without touching a call.
LEMMA CvAnswers ==
    ASSUME CvIInv, NEW r \in Requests, NEW v \in Reading, UNCHANGED <<cache, inflight, calls>>,
           failures' \in 0 .. MaxFailures,
           req' = [req EXCEPT ![r] = v],
           v.at # "idle" => v.cv \in Cvs,
           v.call \in 0 .. Len(calls),
           v.at = "waiting" => v.call \in DOMAIN calls /\ calls[v.call] = [cv |-> v.cv, at |-> "running"],
           v.at = "got" =>
              /\ v.profile \in {Cv!regexProfile(v.cv), Cv!Extracted(v.cv), Cv!Seen(v.cv)}
              /\ v.profile.source = "regex" /\ TextKey /\ v.cv \notin Short =>
                    v.call \in DOMAIN calls /\ calls[v.call].at = "failed"
    PROVE  CvIInv'
<1>1. CvTypes'
    BY DEF CvIInv, CvTypes
<1>2. OneCall'
    BY DEF CvIInv, OneCall
<1>3. \A q \in Requests : req'[q] = IF q = r THEN v ELSE req[q]
    BY DEF CvIInv, CvTypes
<1>4. OwnAnswer'
    BY <1>3 DEF CvIInv, OwnAnswer
<1> QED
    BY <1>1, <1>2, <1>4 DEF CvIInv

LEMMA CvGot ==
    ASSUME CvIInv, NEW r \in Requests, NEW c \in Cvs, NEW p \in {Cv!regexProfile(c), Cv!Extracted(c), Cv!Seen(c)},
           p.source = "regex" => c \in Short \/ ~TextKey,
           Cv!Got(r, c, 0, p), UNCHANGED <<cache, inflight, calls, failures>>
    PROVE  CvIInv'
<1> DEFINE v == [at |-> "got", cv |-> c, call |-> 0, profile |-> p]
<1>1. p \in Profiles
    BY CvProfilesFit
<1>2. v \in Reading
    BY <1>1 DEF Reading
<1>3. v.at = "got" /\ v.cv = c /\ v.call = 0 /\ v.profile = p /\ 0 \in 0 .. Len(calls)
    BY DEF CvIInv, CvTypes
<1>4. req' = [req EXCEPT ![r] = v] /\ failures' \in 0 .. MaxFailures
    BY DEF Cv!Got, CvIInv, CvTypes
<1> HIDE DEF v
<1> QED
    BY <1>2, <1>3, <1>4, CvAnswers

LEMMA CvJoins ==
    ASSUME CvIInv, NEW r \in Requests, NEW c \in Cvs, Cv!Join(r, c)
    PROVE  CvIInv'
<1>1. PICK n \in inflight[c] :
         req' = [req EXCEPT ![r] = [at |-> "waiting", cv |-> c, call |-> n, profile |-> Cv!NoProfile]]
    BY DEF Cv!Join, Cv!Key
<1> DEFINE v == [at |-> "waiting", cv |-> c, call |-> n, profile |-> Cv!NoProfile]
<1>2. n \in DOMAIN calls /\ calls[n] = [cv |-> c, at |-> "running"]
    BY DEF CvIInv, OneCall
<1>3. n \in Nat /\ n \in 0 .. Len(calls)
    BY <1>2 DEF CvIInv, CvTypes
<1>4. v \in Reading
    BY <1>3 DEF Reading
<1>5. v.at = "waiting" /\ v.cv = c /\ v.call = n
    OBVIOUS
<1>6. req' = [req EXCEPT ![r] = v] /\ UNCHANGED <<cache, inflight, calls>> /\ failures' \in 0 .. MaxFailures
    BY <1>1 DEF Cv!Join, CvIInv, CvTypes
<1> HIDE DEF v
<1> QED
    BY <1>2, <1>3, <1>4, <1>5, <1>6, CvAnswers

LEMMA CvCalls ==
    ASSUME CvIInv, NEW r \in Requests, NEW c \in Cvs, Cv!Call(r, c)
    PROVE  CvIInv'
<1> DEFINE n == Len(calls) + 1
           v == [at |-> "waiting", cv |-> c, call |-> n, profile |-> Cv!NoProfile]
           k == [cv |-> c, at |-> "running"]
<1>1. /\ cache[c] = {} /\ inflight[c] = {} /\ calls' = Append(calls, k)
      /\ inflight' = [inflight EXCEPT ![c] = {n}] /\ req' = [req EXCEPT ![r] = v]
      /\ UNCHANGED <<cache, failures>>
    BY DEF Cv!Call, Cv!Unknown, Cv!Key
<1>2. calls \in Seq(Calling) /\ Len(calls) \in Nat /\ DOMAIN calls = 1 .. Len(calls) /\ k \in Calling
    BY DEF CvIInv, CvTypes, Calling
<1>3. /\ calls' \in Seq(Calling) /\ Len(calls') = n /\ DOMAIN calls' = 1 .. n /\ calls'[n] = k
      /\ \A i \in DOMAIN calls : i # n /\ calls'[i] = calls[i] /\ i \in DOMAIN calls'
    BY <1>1, <1>2
<1>4. \A d \in Cvs : inflight'[d] = IF d = c THEN {n} ELSE inflight[d]
    BY <1>1 DEF CvIInv, CvTypes
<1>5. \A q \in Requests : req'[q] = IF q = r THEN v ELSE req[q]
    BY <1>1 DEF CvIInv, CvTypes
<1>6. v \in Reading /\ v.at = "waiting" /\ v.cv = c /\ v.call = n /\ k.cv = c /\ k.at = "running"
    BY <1>2 DEF Reading
<1> HIDE DEF n, v, k
<1>7. n \in Nat
    BY <1>2 DEF n
<1>8. CvTypes'
    <2>1. inflight' \in [Cvs -> SUBSET Nat]
        BY <1>1, <1>7 DEF CvIInv, CvTypes
    <2>2. req' \in [Requests -> Reading]
        BY <1>1, <1>6 DEF CvIInv, CvTypes
    <2> QED
        BY <1>1, <1>3, <2>1, <2>2 DEF CvIInv, CvTypes
<1>9. OneCall'
    <2>1. ASSUME NEW d \in Cvs, NEW i \in inflight'[d]
          PROVE  i \in DOMAIN calls' /\ calls'[i] = [cv |-> d, at |-> "running"]
        <3>1. CASE d = c
            BY <3>1, <1>3, <1>4, <1>7 DEF k, n
        <3>2. CASE d # c
            BY <3>2, <1>3, <1>4 DEF CvIInv, OneCall
        <3> QED
            BY <3>1, <3>2
    <2>2. ASSUME NEW i \in DOMAIN calls', calls'[i].at = "running"
          PROVE  inflight'[calls'[i].cv] = {i} /\ cache'[calls'[i].cv] = {}
        <3>1. CASE i = n
            BY <3>1, <1>1, <1>3, <1>4, <1>6
        <3>2. CASE i # n
            <4>1. i \in DOMAIN calls /\ calls'[i] = calls[i]
                BY <3>2, <1>2, <1>3 DEF n
            <4>2. calls[i].cv \in Cvs
                BY <4>1, CvCallsFit DEF CvIInv
            <4>3. inflight[calls[i].cv] = {i} /\ cache[calls[i].cv] = {}
                BY <4>1, <2>2 DEF CvIInv, OneCall
            <4>4. calls[i].cv # c
                BY <4>3, <1>1
            <4>5. inflight'[calls[i].cv] = inflight[calls[i].cv] /\ cache' = cache
                BY <4>2, <4>4, <1>1, <1>4
            <4> QED
                BY <4>1, <4>3, <4>5
        <3> QED
            BY <3>1, <3>2
    <2> QED
        BY <2>1, <2>2, <1>1 DEF CvIInv, OneCall
<1>10. OwnAnswer'
    <2> SUFFICES ASSUME NEW q \in Requests
                 PROVE  (/\ req[q].at # "idle" => req[q].cv \in Cvs
                         /\ req[q].call \in 0 .. Len(calls)
                         /\ req[q].at = "waiting" =>
                              req[q].call \in DOMAIN calls /\ calls[req[q].call] = [cv |-> req[q].cv, at |-> "running"]
                         /\ req[q].at = "got" =>
                              /\ req[q].profile \in {Cv!regexProfile(req[q].cv), Cv!Extracted(req[q].cv), Cv!Seen(req[q].cv)}
                              /\ req[q].profile.source = "regex" /\ TextKey /\ req[q].cv \notin Short =>
                                    req[q].call \in DOMAIN calls /\ calls[req[q].call].at = "failed")'
        BY DEF OwnAnswer, Cv!regexProfile, Cv!Extracted, Cv!Seen
    <2>1. CASE q = r
        <3>1. req'[q] = v /\ n \in 0 .. n /\ n \in 1 .. n
            BY <2>1, <1>5, <1>2 DEF n
        <3> QED
            BY <3>1, <1>3, <1>6 DEF k
    <2>2. CASE q # r
        <3>1. req'[q] = req[q]
            BY <2>2, <1>5
        <3>2. \A i \in 0 .. Len(calls) : i \in 0 .. Len(calls')
            BY <1>2, <1>3 DEF n
        <3> QED
            BY <3>1, <3>2, <1>3 DEF CvIInv, OwnAnswer
    <2> QED
        BY <2>1, <2>2
<1> QED
    BY <1>8, <1>9, <1>10 DEF CvIInv

\* The end of a call: those who wait get what it brought, and only the model's answer
\* is kept.
LEMMA CvEnds ==
    ASSUME CvIInv, NEW n \in DOMAIN calls, NEW how \in {"landed", "failed"}, NEW p,
           p = IF how = "landed" THEN Cv!Extracted(calls[n].cv) ELSE Cv!regexProfile(calls[n].cv),
           Cv!Ends(n, how, p), failures' \in 0 .. MaxFailures
    PROVE  CvIInv'
<1> DEFINE c == calls[n].cv
           k == [calls[n] EXCEPT !.at = how]
<1>1. /\ calls[n].at = "running" /\ calls' = [calls EXCEPT ![n] = k]
      /\ inflight' = [inflight EXCEPT ![c] = {}]
      /\ cache' = IF Cv!KeptOf(p) = {} THEN cache ELSE [cache EXCEPT ![c] = Cv!KeptOf(p)]
      /\ req' = [r \in Requests |-> IF req[r].at = "waiting" /\ req[r].call = n
                                    THEN [req[r] EXCEPT !.at = "got", !.profile = p] ELSE req[r]]
    BY DEF Cv!Ends, Cv!InflightAfter, Cv!Key
<1>2. calls \in Seq(Calling) /\ calls[n] \in Calling /\ c \in Cvs /\ calls[n] = [cv |-> c, at |-> "running"]
    <2>1. calls \in Seq(Calling) /\ calls[n] \in Calling
        BY DEF CvIInv, CvTypes
    <2> QED
        BY <1>1, <2>1 DEF Calling
<1>3. k = [cv |-> c, at |-> how] /\ k \in Calling /\ k.cv = c /\ k.at = how
    BY <1>2 DEF Calling
<1>4. p \in Profiles /\ Cv!KeptOf(p) \subseteq {Cv!Extracted(c)}
      /\ (p = Cv!Extracted(c) \/ (how = "failed" /\ p = Cv!regexProfile(c)))
    BY <1>2, CvProfilesFit DEF Cv!KeptOf
<1>5. inflight[c] = {n} /\ cache[c] = {}
    BY <1>1 DEF CvIInv, OneCall
<1> HIDE DEF c, k
<1>6. /\ calls' \in Seq(Calling) /\ DOMAIN calls' = DOMAIN calls /\ Len(calls') = Len(calls)
      /\ calls'[n] = k /\ \A i \in DOMAIN calls : i # n => calls'[i] = calls[i]
    <2>1. calls \in Seq(Calling) /\ k \in Calling /\ DOMAIN calls = 1 .. Len(calls) /\ Len(calls) \in Nat
        BY <1>2, <1>3
    <2>2. calls \in [1 .. Len(calls) -> Calling]
        BY <2>1
    <2>3. calls' \in [1 .. Len(calls) -> Calling]
        BY <1>1, <2>1, <2>2
    <2>4. calls' \in Seq(Calling)
        BY <2>1, <2>3
    <2>5. DOMAIN calls' = 1 .. Len(calls) /\ DOMAIN calls' = 1 .. Len(calls') /\ Len(calls') \in Nat
        BY <2>3, <2>4
    <2>6. Len(calls') = Len(calls)
        BY <2>1, <2>5
    <2>7. calls'[n] = k /\ \A i \in DOMAIN calls : i # n => calls'[i] = calls[i]
        BY <1>1, <2>1, <2>2
    <2> QED
        BY <2>1, <2>4, <2>5, <2>6, <2>7
<1>7. \A d \in Cvs : /\ inflight'[d] = IF d = c THEN {} ELSE inflight[d]
                     /\ cache'[d] \subseteq {Cv!Extracted(d)} /\ (d # c => cache'[d] = cache[d])
    <2>1. inflight \in [Cvs -> SUBSET Nat] /\ cache \in [Cvs -> SUBSET Profiles]
        BY DEF CvIInv, CvTypes
    <2>2. \A d \in Cvs : cache[d] \subseteq {Cv!Extracted(d)}
        BY DEF CvIInv, OneCall
    <2> QED
        BY <1>1, <1>4, <2>1, <2>2
<1>8. CvTypes'
    <2>1. cache' \in [Cvs -> SUBSET Profiles]
        BY <1>1, <1>2, <1>4, CvProfilesFit DEF CvIInv, CvTypes, Cv!KeptOf
    <2>2. inflight' \in [Cvs -> SUBSET Nat]
        BY <1>1 DEF CvIInv, CvTypes
    <2>3. ASSUME NEW r \in Requests
          PROVE  [req[r] EXCEPT !.at = "got", !.profile = p] \in Reading
        <3>1. req[r] \in Reading
            BY DEF CvIInv, CvTypes
        <3> QED
            BY <3>1, <1>4 DEF Reading
    <2>4. req' \in [Requests -> Reading]
        BY <1>1, <2>3 DEF CvIInv, CvTypes
    <2> QED
        BY <2>1, <2>2, <2>4, <1>6 DEF CvTypes
<1>9. OneCall'
    <2>1. ASSUME NEW d \in Cvs, NEW i \in inflight'[d]
          PROVE  i \in DOMAIN calls' /\ calls'[i] = [cv |-> d, at |-> "running"]
        <3>1. d # c /\ i \in inflight[d]
            BY <1>7
        <3>2. i \in DOMAIN calls /\ calls[i] = [cv |-> d, at |-> "running"]
            BY <3>1 DEF CvIInv, OneCall
        <3>3. i # n
            BY <3>1, <3>2, <1>2
        <3> QED
            BY <3>2, <3>3, <1>6
    <2>2. ASSUME NEW i \in DOMAIN calls', calls'[i].at = "running"
          PROVE  inflight'[calls'[i].cv] = {i} /\ cache'[calls'[i].cv] = {}
        <3>1. i # n /\ calls'[i] = calls[i] /\ i \in DOMAIN calls
            BY <2>2, <1>3, <1>6
        <3>2. calls[i].cv \in Cvs /\ inflight[calls[i].cv] = {i} /\ cache[calls[i].cv] = {}
            BY <3>1, <2>2, CvCallsFit DEF CvIInv, OneCall
        <3>3. calls[i].cv # c
            BY <3>1, <3>2, <1>5
        <3> QED
            BY <3>1, <3>2, <3>3, <1>7
    <2> QED
        BY <2>1, <2>2, <1>7 DEF OneCall, Cv!Extracted
<1>10. OwnAnswer'
    <2> SUFFICES ASSUME NEW q \in Requests
                 PROVE  (/\ req[q].at # "idle" => req[q].cv \in Cvs
                         /\ req[q].call \in 0 .. Len(calls)
                         /\ req[q].at = "waiting" =>
                              req[q].call \in DOMAIN calls /\ calls[req[q].call] = [cv |-> req[q].cv, at |-> "running"]
                         /\ req[q].at = "got" =>
                              /\ req[q].profile \in {Cv!regexProfile(req[q].cv), Cv!Extracted(req[q].cv), Cv!Seen(req[q].cv)}
                              /\ req[q].profile.source = "regex" /\ TextKey /\ req[q].cv \notin Short =>
                                    req[q].call \in DOMAIN calls /\ calls[req[q].call].at = "failed")'
        BY DEF OwnAnswer, Cv!regexProfile, Cv!Extracted, Cv!Seen
    <2>1. req[q] \in Reading
        BY DEF CvIInv, CvTypes
    <2>2. CASE req[q].at = "waiting" /\ req[q].call = n
        <3>1. req'[q].at = "got" /\ req'[q].profile = p /\ req'[q].cv = req[q].cv /\ req'[q].call = n
            BY <2>1, <2>2, <1>1 DEF Reading
        <3>2. calls[n] = [cv |-> req[q].cv, at |-> "running"]
            BY <2>2 DEF CvIInv, OwnAnswer
        <3>3. req[q].cv = c /\ n \in 0 .. Len(calls)
            BY <3>2, <1>2
        <3>4. how = "failed" => calls'[n].at = "failed"
            BY <1>3, <1>6
        <3>5. p.source = "regex" => how = "failed"
            BY <1>2, <1>4, CvProfilesFit
        <3> QED
            BY <3>1, <3>3, <3>4, <3>5, <1>2, <1>4, <1>6
    <2>3. CASE ~(req[q].at = "waiting" /\ req[q].call = n)
        <3>1. req'[q] = req[q]
            BY <2>3, <1>1
        <3>2. /\ req[q].at = "waiting" => req[q].call # n
              /\ req[q].at = "got" /\ req[q].call \in DOMAIN calls /\ calls[req[q].call].at = "failed" => req[q].call # n
            BY <2>3, <1>1
        <3> QED
            BY <3>1, <3>2, <1>6 DEF CvIInv, OwnAnswer
    <2> QED
        BY <2>2, <2>3
<1> QED
    BY <1>8, <1>9, <1>10 DEF CvIInv

LEMMA CvStep ==
    ASSUME Cv!CvAssumption, CvIInv, [Cv!CvNext]_Cv!vars
    PROVE  CvIInv'
<1>1. ASSUME NEW r \in Requests, NEW c \in Cvs, Cv!Plainly(r, c) \/ Cv!FromCache(r, c)
      PROVE  CvIInv'
    <2>1. CASE Cv!Plainly(r, c)
        BY <2>1, CvGot DEF Cv!Plainly
    <2>2. CASE Cv!FromCache(r, c)
        <3>1. PICK p \in cache[c] : Cv!Got(r, c, 0, p)
            BY <2>2 DEF Cv!FromCache, Cv!Key
        <3>2. p = Cv!Extracted(c) /\ p.source # "regex"
            BY <3>1, CvProfilesFit DEF CvIInv, OneCall
        <3> QED
            BY <2>2, <3>1, <3>2, CvGot DEF Cv!FromCache
    <2> QED
        BY <1>1, <2>1, <2>2
<1>2. ASSUME NEW r \in Requests, NEW c \in Cvs, Cv!Join(r, c) \/ Cv!Call(r, c)
      PROVE  CvIInv'
    BY <1>2, CvJoins, CvCalls
<1>3. ASSUME NEW r \in Requests, NEW c \in Cvs, Cv!Look(r, c)
      PROVE  CvIInv'
    <2> DEFINE v == [at |-> "looking", cv |-> c, call |-> 0, profile |-> Cv!NoProfile]
    <2>1. v \in Reading /\ v.at = "looking" /\ v.cv \in Cvs /\ v.call = 0 /\ 0 \in 0 .. Len(calls)
        BY DEF Reading, CvIInv, CvTypes
    <2>2. req' = [req EXCEPT ![r] = v] /\ UNCHANGED <<cache, inflight, calls>> /\ failures' \in 0 .. MaxFailures
        BY <1>3 DEF Cv!Look, CvIInv, CvTypes
    <2> HIDE DEF v
    <2> QED
        BY <2>1, <2>2, CvAnswers
<1>4. ASSUME NEW r \in Requests, Cv!Looked(r)
      PROVE  CvIInv'
    <2>1. req[r].cv \in Cvs
        BY <1>4 DEF Cv!Looked, CvIInv, OwnAnswer
    <2> QED
        BY <1>4, <2>1, CvProfilesFit, CvGot DEF Cv!Looked
<1>5. ASSUME NEW r \in Requests, Cv!LookFails(r)
      PROVE  CvIInv'
    <2> DEFINE v == [req[r] EXCEPT !.at = "fallback"]
    <2>1. req[r] \in Reading /\ req[r].cv \in Cvs /\ req[r].call \in 0 .. Len(calls)
        BY <1>5 DEF Cv!LookFails, CvIInv, CvTypes, OwnAnswer
    <2>2. v \in Reading /\ v.at = "fallback" /\ v.cv = req[r].cv /\ v.call = req[r].call
        BY <2>1 DEF Reading
    <2>3. req' = [req EXCEPT ![r] = v] /\ UNCHANGED <<cache, inflight, calls>> /\ failures' \in 0 .. MaxFailures
        BY <1>5 DEF Cv!LookFails, CvIInv, CvTypes, Cv!CvAssumption
    <2> HIDE DEF v
    <2> QED
        BY <2>1, <2>2, <2>3, CvAnswers
<1>6. ASSUME NEW r \in Requests, Cv!Leave(r)
      PROVE  CvIInv'
    <2>1. Cv!Idle \in Reading /\ Cv!Idle.at = "idle" /\ Cv!Idle.call = 0 /\ 0 \in 0 .. Len(calls)
        BY DEF Cv!Idle, Cv!NoProfile, Reading, CvIInv, CvTypes
    <2>2. req' = [req EXCEPT ![r] = Cv!Idle] /\ UNCHANGED <<cache, inflight, calls>> /\ failures' \in 0 .. MaxFailures
        BY <1>6 DEF Cv!Leave, CvIInv, CvTypes
    <2> QED
        BY <2>1, <2>2, CvAnswers
<1>7. ASSUME NEW n \in 1 .. MaxCalls, Cv!Lands(n) \/ Cv!Fails(n)
      PROVE  CvIInv'
    <2>1. failures \in 0 .. MaxFailures /\ MaxFailures \in Nat
        BY DEF CvIInv, CvTypes, Cv!CvAssumption
    <2>2. CASE Cv!Lands(n)
        <3>1. n \in DOMAIN calls /\ Cv!Ends(n, "landed", Cv!Extracted(calls[n].cv)) /\ failures' \in 0 .. MaxFailures
            BY <2>1, <2>2 DEF Cv!Lands
        <3> QED
            BY <3>1, CvEnds
    <2>3. CASE Cv!Fails(n)
        <3>1. n \in DOMAIN calls /\ Cv!Ends(n, "failed", Cv!regexProfile(calls[n].cv)) /\ failures' \in 0 .. MaxFailures
            BY <2>1, <2>3 DEF Cv!Fails
        <3> QED
            BY <3>1, CvEnds
    <2> QED
        BY <1>7, <2>2, <2>3
<1>8. ASSUME NEW c \in Cvs, Cv!Expire(c)
      PROVE  CvIInv'
    <2>1. \A d \in Cvs : cache'[d] = IF d = c THEN {} ELSE cache[d]
        BY <1>8 DEF Cv!Expire, CvIInv, CvTypes
    <2>2. CvTypes'
        BY <1>8 DEF Cv!Expire, CvIInv, CvTypes
    <2>3. \A n \in DOMAIN calls : calls[n].cv \in Cvs
        BY CvCallsFit DEF CvIInv
    <2>4. OneCall'
        BY <1>8, <2>1, <2>3 DEF Cv!Expire, CvIInv, OneCall, Cv!Extracted
    <2>5. OwnAnswer'
        BY <1>8 DEF Cv!Expire, CvIInv, OwnAnswer, Cv!Extracted, Cv!regexProfile, Cv!Seen
    <2> QED
        BY <2>2, <2>4, <2>5 DEF CvIInv
<1>9. CASE UNCHANGED Cv!vars
    BY <1>9 DEF Cv!vars, CvIInv, CvTypes, OneCall, OwnAnswer
<1> QED
    BY <1>1, <1>2, <1>3, <1>4, <1>5, <1>6, <1>7, <1>8, <1>9 DEF Cv!CvNext

LEMMA CvInvariance ==
    ASSUME Cv!CvAssumption
    PROVE  Cv!CvSpec => []CvIInv
<1>1. Cv!CvInit => CvIInv
    BY InitCv
<1>2. CvIInv /\ [Cv!CvNext]_Cv!vars => CvIInv'
    BY CvStep
<1> QED
    BY <1>1, <1>2, PTL DEF Cv!CvSpec

\* For any texts, requests, failures and expiries: two calls for one text never run at
\* the same time, and a text whose profile is kept is not asked for (structureCv).
THEOREM PaidOnceAlways ==
    ASSUME Cv!CvAssumption
    PROVE  Cv!CvSpec => [](Cv!TypeOK /\ Cv!PaidOnce)
<1>1. ASSUME CvIInv
      PROVE  Cv!TypeOK
    <2>1. \A c \in Cvs : \A p, q \in cache[c] : p = q
        BY <1>1 DEF CvIInv, OneCall
    <2>2. \A c \in Cvs : inflight[c] \subseteq DOMAIN calls
        BY <1>1 DEF CvIInv, OneCall
    <2>3. \A n \in DOMAIN calls : calls[n].cv \in Cvs /\ calls[n].at \in {"running", "landed", "failed"}
        BY <1>1, CvCallsFit DEF CvIInv
    <2>4. ASSUME NEW p \in Profiles \cup {Cv!NoProfile}
          PROVE  p.skills \subseteq Cv!Skills
        <3>1. CASE p = Cv!NoProfile
            BY <3>1 DEF Cv!NoProfile
        <3>2. ASSUME NEW c \in Cvs, p \in {Cv!regexProfile(c), Cv!Extracted(c), Cv!Seen(c)}
              PROVE  p.skills \subseteq Cv!Skills
            <4>1. p.skills = Plain[c] \/ p.skills = Named[Pages[c]]
                BY <3>2 DEF Cv!regexProfile, Cv!Extracted, Cv!Seen
            <4>2. Plain[c] \subseteq Mentioned[c]
                BY DEF Cv!CvAssumption
            <4>3. Mentioned[c] \subseteq Cv!Skills /\ Named[Pages[c]] \subseteq Cv!Skills
                <5> DEFINE M == {Mentioned[d] : d \in Cvs}
                           N == {Named[Pages[d]] : d \in Cvs}
                <5>1. Mentioned[c] \in M /\ Named[Pages[c]] \in N /\ Cv!Skills = UNION (M \cup N)
                    BY DEF Cv!Skills
                <5> HIDE DEF M, N
                <5> QED
                    BY <5>1
            <4> QED
                BY <4>1, <4>2, <4>3
        <3> QED
            BY <2>4, <3>1, <3>2 DEF Profiles
    <2>5. \A r \in Requests : /\ req[r].at \in {"idle", "waiting", "looking", "fallback", "got"}
                              /\ req[r].call \in 0 .. Len(calls) /\ req[r].profile.skills \subseteq Cv!Skills
        <3>1. \A r \in Requests : req[r] \in Reading /\ req[r].call \in 0 .. Len(calls)
            BY <1>1 DEF CvIInv, CvTypes, OwnAnswer
        <3>2. \A v \in Reading : /\ v.at \in {"idle", "waiting", "looking", "fallback", "got"}
                                 /\ v.profile \in Profiles \cup {Cv!NoProfile}
            BY DEF Reading
        <3> QED
            BY <3>1, <3>2, <2>4
    <2>6. failures \in 0 .. MaxFailures
        BY <1>1 DEF CvIInv, CvTypes
    <2> QED
        BY <2>1, <2>2, <2>3, <2>5, <2>6 DEF Cv!TypeOK
<1>2. CvIInv => Cv!PaidOnce
    BY DEF CvIInv, OneCall, Cv!PaidOnce
<1> QED
    BY <1>1, <1>2, CvInvariance, PTL

\* For any texts, also those that begin alike: a level that somebody is given is that
\* of their own text, for a skill that the text mentions (normaliseSkills).
THEOREM OwnProfileAlways ==
    ASSUME Cv!CvAssumption
    PROVE  Cv!CvSpec => []Cv!OwnProfile
<1>1. ASSUME CvIInv, NEW r \in Requests, req[r].at = "got", NEW l \in req[r].profile.levels
      PROVE  l.level = Baseline[req[r].cv] /\ l.skill \in Mentioned[req[r].cv]
    <2>1. req[r].profile \in {Cv!regexProfile(req[r].cv), Cv!Extracted(req[r].cv), Cv!Seen(req[r].cv)}
        BY <1>1 DEF CvIInv, OwnAnswer
    <2> QED
        BY <1>1, <2>1 DEF Cv!regexProfile, Cv!Extracted, Cv!Seen, Cv!Levels
<1>2. CvIInv => Cv!OwnProfile
    BY <1>1 DEF Cv!OwnProfile
<1> QED
    BY <1>2, CvInvariance, PTL

\* For any texts, failures and expiries, with a model in place: a long text is read
\* plainly only for who waited for a call of it that failed; no failure is kept.
THEOREM DegradedWithCauseAlways ==
    ASSUME Cv!CvAssumption
    PROVE  Cv!CvSpec => []Cv!DegradedWithCause
<1>1. CvIInv => Cv!DegradedWithCause
    <2> SUFFICES ASSUME CvIInv, NEW r \in Requests, req[r].at = "got",
                        req[r].profile.source = "regex", TextKey, req[r].cv \notin Short
                 PROVE  req[r].call # 0 /\ calls[req[r].call].at = "failed"
        BY DEF Cv!DegradedWithCause
    <2>1. req[r].call \in DOMAIN calls /\ calls[req[r].call].at = "failed"
        BY DEF CvIInv, OwnAnswer
    <2>2. req[r].call \in 1 .. Len(calls) /\ Len(calls) \in Nat
        BY <2>1, CvCallsFit DEF CvIInv
    <2> QED
        BY <2>1, <2>2
<1> QED
    BY <1>1, CvInvariance, PTL

(***************************************************************************)
(* The match runs of a candidate (lib/match/candidate-match.ts).           *)
(***************************************************************************)

CONSTANTS Execs, Tabs, MaxRuns, Feeds, OwnSources, MaxSources, MaxPolls
VARIABLES runs, linked, injected, exec, tab

\* Requests are shared with the token cache, MaxFaults and faults with the throttle.
Runs == INSTANCE CandidateMatch

Found == Runs!Sources \cup {Runs!AllSources}
RunShape ==
    [status : {"MATCHING", "READY", "FAILED"}, claimed : BOOLEAN, age : {"young", "old"},
     requested : Requests, follow : BOOLEAN, inserts : Nat, hits : SUBSET Found,
     warned : SUBSET Feeds, done : 0 .. (MaxRuns + 1)]
Executing == {"plan", "match", "insert", "compare", "ready"}
ExecShape ==
    [pc : {"idle", "claim", "inject", "upsert"} \cup Executing, run : Nat, follow : BOOLEAN,
     attempted : SUBSET Runs!Sources, passes : SUBSET Found, bounded : BOOLEAN,
     hits : SUBSET Found, warned : SUBSET Feeds, prev : SUBSET Nat]
TabShape ==
    [pc : {"closed", "trigger", "poll", "refresh", "still"}, polls : 0 .. MaxPolls, since : Nat,
     shown : {"none", "MATCHING", "READY", "FAILED"}]

RunTypes ==
    /\ runs \in Seq(RunShape) /\ Len(runs) <= MaxRuns
    /\ linked \in BOOLEAN
    /\ injected \in 0 .. Len(runs)
    /\ faults \in 0 .. MaxFaults
ExecTypes ==
    /\ exec \in [Execs -> ExecShape]
    /\ \A e \in Execs : /\ exec[e].run \in 0 .. Len(runs)
                        /\ exec[e].pc # "idle" => exec[e].run \in 1 .. Len(runs)
                        /\ exec[e].hits \subseteq exec[e].passes
                        /\ exec[e].pc \in {"claim", "plan", "match", "inject"} => exec[e].hits = {}
TabTypes ==
    /\ tab \in [Tabs -> TabShape]
    /\ \A t \in Tabs : /\ tab[t].since \in 0 .. Len(runs)
                       /\ tab[t].pc # "closed" => runs # <<>>
                       /\ tab[t].pc \in {"trigger", "poll"} => tab[t].polls < MaxPolls

\* A run has one execution past its claim at most, and has jobs only from that one,
\* which inserts once.
OneExecution ==
    /\ \A e \in Execs : exec[e].pc \in Executing => runs[exec[e].run].claimed
    /\ \A e, f \in Execs : exec[e].pc \in Executing /\ exec[f].pc \in Executing /\ exec[e].run = exec[f].run => e = f
    /\ \A e \in Execs : exec[e].pc \in {"plan", "match", "insert"} => runs[exec[e].run].inserts = 0
    /\ \A n \in DOMAIN runs : runs[n].inserts <= 1 /\ (~runs[n].claimed => runs[n].inserts = 0)

RunsIInv == RunTypes /\ ExecTypes /\ TabTypes /\ OneExecution

LEMMA SameCardinality ==
    \A S : Runs!Cardinality(S) = Cardinality(S)
BY DEF Runs!Cardinality, Cardinality

LEMMA RunsFit ==
    ASSUME RunTypes
    PROVE  /\ Len(runs) \in Nat /\ DOMAIN runs = 1 .. Len(runs) /\ runs \in [1 .. Len(runs) -> RunShape]
           /\ \A n \in DOMAIN runs : runs[n] \in RunShape
<1>1. runs \in Seq(RunShape)
    BY DEF RunTypes
<1> QED
    BY <1>1

LEMMA CompletedFits ==
    ASSUME Runs!MatchAssumption, RunTypes
    PROVE  Runs!Completed \in 0 .. (MaxRuns + 1)
<1> DEFINE D == {n \in DOMAIN runs : runs[n].done > 0}
<1>1. Len(runs) \in Nat /\ DOMAIN runs = 1 .. Len(runs) /\ Len(runs) <= MaxRuns /\ MaxRuns \in Nat
    BY RunsFit DEF RunTypes, Runs!MatchAssumption
<1>2. D \subseteq 1 .. Len(runs)
    BY <1>1
<1>3. IsFiniteSet(1 .. Len(runs)) /\ Cardinality(1 .. Len(runs)) = Len(runs)
    <2>1. 1 \in Int /\ Len(runs) \in Int
        BY <1>1
    <2>2. Cardinality(1 .. Len(runs)) = IF 1 > Len(runs) THEN 0 ELSE Len(runs) - 1 + 1
        BY <2>1, FS_Interval
    <2>3. IsFiniteSet(1 .. Len(runs))
        BY <2>1, FS_Interval
    <2> QED
        BY <1>1, <2>2, <2>3
<1>4. Cardinality(D) \in Nat /\ Cardinality(D) <= Len(runs)
    BY <1>2, <1>3, FS_Subset, FS_CardinalityType
<1>5. Runs!Completed = 1 + Cardinality(D)
    BY SameCardinality DEF Runs!Completed
<1> HIDE DEF D
<1> QED
    BY <1>1, <1>4, <1>5

LEMMA RunUpdate ==
    ASSUME RunTypes, NEW n \in DOMAIN runs, NEW w \in RunShape, runs' = [runs EXCEPT ![n] = w]
    PROVE  /\ runs' \in Seq(RunShape) /\ Len(runs') = Len(runs) /\ DOMAIN runs' = DOMAIN runs
           /\ runs'[n] = w /\ \A i \in DOMAIN runs : i # n => runs'[i] = runs[i]
<1>1. Len(runs) \in Nat /\ DOMAIN runs = 1 .. Len(runs) /\ runs \in [1 .. Len(runs) -> RunShape]
    BY RunsFit
<1>2. runs' \in [1 .. Len(runs) -> RunShape] /\ DOMAIN runs' = 1 .. Len(runs)
    BY <1>1
<1>3. runs' \in Seq(RunShape)
    BY <1>1, <1>2
<1>4. Len(runs') = Len(runs)
    BY <1>1, <1>2, <1>3
<1> QED
    BY <1>1, <1>2, <1>3, <1>4

\* A step that makes of an execution v and of the n-th run w.
Moves(e, v, n, w) ==
    /\ v \in ExecShape /\ exec' = [exec EXCEPT ![e] = v]
    /\ n \in DOMAIN runs /\ w \in RunShape /\ runs' = [runs EXCEPT ![n] = w]
    /\ v.run \in 0 .. Len(runs) /\ v.hits \subseteq v.passes
    /\ v.pc # "idle" => v.run = n
    /\ v.pc \in {"claim", "plan", "match", "inject"} => v.hits = {}
    /\ runs[n].claimed => w.claimed
    /\ w.inserts <= 1 /\ (~w.claimed => w.inserts = 0)
    /\ v.pc \in Executing => w.claimed
    /\ v.pc \in {"plan", "match", "insert"} => w.inserts = 0
    /\ \A f \in Execs : f # e /\ exec[f].pc \in Executing /\ exec[f].run = n =>
          v.pc \notin Executing /\ w.inserts = runs[n].inserts

LEMMA RunsMove ==
    ASSUME RunsIInv, NEW e \in Execs, NEW v, NEW n, NEW w, Moves(e, v, n, w)
    PROVE  /\ runs' \in Seq(RunShape) /\ Len(runs') = Len(runs) /\ ExecTypes' /\ OneExecution'
<1>0. /\ v \in ExecShape /\ exec' = [exec EXCEPT ![e] = v]
      /\ n \in DOMAIN runs /\ w \in RunShape /\ runs' = [runs EXCEPT ![n] = w]
      /\ v.run \in 0 .. Len(runs) /\ v.hits \subseteq v.passes
      /\ v.pc # "idle" => v.run = n
      /\ v.pc \in {"claim", "plan", "match", "inject"} => v.hits = {}
      /\ runs[n].claimed => w.claimed
      /\ w.inserts <= 1 /\ (~w.claimed => w.inserts = 0)
      /\ v.pc \in Executing => w.claimed
      /\ v.pc \in {"plan", "match", "insert"} => w.inserts = 0
      /\ \A f \in Execs : f # e /\ exec[f].pc \in Executing /\ exec[f].run = n =>
            v.pc \notin Executing /\ w.inserts = runs[n].inserts
    BY DEF Moves
<1>1. Len(runs) \in Nat /\ DOMAIN runs = 1 .. Len(runs)
    BY RunsFit DEF RunsIInv
<1>2. /\ runs' \in Seq(RunShape) /\ Len(runs') = Len(runs) /\ DOMAIN runs' = DOMAIN runs
      /\ runs'[n] = w /\ \A i \in DOMAIN runs : i # n => runs'[i] = runs[i]
    BY <1>0, RunUpdate DEF RunsIInv
<1>3. /\ exec \in [Execs -> ExecShape]
      /\ \A f \in Execs : exec'[f] = IF f = e THEN v ELSE exec[f]
    BY <1>0 DEF RunsIInv, ExecTypes
<1>4. \A f \in Execs : /\ exec[f].run \in 0 .. Len(runs)
                       /\ exec[f].pc # "idle" => exec[f].run \in DOMAIN runs
                       /\ exec[f].hits \subseteq exec[f].passes
                       /\ exec[f].pc \in {"claim", "plan", "match", "inject"} => exec[f].hits = {}
    BY <1>0, <1>1 DEF RunsIInv, ExecTypes
<1>5. ExecTypes'
    <2>1. exec' \in [Execs -> ExecShape]
        BY <1>0, <1>3
    <2>2. \A f \in Execs : /\ exec'[f].run \in 0 .. Len(runs)
                           /\ exec'[f].pc # "idle" => exec'[f].run \in 1 .. Len(runs)
                           /\ exec'[f].hits \subseteq exec'[f].passes
                           /\ exec'[f].pc \in {"claim", "plan", "match", "inject"} => exec'[f].hits = {}
        BY <1>0, <1>1, <1>3, <1>4
    <2> QED
        BY <1>2, <2>1, <2>2 DEF ExecTypes
<1>6. \A f \in Execs : exec[f].pc \in Executing => exec[f].pc # "idle"
    BY DEF Executing
<1>7. ASSUME NEW f \in Execs, exec'[f].pc \in Executing
      PROVE  runs'[exec'[f].run].claimed
    <2>1. CASE f = e
        BY <1>7, <2>1, <1>0, <1>2, <1>3 DEF Executing
    <2>2. CASE f # e
        <3>1. exec'[f] = exec[f] /\ exec[f].pc \in Executing /\ exec[f].run \in DOMAIN runs
            BY <1>7, <2>2, <1>3, <1>4, <1>6
        <3>2. runs[exec[f].run].claimed
            BY <3>1 DEF RunsIInv, OneExecution
        <3> QED
            BY <1>0, <3>1, <3>2, <1>2
    <2> QED
        BY <2>1, <2>2
<1>8. ASSUME NEW f \in Execs, NEW g \in Execs, exec'[f].pc \in Executing, exec'[g].pc \in Executing,
             exec'[f].run = exec'[g].run
      PROVE  f = g
    <2>1. v.pc \in Executing => v.run = n
        BY <1>0 DEF Executing
    <2>2. \A h \in Execs : h # e => exec'[h] = exec[h]
        BY <1>0, <1>3
    <2>3. exec'[e] = v
        BY <1>0, <1>3
    <2>4. \A h \in Execs : h # e /\ exec'[h].pc \in Executing /\ exec'[h].run = n => v.pc \notin Executing
        BY <2>2, <1>0
    <2>5. CASE f = e /\ g # e
        BY <1>8, <2>1, <2>3, <2>4, <2>5
    <2>6. CASE g = e /\ f # e
        BY <1>8, <2>1, <2>3, <2>4, <2>6
    <2>7. CASE f # e /\ g # e
        BY <1>8, <2>2, <2>7 DEF RunsIInv, OneExecution
    <2> QED
        BY <2>5, <2>6, <2>7
<1>9. ASSUME NEW f \in Execs, exec'[f].pc \in {"plan", "match", "insert"}
      PROVE  runs'[exec'[f].run].inserts = 0
    <2>1. CASE f = e
        BY <1>9, <2>1, <1>0, <1>2, <1>3
    <2>2. CASE f # e
        <3>1. /\ exec'[f] = exec[f] /\ exec[f].pc \in {"plan", "match", "insert"}
              /\ exec[f].pc \in Executing /\ exec[f].run \in DOMAIN runs
            BY <1>9, <2>2, <1>3, <1>4 DEF Executing
        <3>2. runs[exec[f].run].inserts = 0
            BY <3>1 DEF RunsIInv, OneExecution
        <3> QED
            BY <1>0, <2>2, <3>1, <3>2, <1>2
    <2> QED
        BY <2>1, <2>2
<1>10. \A i \in DOMAIN runs' : runs'[i].inserts <= 1 /\ (~runs'[i].claimed => runs'[i].inserts = 0)
    BY <1>0, <1>2 DEF RunsIInv, OneExecution
<1> QED
    BY <1>2, <1>5, <1>7, <1>8, <1>9, <1>10 DEF OneExecution

\* A step that moves neither an execution nor a claim nor a job.
LEMMA RunsKeep ==
    ASSUME RunsIInv, UNCHANGED exec, runs' \in Seq(RunShape), Len(runs') = Len(runs),
           \A n \in DOMAIN runs : runs'[n].claimed = runs[n].claimed /\ runs'[n].inserts = runs[n].inserts
    PROVE  ExecTypes' /\ OneExecution'
<1>1. Len(runs) \in Nat /\ DOMAIN runs = 1 .. Len(runs) /\ DOMAIN runs' = DOMAIN runs
    BY RunsFit DEF RunsIInv
<1>2. ExecTypes'
    BY <1>1 DEF RunsIInv, ExecTypes
<1>3. \A e \in Execs : exec[e].pc \in Executing => exec[e].run \in DOMAIN runs
    BY <1>1 DEF RunsIInv, ExecTypes, Executing
<1>4. \A e \in Execs : exec[e].pc \in {"plan", "match", "insert"} => exec[e].pc \in Executing
    BY DEF Executing
<1>5. OneExecution'
    BY <1>1, <1>3, <1>4 DEF RunsIInv, OneExecution
<1> QED
    BY <1>2, <1>5

\* What an execution does after its run.
LEMMA AfterFits ==
    ASSUME RunsIInv, NEW e \in Execs, exec[e].pc # "idle"
    PROVE  LET v == Runs!After(e)
           IN  /\ v \in ExecShape /\ v.run \in 0 .. Len(runs) /\ v.hits \subseteq v.passes
               /\ v.pc # "idle" => v.run = exec[e].run
               /\ v.pc \notin Executing /\ v.hits = {}
<1>1. exec[e] \in ExecShape /\ exec[e].run \in 1 .. Len(runs)
    BY DEF RunsIInv, ExecTypes
<1>2. exec[e].run \in Nat /\ exec[e].run \in 0 .. Len(runs) /\ 0 \in 0 .. Len(runs)
    BY <1>1, RunsFit DEF RunsIInv
<1>3. Runs!IdleExec \in ExecShape
    BY DEF Runs!IdleExec, ExecShape
<1>4. CASE exec[e].follow
    <2> DEFINE v == [pc |-> "inject", run |-> exec[e].run, follow |-> TRUE, attempted |-> {}, passes |-> {},
                     bounded |-> FALSE, hits |-> {}, warned |-> {}, prev |-> {}]
    <2>1. Runs!After(e) = v
        BY <1>4 DEF Runs!After, Runs!IdleExec
    <2>2. v \in ExecShape
        BY <1>2 DEF ExecShape
    <2> QED
        BY <2>1, <2>2, <1>2 DEF Executing
<1>5. CASE ~exec[e].follow
    <2>1. Runs!After(e) = Runs!IdleExec
        BY <1>5 DEF Runs!After
    <2> QED
        BY <2>1, <1>2, <1>3 DEF Runs!IdleExec, Executing
<1> QED
    BY <1>4, <1>5

LEMMA IdleFits ==
    Runs!IdleExec \in ExecShape /\ Runs!IdleExec.pc = "idle" /\ Runs!IdleExec.run = 0
    /\ Runs!IdleExec.hits = {} /\ Runs!IdleExec.passes = {} /\ "idle" \notin Executing
BY DEF Runs!IdleExec, ExecShape, Executing

\* Of the other executions none is past the claim of this one's run.
LEMMA AloneOnRun ==
    ASSUME RunsIInv, NEW e \in Execs, exec[e].pc \in Executing
    PROVE  /\ exec[e] \in ExecShape /\ exec[e].run \in DOMAIN runs /\ exec[e].pc # "idle"
           /\ runs[exec[e].run] \in RunShape /\ runs[exec[e].run].claimed
           /\ runs[exec[e].run].inserts <= 1
           /\ (exec[e].pc \in {"plan", "match", "insert"} => runs[exec[e].run].inserts = 0)
           /\ exec[e].hits \subseteq exec[e].passes
           /\ exec[e].run \in 0 .. Len(runs)
           /\ \A f \in Execs : ~(f # e /\ exec[f].pc \in Executing /\ exec[f].run = exec[e].run)
<1>1. exec[e].pc # "idle"
    BY DEF Executing
<1>2. exec[e] \in ExecShape /\ exec[e].run \in DOMAIN runs /\ exec[e].hits \subseteq exec[e].passes
      /\ exec[e].run \in 0 .. Len(runs)
    BY <1>1, RunsFit DEF RunsIInv, ExecTypes
<1>3. runs[exec[e].run] \in RunShape
    BY <1>2, RunsFit DEF RunsIInv
<1> QED
    BY <1>1, <1>2, <1>3 DEF RunsIInv, OneExecution

\* The rest of the invariant after a step that leaves the pages alone.
LEMMA RunsRest ==
    ASSUME RunsIInv, runs' \in Seq(RunShape), Len(runs') = Len(runs), ExecTypes', OneExecution',
           UNCHANGED tab, linked' \in BOOLEAN, injected' \in 0 .. Len(runs), faults' \in 0 .. MaxFaults
    PROVE  RunsIInv'
<1>1. RunTypes'
    BY DEF RunsIInv, RunTypes
<1>2. runs # <<>> => runs' # <<>>
    BY RunsFit DEF RunsIInv
<1>3. TabTypes'
    BY <1>2 DEF RunsIInv, TabTypes
<1> QED
    BY <1>1, <1>3 DEF RunsIInv

LEMMA MatchConstants ==
    ASSUME Runs!MatchAssumption
    PROVE  /\ MaxRuns \in Nat /\ MaxPolls \in Nat /\ MaxPolls # 0 /\ MaxFaults \in Nat
           /\ 0 \in 0 .. MaxPolls /\ 0 < MaxPolls /\ 0 \in 0 .. MaxFaults
           /\ Runs!AllSources \notin Feeds
<1>1. MaxRuns \in Nat /\ MaxPolls \in Nat /\ MaxPolls # 0 /\ MaxFaults \in Nat
    BY DEF Runs!MatchAssumption
<1>2. Runs!AllSources \notin Feeds
    BY DEF Runs!MatchAssumption, Runs!AllSources
<1> QED
    BY <1>1, <1>2

LEMMA FaultFits ==
    ASSUME Runs!MatchAssumption, RunsIInv, Runs!Fault
    PROVE  faults' \in 0 .. MaxFaults
BY MatchConstants DEF RunsIInv, RunTypes, Runs!Fault

LEMMA InitRuns ==
    ASSUME Runs!MatchAssumption, Runs!MatchInit
    PROVE  RunsIInv
<1>1. runs = <<>> /\ Len(runs) = 0 /\ runs \in Seq(RunShape) /\ DOMAIN runs = {}
    BY DEF Runs!MatchInit
<1>2. RunTypes
    BY <1>1, MatchConstants DEF RunTypes, Runs!MatchInit, Runs!None
<1>3. Runs!Closed \in TabShape
    BY MatchConstants DEF Runs!Closed, TabShape
<1>4. TabTypes
    BY <1>1, <1>3 DEF TabTypes, Runs!MatchInit, Runs!Closed
<1>5. ExecTypes
    BY <1>1, IdleFits DEF ExecTypes, Runs!MatchInit
<1>6. OneExecution
    BY <1>1, IdleFits DEF OneExecution, Runs!MatchInit, Executing
<1> QED
    BY <1>2, <1>4, <1>5, <1>6 DEF RunsIInv

LEMMA CreateStep ==
    ASSUME Runs!MatchAssumption, RunsIInv, NEW e \in Execs, Runs!CreateRun(e)
    PROVE  RunsIInv'
<1>1. PICK q \in Requests, fw \in BOOLEAN :
         /\ runs' = Append(runs, Runs!NewRun(q, fw))
         /\ Runs!Start(e, Len(runs) + 1, fw)
    BY DEF Runs!CreateRun
<1> DEFINE w == Runs!NewRun(q, fw)
           n == Len(runs) + 1
           v == [pc |-> "claim", run |-> n, follow |-> fw, attempted |-> {}, passes |-> {},
                 bounded |-> FALSE, hits |-> {}, warned |-> {}, prev |-> {}]
<1>2. exec[e].pc = "idle" /\ Len(runs) < MaxRuns /\ UNCHANGED <<linked, injected, tab, faults>>
      /\ exec' = [exec EXCEPT ![e] = v]
    BY <1>1 DEF Runs!CreateRun, Runs!Start, Runs!IdleExec
<1>3. Len(runs) \in Nat /\ DOMAIN runs = 1 .. Len(runs) /\ MaxRuns \in Nat
    BY RunsFit DEF RunsIInv, Runs!MatchAssumption
<1>4. w \in RunShape /\ w.inserts = 0
    BY <1>3 DEF RunShape, Runs!NewRun
<1>5. v \in ExecShape /\ v.pc \notin Executing /\ v.run = n /\ v.hits = {} /\ v.hits \subseteq v.passes /\ v.pc = "claim"
    BY <1>3 DEF ExecShape, Executing
<1>6. runs' = Append(runs, w)
    BY <1>1
<1> HIDE DEF w, v
<1>7. /\ runs' \in Seq(RunShape) /\ Len(runs') = n /\ DOMAIN runs' = 1 .. n /\ runs'[n] = w
      /\ \A i \in DOMAIN runs : runs'[i] = runs[i]
    BY <1>3, <1>4, <1>6 DEF RunsIInv, RunTypes
<1>8. \A f \in Execs : exec'[f] = IF f = e THEN v ELSE exec[f]
    BY <1>2 DEF RunsIInv, ExecTypes
<1>9. 0 .. Len(runs) \subseteq 0 .. n /\ 1 .. Len(runs) \subseteq 1 .. n /\ n \in 1 .. n /\ n \in 0 .. n /\ n <= MaxRuns
      /\ \A i \in 1 .. n : i # n => i \in 1 .. Len(runs)
    BY <1>2, <1>3
<1> HIDE DEF n
<1>10. RunTypes'
    BY <1>2, <1>7, <1>9 DEF RunsIInv, RunTypes
<1>11. ExecTypes'
    <2>1. exec' \in [Execs -> ExecShape]
        BY <1>2, <1>5 DEF RunsIInv, ExecTypes
    <2> QED
        BY <2>1, <1>5, <1>7, <1>8, <1>9 DEF RunsIInv, ExecTypes
<1>12. TabTypes'
    <2>1. n # 0
        BY <1>3 DEF n
    <2>2. runs' # <<>>
        BY <2>1, <1>7
    <2> QED
        BY <2>2, <1>2, <1>7, <1>9 DEF RunsIInv, TabTypes
<1>13. OneExecution'
    <2>1. \A f \in Execs : exec'[f].pc \in Executing =>
             exec'[f] = exec[f] /\ exec[f].run \in DOMAIN runs /\ exec[f].pc \in Executing
        BY <1>3, <1>5, <1>8 DEF RunsIInv, ExecTypes, Executing
    <2>2. \A pc \in {"plan", "match", "insert"} : pc \in Executing
        BY DEF Executing
    <2>3. \A i \in DOMAIN runs' : runs'[i].inserts <= 1 /\ (~runs'[i].claimed => runs'[i].inserts = 0)
        BY <1>3, <1>4, <1>7, <1>9 DEF RunsIInv, OneExecution
    <2>4. \A f \in Execs : exec'[f].pc \in Executing => runs'[exec'[f].run].claimed
        BY <2>1, <1>7 DEF RunsIInv, OneExecution
    <2>5. \A f, g \in Execs : exec'[f].pc \in Executing /\ exec'[g].pc \in Executing /\ exec'[f].run = exec'[g].run => f = g
        BY <2>1 DEF RunsIInv, OneExecution
    <2>6. \A f \in Execs : exec'[f].pc \in {"plan", "match", "insert"} => runs'[exec'[f].run].inserts = 0
        BY <2>1, <2>2, <1>7 DEF RunsIInv, OneExecution
    <2> QED
        BY <2>3, <2>4, <2>5, <2>6 DEF OneExecution
<1> QED
    BY <1>10, <1>11, <1>12, <1>13 DEF RunsIInv

\* The steps of an execution.
LEMMA ClaimStep ==
    ASSUME Runs!MatchAssumption, RunsIInv, NEW e \in Execs, Runs!ClaimRun(e)
    PROVE  RunsIInv'
<1> DEFINE n == exec[e].run
<1>1. exec[e].pc = "claim" /\ UNCHANGED <<linked, injected, tab, faults>>
    BY DEF Runs!ClaimRun
<1>2. exec[e] \in ExecShape /\ n \in DOMAIN runs /\ n \in 0 .. Len(runs) /\ exec[e].hits \subseteq exec[e].passes
    BY <1>1, RunsFit DEF RunsIInv, ExecTypes
<1>3. runs[n] \in RunShape /\ runs[n].inserts <= 1 /\ (~runs[n].claimed => runs[n].inserts = 0)
    BY <1>2, RunsFit DEF RunsIInv, OneExecution
<1>4. CASE Runs!Claimable(runs[n])
    <2> DEFINE w == [runs[n] EXCEPT !.claimed = TRUE]
               v == [exec[e] EXCEPT !.pc = "plan"]
    <2>1. runs' = [runs EXCEPT ![n] = w] /\ exec' = [exec EXCEPT ![e] = v]
        BY <1>4 DEF Runs!ClaimRun
    <2>2. w \in RunShape /\ w.claimed /\ w.inserts = 0
        BY <1>3, <1>4 DEF RunShape, Runs!Claimable
    <2>3. v \in ExecShape /\ v.pc = "plan" /\ v.run = n /\ v.hits = {} /\ v.hits \subseteq v.passes
        BY <1>1, <1>2 DEF ExecShape, Executing, RunsIInv, ExecTypes
    <2>4. ~runs[n].claimed /\ 0 <= 1
        BY <1>4 DEF Runs!Claimable
    <2>5. \A f \in Execs : ~(exec[f].pc \in Executing /\ exec[f].run = n)
        BY <2>4 DEF RunsIInv, OneExecution
    <2> HIDE DEF n, w, v
    <2>6. runs' \in Seq(RunShape) /\ Len(runs') = Len(runs) /\ ExecTypes' /\ OneExecution'
        <3>1. v.run \in 0 .. Len(runs) /\ w.inserts <= 1
            BY <1>2, <2>2, <2>3, <2>4
        <3> QED
            <4>1. Moves(e, v, n, w)
                BY <1>2, <2>1, <2>2, <2>3, <2>4, <2>5, <3>1 DEF Moves
            <4> QED
                BY <4>1, RunsMove
    <2> QED
        BY <1>1, <2>6, RunsRest DEF RunsIInv, RunTypes
<1>5. CASE ~Runs!Claimable(runs[n])
    <2> DEFINE v == Runs!After(e)
    <2>1. UNCHANGED runs /\ exec' = [exec EXCEPT ![e] = v]
        BY <1>5 DEF Runs!ClaimRun
    <2>2. /\ v \in ExecShape /\ v.run \in 0 .. Len(runs) /\ v.hits \subseteq v.passes
          /\ v.pc # "idle" => v.run = n
          /\ v.pc \notin Executing /\ v.pc \notin {"plan", "match", "insert"} /\ v.hits = {}
        BY <1>1, AfterFits DEF Executing
    <2>3. runs' = [runs EXCEPT ![n] = runs[n]]
        BY <2>1, <1>2, RunsFit DEF RunsIInv
    <2> HIDE DEF n, v
    <2>4. runs' \in Seq(RunShape) /\ Len(runs') = Len(runs) /\ ExecTypes' /\ OneExecution'
        <3>1. Moves(e, v, n, runs[n])
            BY <1>2, <1>3, <2>1, <2>2, <2>3 DEF Moves
        <3> QED
            BY <3>1, RunsMove
    <2> QED
        BY <1>1, <2>4, RunsRest DEF RunsIInv, RunTypes
<1> QED
    BY <1>4, <1>5

\* A step of an execution past its claim, which writes its own run or none.
LEMMA ExecutingStep ==
    ASSUME RunsIInv, NEW e \in Execs, exec[e].pc \in Executing,
           NEW v \in ExecShape, exec' = [exec EXCEPT ![e] = v],
           NEW w \in RunShape, runs' = [runs EXCEPT ![exec[e].run] = w],
           v.run \in 0 .. Len(runs), v.pc # "idle" => v.run = exec[e].run, v.hits \subseteq v.passes,
           w.claimed, w.inserts <= 1,
           v.pc \in {"claim", "plan", "match", "inject"} => v.hits = {},
           v.pc \in {"plan", "match", "insert"} => w.inserts = 0,
           UNCHANGED <<linked, injected, tab>>, faults' \in 0 .. MaxFaults
    PROVE  RunsIInv'
<1>1. runs' \in Seq(RunShape) /\ Len(runs') = Len(runs) /\ ExecTypes' /\ OneExecution'
    <2> DEFINE n == exec[e].run
    <2>1. n \in DOMAIN runs /\ \A f \in Execs : ~(f # e /\ exec[f].pc \in Executing /\ exec[f].run = n)
        BY AloneOnRun
    <2>2. runs' = [runs EXCEPT ![n] = w] /\ (v.pc # "idle" => v.run = n)
        OBVIOUS
    <2> HIDE DEF n
    <2>3. Moves(e, v, n, w)
        BY <2>1, <2>2 DEF Moves
    <2> QED
        BY <2>3, RunsMove
<1> QED
    BY <1>1, RunsRest DEF RunsIInv, RunTypes

LEMMA PlanStep ==
    ASSUME Runs!MatchAssumption, RunsIInv, NEW e \in Execs, Runs!Plan(e)
    PROVE  RunsIInv'
<1>1. PICK available \in {Feeds \union OwnSources, {}}, located \in BOOLEAN :
         \E attempted \in Runs!Attempts(runs[exec[e].run].requested, available) :
           exec' = [exec EXCEPT ![e].pc = "match", ![e].attempted = attempted,
                                ![e].bounded = located,
                                ![e].passes = Runs!Passes(available, attempted, located)]
    BY DEF Runs!Plan
<1>2. PICK a \in Runs!Attempts(runs[exec[e].run].requested, available) :
           exec' = [exec EXCEPT ![e].pc = "match", ![e].attempted = a,
                                ![e].bounded = located,
                                ![e].passes = Runs!Passes(available, a, located)]
    BY <1>1
<1> DEFINE n == exec[e].run
           ps == Runs!Passes(available, a, located)
           v == [exec[e] EXCEPT !.pc = "match", !.attempted = a, !.bounded = located, !.passes = ps]
<1>3. available \subseteq Runs!Sources /\ a \subseteq available
    BY <1>1, <1>2 DEF Runs!Sources, Runs!Attempts
<1>4. ps \subseteq Found
    BY <1>3 DEF Runs!Passes, Found
<1>5. exec[e].pc = "plan" /\ exec[e].pc \in Executing /\ UNCHANGED <<runs, linked, injected, tab>>
    BY DEF Runs!Plan, Executing
<1>6. exec[e].hits = {} /\ exec[e] \in ExecShape /\ n \in DOMAIN runs /\ n \in 0 .. Len(runs)
    BY <1>5, AloneOnRun DEF RunsIInv, ExecTypes
<1>7. /\ v \in ExecShape /\ v.pc = "match" /\ v.run = n /\ v.hits = {} /\ v.hits \subseteq v.passes
    BY <1>3, <1>4, <1>6 DEF ExecShape, Executing
<1>8. /\ runs[n] \in RunShape /\ runs[n].claimed /\ runs[n].inserts <= 1 /\ runs[n].inserts = 0
      /\ faults' \in 0 .. MaxFaults
    <2>1. Runs!Fault \/ UNCHANGED faults
        BY DEF Runs!Plan
    <2> QED
        BY <1>5, <2>1, AloneOnRun, FaultFits DEF RunsIInv, RunTypes
<1>9. exec' = [exec EXCEPT ![e] = v] /\ runs' = [runs EXCEPT ![n] = runs[n]]
    <2>1. exec \in [Execs -> ExecShape]
        BY DEF RunsIInv, ExecTypes
    <2> QED
        BY <1>2, <1>5, <1>6, <2>1, RunsFit DEF RunsIInv
<1> HIDE DEF v
<1> QED
    BY <1>5, <1>6, <1>7, <1>8, <1>9, ExecutingStep

LEMMA MatchSourcesStep ==
    ASSUME Runs!MatchAssumption, RunsIInv, NEW e \in Execs, Runs!MatchSources(e)
    PROVE  RunsIInv'
<1>1. PICK hs \in SUBSET exec[e].passes : exec' = [exec EXCEPT ![e].pc = "insert", ![e].hits = hs]
    BY DEF Runs!MatchSources
<1> DEFINE n == exec[e].run
           v == [exec[e] EXCEPT !.pc = "insert", !.hits = hs]
<1>2. exec[e].pc = "match" /\ exec[e].pc \in Executing /\ UNCHANGED <<runs, linked, injected, tab, faults>>
    BY DEF Runs!MatchSources, Executing
<1>3. exec[e] \in ExecShape /\ n \in DOMAIN runs /\ n \in 0 .. Len(runs) /\ exec[e].passes \subseteq Found
    BY <1>2, AloneOnRun DEF ExecShape
<1>4. v \in ExecShape /\ v.pc = "insert" /\ v.run = n /\ v.hits \subseteq v.passes
    BY <1>1, <1>3 DEF ExecShape, Executing
<1>5. runs[n] \in RunShape /\ runs[n].claimed /\ runs[n].inserts <= 1 /\ runs[n].inserts = 0
      /\ faults' \in 0 .. MaxFaults
    BY <1>2, AloneOnRun DEF RunsIInv, RunTypes
<1>6. exec' = [exec EXCEPT ![e] = v] /\ runs' = [runs EXCEPT ![n] = runs[n]]
    <2>1. exec \in [Execs -> ExecShape]
        BY DEF RunsIInv, ExecTypes
    <2> QED
        BY <1>1, <1>2, <1>3, <2>1, RunsFit DEF RunsIInv
<1> HIDE DEF v
<1> QED
    BY <1>2, <1>3, <1>4, <1>5, <1>6, ExecutingStep

LEMMA InsertJobsStep ==
    ASSUME Runs!MatchAssumption, RunsIInv, NEW e \in Execs, Runs!InsertJobs(e)
    PROVE  RunsIInv'
<1> DEFINE n == exec[e].run
           v == [exec[e] EXCEPT !.pc = "compare"]
           w == IF exec[e].hits = {} THEN runs[n]
                ELSE [runs[n] EXCEPT !.inserts = runs[n].inserts + 1, !.hits = exec[e].hits]
<1>1. exec[e].pc = "insert" /\ exec[e].pc \in Executing /\ UNCHANGED <<linked, injected, tab, faults>>
      /\ exec' = [exec EXCEPT ![e] = v]
    BY DEF Runs!InsertJobs, Executing
<1>2. exec[e] \in ExecShape /\ n \in DOMAIN runs /\ n \in 0 .. Len(runs) /\ exec[e].hits \subseteq exec[e].passes
      /\ exec[e].hits \subseteq Found
    BY <1>1, AloneOnRun DEF ExecShape
<1>3. runs[n] \in RunShape /\ runs[n].claimed /\ runs[n].inserts = 0 /\ faults' \in 0 .. MaxFaults
    BY <1>1, AloneOnRun DEF RunsIInv, RunTypes
<1>4. v \in ExecShape /\ v.pc = "compare" /\ v.run = n /\ v.hits \subseteq v.passes
    BY <1>2 DEF ExecShape, Executing
<1>5. w \in RunShape /\ w.claimed /\ w.inserts <= 1
    <2>1. 0 <= 1 /\ 0 + 1 <= 1 /\ runs[n].inserts + 1 = 0 + 1 /\ runs[n].inserts + 1 \in Nat
        BY <1>3
    <2>2. CASE exec[e].hits = {}
        BY <1>3, <2>1, <2>2
    <2>3. CASE exec[e].hits # {}
        BY <1>2, <1>3, <2>1, <2>3 DEF RunShape
    <2> QED
        BY <2>2, <2>3
<1>6. runs' = [runs EXCEPT ![n] = w]
    <2>1. CASE exec[e].hits = {}
        BY <2>1, <1>2, RunsFit DEF Runs!InsertJobs, RunsIInv
    <2>2. CASE exec[e].hits # {}
        BY <2>2, <1>2, RunsFit DEF Runs!InsertJobs, RunsIInv
    <2> QED
        BY <2>1, <2>2
<1> HIDE DEF v, w
<1> QED
    BY <1>1, <1>2, <1>3, <1>4, <1>5, <1>6, ExecutingStep

LEMMA CompareStep ==
    ASSUME Runs!MatchAssumption, RunsIInv, NEW e \in Execs, Runs!Compare(e)
    PROVE  RunsIInv'
<1> DEFINE n == exec[e].run
           ws == Runs!Warned(exec[e].attempted, exec[e].hits, Runs!HitsOf(Runs!Previous(n)))
<1>1. /\ exec[e].pc = "compare" /\ exec[e].pc \in Executing /\ UNCHANGED <<runs, linked, injected, tab>>
      /\ Runs!Fault \/ UNCHANGED faults
    BY DEF Runs!Compare, Executing
<1>2. exec[e] \in ExecShape /\ n \in DOMAIN runs /\ n \in 0 .. Len(runs) /\ exec[e].hits \subseteq exec[e].passes
    BY <1>1, AloneOnRun
<1>3. ws \subseteq Feeds /\ Runs!Previous(n) \subseteq Nat
    BY RunsFit DEF Runs!Warned, Runs!Previous, RunsIInv
<1>4. \/ exec' = [exec EXCEPT ![e].pc = "ready", ![e].prev = Runs!Previous(n), ![e].warned = ws]
      \/ exec' = [exec EXCEPT ![e].pc = "ready", ![e].prev = {}, ![e].warned = {}]
    BY DEF Runs!Compare
<1> HIDE DEF ws
<1>5. PICK u \in SUBSET Feeds, ps \in SUBSET Nat :
         exec' = [exec EXCEPT ![e].pc = "ready", ![e].prev = ps, ![e].warned = u]
    <2>1. CASE exec' = [exec EXCEPT ![e].pc = "ready", ![e].prev = Runs!Previous(n), ![e].warned = ws]
        BY <1>3, <2>1
    <2>2. CASE exec' = [exec EXCEPT ![e].pc = "ready", ![e].prev = {}, ![e].warned = {}]
        BY <2>2
    <2> QED
        BY <1>4, <2>1, <2>2
<1> DEFINE v == [exec[e] EXCEPT !.pc = "ready", !.prev = ps, !.warned = u]
<1>6. exec' = [exec EXCEPT ![e] = v]
    <2>1. exec \in [Execs -> ExecShape]
        BY DEF RunsIInv, ExecTypes
    <2> QED
        BY <1>5, <2>1
<1>7. v \in ExecShape /\ v.pc = "ready" /\ v.run = n /\ v.hits \subseteq v.passes
    BY <1>2, <1>5 DEF ExecShape, Executing
<1>8. runs[n] \in RunShape /\ runs[n].claimed /\ runs[n].inserts <= 1 /\ faults' \in 0 .. MaxFaults
    BY <1>1, AloneOnRun, FaultFits DEF RunsIInv, RunTypes
<1>9. runs' = [runs EXCEPT ![n] = runs[n]]
    BY <1>1, <1>2, RunsFit DEF RunsIInv
<1> HIDE DEF v
<1> QED
    BY <1>1, <1>2, <1>6, <1>7, <1>8, <1>9, ExecutingStep

LEMMA ReadyStep ==
    ASSUME Runs!MatchAssumption, RunsIInv, NEW e \in Execs, Runs!Ready(e) \/ Runs!FailRun(e)
    PROVE  RunsIInv'
<1> DEFINE n == exec[e].run
           v == Runs!After(e)
           d == Runs!Completed
<1>1. exec[e].pc \in Executing /\ UNCHANGED <<linked, injected, tab>> /\ exec' = [exec EXCEPT ![e] = v]
    BY DEF Runs!Ready, Runs!FailRun, Executing
<1>2. exec[e] \in ExecShape /\ n \in DOMAIN runs /\ runs[n] \in RunShape /\ runs[n].claimed
      /\ runs[n].inserts <= 1 /\ exec[e].pc # "idle"
    BY <1>1, AloneOnRun
<1>3. /\ v \in ExecShape /\ v.run \in 0 .. Len(runs) /\ v.hits \subseteq v.passes /\ v.hits = {}
      /\ v.pc # "idle" => v.run = n
      /\ v.pc \notin {"plan", "match", "insert"}
    BY <1>2, AfterFits DEF Executing
<1>4. d \in 0 .. (MaxRuns + 1)
    BY CompletedFits DEF RunsIInv
<1> HIDE DEF v, d
<1>5. faults' \in 0 .. MaxFaults
    BY FaultFits DEF Runs!Ready, Runs!FailRun, RunsIInv, RunTypes
<1>6. \E w \in RunShape : w.claimed /\ w.inserts <= 1 /\ runs' = [runs EXCEPT ![n] = w]
    <2>1. CASE Runs!Ready(e)
        <3> DEFINE w == [runs[n] EXCEPT !.status = "READY", !.warned = exec[e].warned, !.done = d]
        <3>1. w \in RunShape /\ w.claimed /\ w.inserts <= 1
            BY <1>2, <1>4 DEF RunShape, ExecShape
        <3>2. runs' = [runs EXCEPT ![n].status = "READY", ![n].warned = exec[e].warned, ![n].done = d]
            BY <2>1 DEF Runs!Ready, d
        <3>3. runs' = [runs EXCEPT ![n] = w]
            BY <3>2, <1>2, RunsFit DEF RunsIInv
        <3> HIDE DEF w
        <3> QED
            BY <3>1, <3>3
    <2>2. CASE Runs!FailRun(e)
        <3> DEFINE w == [runs[n] EXCEPT !.status = "FAILED", !.done = d]
        <3>1. w \in RunShape /\ w.claimed /\ w.inserts <= 1
            BY <1>2, <1>4 DEF RunShape
        <3>2. runs' = [runs EXCEPT ![n].status = "FAILED", ![n].done = d]
            BY <2>2 DEF Runs!FailRun, d
        <3>3. runs' = [runs EXCEPT ![n] = w]
            BY <3>2, <1>2, RunsFit DEF RunsIInv
        <3> HIDE DEF w
        <3> QED
            BY <3>1, <3>3
    <2> QED
        BY <2>1, <2>2
<1>7. PICK w \in RunShape : w.claimed /\ w.inserts <= 1 /\ runs' = [runs EXCEPT ![n] = w]
    BY <1>6
<1> QED
    BY <1>1, <1>3, <1>5, <1>7, ExecutingStep

\* A step of an execution that writes no run: to another run, or to none.
LEMMA AsideStep ==
    ASSUME RunsIInv, NEW e \in Execs, NEW v, NEW n, v \in ExecShape, exec' = [exec EXCEPT ![e] = v],
           n \in DOMAIN runs, v.run \in 0 .. Len(runs), v.pc # "idle" => v.run = n,
           v.hits = {}, v.pc \notin Executing, UNCHANGED runs
    PROVE  runs' \in Seq(RunShape) /\ Len(runs') = Len(runs) /\ ExecTypes' /\ OneExecution'
<1>1. runs[n] \in RunShape /\ runs[n].inserts <= 1 /\ (~runs[n].claimed => runs[n].inserts = 0)
    BY RunsFit DEF RunsIInv, OneExecution
<1>2. runs' = [runs EXCEPT ![n] = runs[n]]
    BY RunsFit DEF RunsIInv
<1>3. v.pc \notin {"plan", "match", "insert"}
    BY DEF Executing
<1>4. Moves(e, v, n, runs[n])
    BY <1>1, <1>2, <1>3 DEF Moves
<1> QED
    BY <1>4, RunsMove

LEMMA InjectionStep ==
    ASSUME Runs!MatchAssumption, RunsIInv, NEW e \in Execs,
           Runs!ReadInjection(e) \/ Runs!Inject(e) \/ Runs!Crash(e)
    PROVE  RunsIInv'
<1>1. exec[e].pc # "idle" /\ UNCHANGED <<runs, linked, tab>>
    BY DEF Runs!ReadInjection, Runs!Inject, Runs!Crash
<1>2. exec[e] \in ExecShape /\ exec[e].run \in DOMAIN runs /\ exec[e].run \in 0 .. Len(runs) /\ 0 \in 0 .. Len(runs)
    BY <1>1, RunsFit DEF RunsIInv, ExecTypes
<1>3. faults' \in 0 .. MaxFaults /\ injected' \in 0 .. Len(runs)
    BY <1>2, FaultFits DEF Runs!ReadInjection, Runs!Inject, Runs!Crash, RunsIInv, RunTypes
<1>4. CASE exec' = [exec EXCEPT ![e] = Runs!IdleExec]
    <2>1. runs' \in Seq(RunShape) /\ Len(runs') = Len(runs) /\ ExecTypes' /\ OneExecution'
        BY <1>1, <1>2, <1>4, IdleFits, AsideStep
    <2> QED
        BY <1>1, <1>3, <2>1, RunsRest DEF RunsIInv, RunTypes
<1>5. ASSUME NEW n \in Runs!Newest, exec' = [exec EXCEPT ![e] = [@ EXCEPT !.pc = "upsert", !.run = n]],
             exec[e].pc = "inject"
      PROVE  RunsIInv'
    <2> DEFINE v == [exec[e] EXCEPT !.pc = "upsert", !.run = n]
    <2>1. n \in DOMAIN runs /\ n \in Nat /\ n \in 0 .. Len(runs)
        BY RunsFit DEF Runs!Newest, RunsIInv
    <2>2. v \in ExecShape /\ v.pc = "upsert" /\ v.run = n /\ v.hits = {} /\ v.pc \notin Executing
        BY <1>2, <1>5, <2>1 DEF ExecShape, Executing, RunsIInv, ExecTypes
    <2>3. exec' = [exec EXCEPT ![e] = v]
        BY <1>5
    <2> HIDE DEF v
    <2>4. runs' \in Seq(RunShape) /\ Len(runs') = Len(runs) /\ ExecTypes' /\ OneExecution'
        BY <1>1, <2>1, <2>2, <2>3, AsideStep
    <2> QED
        BY <1>1, <1>3, <2>4, RunsRest DEF RunsIInv, RunTypes
<1> QED
    BY <1>4, <1>5 DEF Runs!ReadInjection, Runs!Inject, Runs!Crash

\* Time, the sweep and the pool.
LEMMA SweptFits ==
    ASSUME Runs!MatchAssumption, RunsIInv
    PROVE  /\ Runs!SweptRuns \in Seq(RunShape) /\ Len(Runs!SweptRuns) = Len(runs)
           /\ \A n \in DOMAIN runs : /\ Runs!SweptRuns[n].claimed = runs[n].claimed
                                     /\ Runs!SweptRuns[n].inserts = runs[n].inserts
<1>1. Len(runs) \in Nat /\ DOMAIN runs = 1 .. Len(runs) /\ \A n \in DOMAIN runs : runs[n] \in RunShape
    BY RunsFit DEF RunsIInv
<1> DEFINE d == Runs!Completed
           sw(n) == LET s == Runs!Swept(runs[n]) IN IF s = runs[n] THEN s ELSE [s EXCEPT !.done = d]
<1>2. d \in 0 .. (MaxRuns + 1)
    BY CompletedFits DEF RunsIInv
<1>3. Runs!SweptRuns = [n \in DOMAIN runs |-> sw(n)]
    BY DEF Runs!SweptRuns
<1> HIDE DEF d
<1>4. ASSUME NEW n \in DOMAIN runs
      PROVE  sw(n) \in RunShape /\ sw(n).claimed = runs[n].claimed /\ sw(n).inserts = runs[n].inserts
    <2> DEFINE s == Runs!Swept(runs[n])
    <2>1. s \in RunShape /\ s.claimed = runs[n].claimed /\ s.inserts = runs[n].inserts
        BY <1>1 DEF Runs!Swept, RunShape
    <2> HIDE DEF s
    <2>2. [s EXCEPT !.done = d] \in RunShape /\ [s EXCEPT !.done = d].claimed = s.claimed
          /\ [s EXCEPT !.done = d].inserts = s.inserts
        BY <1>2, <2>1 DEF RunShape
    <2>3. sw(n) = s \/ sw(n) = [s EXCEPT !.done = d]
        BY DEF s
    <2> HIDE DEF sw
    <2> QED
        BY <2>1, <2>2, <2>3
<1> HIDE DEF sw
<1>5. Runs!SweptRuns \in [1 .. Len(runs) -> RunShape] /\ \A n \in DOMAIN runs : Runs!SweptRuns[n] = sw(n)
    BY <1>1, <1>3, <1>4
<1>6. Runs!SweptRuns \in Seq(RunShape) /\ Len(Runs!SweptRuns) = Len(runs)
    BY <1>1, <1>5
<1> QED
    BY <1>4, <1>5, <1>6

LEMMA SweepStep ==
    ASSUME Runs!MatchAssumption, RunsIInv, Runs!Sweep
    PROVE  RunsIInv'
<1>1. runs' = Runs!SweptRuns /\ UNCHANGED <<linked, injected, exec, tab, faults>>
    BY DEF Runs!Sweep
<1>2. runs' \in Seq(RunShape) /\ Len(runs') = Len(runs) /\ ExecTypes' /\ OneExecution'
    BY <1>1, SweptFits, RunsKeep
<1> QED
    BY <1>1, <1>2, RunsRest DEF RunsIInv, RunTypes

LEMMA AgeStep ==
    ASSUME Runs!MatchAssumption, RunsIInv, NEW n \in DOMAIN runs, Runs!Age(n)
    PROVE  RunsIInv'
<1> DEFINE w == [runs[n] EXCEPT !.age = "old"]
<1>1. runs' = [runs EXCEPT ![n] = w] /\ UNCHANGED <<linked, injected, exec, tab, faults>>
    BY DEF Runs!Age
<1>2. w \in RunShape /\ w.claimed = runs[n].claimed /\ w.inserts = runs[n].inserts
    BY RunsFit DEF RunsIInv, RunShape
<1> HIDE DEF w
<1>3. runs' \in Seq(RunShape) /\ Len(runs') = Len(runs)
      /\ \A i \in DOMAIN runs : runs'[i].claimed = runs[i].claimed /\ runs'[i].inserts = runs[i].inserts
    BY <1>1, <1>2, RunUpdate DEF RunsIInv
<1>4. ExecTypes' /\ OneExecution'
    BY <1>1, <1>3, RunsKeep
<1> QED
    BY <1>1, <1>3, <1>4, RunsRest DEF RunsIInv, RunTypes

LEMMA UnlinkStep ==
    ASSUME Runs!MatchAssumption, RunsIInv, Runs!Unlink
    PROVE  RunsIInv'
<1>1. linked' \in BOOLEAN /\ UNCHANGED <<runs, injected, exec, tab>> /\ faults' \in 0 .. MaxFaults
    BY FaultFits DEF Runs!Unlink
<1>2. runs' \in Seq(RunShape) /\ Len(runs') = Len(runs)
    BY <1>1 DEF RunsIInv, RunTypes
<1>3. ExecTypes' /\ OneExecution'
    BY <1>1, <1>2, RunsKeep
<1> QED
    BY <1>1, <1>2, <1>3, RunsRest DEF RunsIInv, RunTypes

\* The steps of a page.
LEMMA PageStep ==
    ASSUME RunsIInv, NEW t \in Tabs, NEW v \in TabShape, tab' = [tab EXCEPT ![t] = v],
           v.since \in 0 .. Len(runs), runs # <<>>,
           v.pc \in {"trigger", "poll"} => v.polls < MaxPolls,
           runs' \in Seq(RunShape), Len(runs') = Len(runs), ExecTypes', OneExecution',
           UNCHANGED <<linked, injected, faults>>
    PROVE  RunsIInv'
<1>1. RunTypes'
    BY DEF RunsIInv, RunTypes
<1>2. \A u \in Tabs : tab'[u] = IF u = t THEN v ELSE tab[u]
    BY DEF RunsIInv, TabTypes
<1>3. runs' # <<>>
    BY RunsFit DEF RunsIInv
<1>4. tab' \in [Tabs -> TabShape]
    BY DEF RunsIInv, TabTypes
<1>5. TabTypes'
    BY <1>2, <1>3, <1>4 DEF RunsIInv, TabTypes
<1> QED
    BY <1>1, <1>5 DEF RunsIInv

LEMMA ShownFits ==
    ASSUME RunsIInv
    PROVE  Runs!StatusShown \in {"none", "MATCHING", "READY", "FAILED"}
<1>1. CASE runs = <<>>
    BY <1>1 DEF Runs!StatusShown
<1>2. CASE runs # <<>>
    <2>1. Len(runs) \in DOMAIN runs /\ runs[Len(runs)] \in RunShape
        BY <1>2, RunsFit DEF RunsIInv
    <2>2. Runs!StatusShown = runs[Len(runs)].status
        BY <1>2 DEF Runs!StatusShown, Runs!LatestRun
    <2> QED
        BY <2>1, <2>2 DEF RunShape
<1> QED
    BY <1>1, <1>2

LEMMA TabsStep ==
    ASSUME Runs!MatchAssumption, RunsIInv, NEW t \in Tabs, Runs!OpenTab(t) \/ Runs!TabStep(t)
    PROVE  RunsIInv'
<1>1. tab \in [Tabs -> TabShape] /\ tab[t] \in TabShape /\ tab[t].since \in 0 .. Len(runs)
      /\ (tab[t].pc # "closed" => runs # <<>>) /\ (tab[t].pc \in {"trigger", "poll"} => tab[t].polls < MaxPolls)
    BY DEF RunsIInv, TabTypes
<1>2. Runs!StatusShown \in {"none", "MATCHING", "READY", "FAILED"}
    BY ShownFits
<1>3. Len(runs) \in Nat /\ Len(runs) \in 0 .. Len(runs) /\ runs \in Seq(RunShape)
    BY RunsFit DEF RunsIInv, RunTypes
<1>4. UNCHANGED <<runs, exec>> => runs' \in Seq(RunShape) /\ Len(runs') = Len(runs) /\ ExecTypes' /\ OneExecution'
    BY <1>3, RunsKeep
<1>5. CASE Runs!OpenTab(t)
    <2> DEFINE v == [pc |-> IF Runs!StatusShown = "MATCHING" THEN "trigger" ELSE "closed",
                     polls |-> 0, since |-> Len(runs), shown |-> Runs!StatusShown]
    <2>1. tab' = [tab EXCEPT ![t] = v] /\ UNCHANGED <<runs, linked, injected, exec, faults>> /\ runs # <<>>
        BY <1>5 DEF Runs!OpenTab, Runs!LatestRun
    <2>2. v \in TabShape /\ v.since \in 0 .. Len(runs) /\ v.polls < MaxPolls
        BY <1>2, <1>3, MatchConstants DEF TabShape
    <2> HIDE DEF v
    <2> QED
        BY <1>4, <2>1, <2>2, PageStep
<1>6. CASE Runs!Trigger(t)
    <2> DEFINE v == [tab[t] EXCEPT !.pc = "poll"]
    <2>1. tab[t].pc = "trigger" /\ tab' = [tab EXCEPT ![t] = v] /\ UNCHANGED <<runs, linked, injected, faults>>
        BY <1>6 DEF Runs!Trigger
    <2>2. v \in TabShape /\ v.since \in 0 .. Len(runs) /\ v.polls < MaxPolls /\ runs # <<>>
        BY <1>1, <2>1 DEF TabShape
    <2> HIDE DEF v
    <2>3. runs' \in Seq(RunShape) /\ Len(runs') = Len(runs) /\ ExecTypes' /\ OneExecution'
        <3>1. CASE UNCHANGED exec
            BY <1>4, <2>1, <3>1
        <3>2. ASSUME NEW e \in Execs, NEW n \in DOMAIN runs, Runs!Start(e, n, FALSE)
              PROVE  runs' \in Seq(RunShape) /\ Len(runs') = Len(runs) /\ ExecTypes' /\ OneExecution'
            <4> DEFINE x == [Runs!IdleExec EXCEPT !.pc = "claim", !.run = n, !.follow = FALSE]
            <4>1. n \in Nat /\ n \in 0 .. Len(runs)
                BY RunsFit DEF RunsIInv
            <4>2. exec' = [exec EXCEPT ![e] = x]
                BY <3>2 DEF Runs!Start
            <4>3. x \in ExecShape /\ x.pc \notin Executing /\ x.hits = {} /\ x.run = n
                BY <4>1, IdleFits DEF ExecShape, Executing
            <4> HIDE DEF x
            <4> QED
                BY <2>1, <4>1, <4>2, <4>3, AsideStep
        <3> QED
            BY <1>6, <3>1, <3>2 DEF Runs!Trigger
    <2> QED
        BY <2>1, <2>2, <2>3, PageStep
<1>7. CASE Runs!Poll(t)
    <2> DEFINE pc2 == IF Runs!Settled(Runs!SweptRuns[Runs!LatestRun]) \/ Runs!LastPoll(t) THEN "refresh" ELSE "poll"
               v == [tab[t] EXCEPT !.polls = tab[t].polls + 1, !.pc = pc2]
    <2>1. tab[t].pc = "poll" /\ runs' = Runs!SweptRuns /\ UNCHANGED <<linked, injected, exec, faults>>
        BY <1>7 DEF Runs!Poll
    <2>2. tab' = [tab EXCEPT ![t].polls = @ + 1, ![t].pc = pc2]
        BY <1>7 DEF Runs!Poll
    <2>3. tab' = [tab EXCEPT ![t] = v]
        BY <1>1, <2>2
    <2>4. pc2 \in {"refresh", "poll"} /\ (pc2 = "poll" => tab[t].polls + 1 # MaxPolls)
        BY DEF Runs!LastPoll
    <2> HIDE DEF pc2
    <2>5. tab[t].polls \in 0 .. MaxPolls /\ tab[t].polls < MaxPolls /\ runs # <<>> /\ MaxPolls \in Nat
        BY <1>1, <2>1, MatchConstants DEF TabShape
    <2>6. tab[t].polls + 1 \in 0 .. MaxPolls /\ (pc2 = "poll" => tab[t].polls + 1 < MaxPolls)
        BY <2>4, <2>5
    <2>7. v \in TabShape /\ v.since \in 0 .. Len(runs) /\ (v.pc \in {"trigger", "poll"} => v.polls < MaxPolls)
        BY <1>1, <2>4, <2>6 DEF TabShape
    <2> HIDE DEF v
    <2>8. runs' \in Seq(RunShape) /\ Len(runs') = Len(runs) /\ ExecTypes' /\ OneExecution'
        BY <2>1, SweptFits, RunsKeep
    <2> QED
        BY <2>1, <2>3, <2>5, <2>7, <2>8, PageStep
<1>8. CASE Runs!Refresh(t)
    <2> DEFINE v == [tab[t] EXCEPT !.pc = IF Runs!StatusShown = "MATCHING" THEN "still" ELSE "closed",
                                   !.shown = Runs!StatusShown]
    <2>1. tab[t].pc = "refresh" /\ UNCHANGED <<runs, linked, injected, exec, faults>>
          /\ tab' = [tab EXCEPT ![t] = v]
        BY <1>1, <1>8 DEF Runs!Refresh
    <2>2. v \in TabShape /\ v.since \in 0 .. Len(runs) /\ v.pc \notin {"trigger", "poll"} /\ runs # <<>>
        BY <1>1, <1>2, <2>1 DEF TabShape
    <2> HIDE DEF v
    <2> QED
        BY <1>4, <2>1, <2>2, PageStep
<1> QED
    BY <1>5, <1>6, <1>7, <1>8 DEF Runs!TabStep

LEMMA RunsStep ==
    ASSUME Runs!MatchAssumption, RunsIInv, [Runs!MatchNext]_Runs!vars
    PROVE  RunsIInv'
<1>1. CASE Runs!MatchNext
    <2>1. ASSUME NEW e \in Execs, Runs!CreateRun(e) \/ Runs!ExecStep(e) \/ Runs!FailRun(e) \/ Runs!Crash(e)
          PROVE  RunsIInv'
        BY <2>1, CreateStep, ClaimStep, PlanStep, MatchSourcesStep, InsertJobsStep, CompareStep, ReadyStep, InjectionStep
           DEF Runs!ExecStep
    <2>2. ASSUME NEW t \in Tabs, Runs!OpenTab(t) \/ Runs!TabStep(t)
          PROVE  RunsIInv'
        BY <2>2, TabsStep
    <2> QED
        BY <1>1, <2>1, <2>2, AgeStep, SweepStep, UnlinkStep DEF Runs!MatchNext
<1>2. CASE UNCHANGED Runs!vars
    <2>1. UNCHANGED <<runs, linked, injected, exec, tab, faults>>
        BY <1>2 DEF Runs!vars
    <2>2. RunTypes' /\ ExecTypes' /\ TabTypes' /\ OneExecution'
        BY <2>1 DEF RunsIInv, RunTypes, ExecTypes, TabTypes, OneExecution
    <2> QED
        BY <2>2 DEF RunsIInv
<1> QED
    BY <1>1, <1>2

LEMMA RunsInvariance ==
    ASSUME Runs!MatchAssumption
    PROVE  Runs!MatchSpec => []RunsIInv
<1>1. Runs!MatchInit => RunsIInv
    BY InitRuns
<1>2. RunsIInv /\ [Runs!MatchNext]_Runs!vars => RunsIInv'
    BY RunsStep
<1> QED
    BY <1>1, <1>2, PTL DEF Runs!MatchSpec

\* For any executions, pages, sources and crashes, the types hold and the
\* jobs of a run are stored once, although its creator and every poller try to execute
\* it (the claim of executeMatchRun).
THEOREM RowsOnceAlways ==
    ASSUME Runs!MatchAssumption
    PROVE  Runs!MatchSpec => [](Runs!TypeOK /\ Runs!RowsOnce)
<1>1. ASSUME RunsIInv
      PROVE  Runs!TypeOK
    <2>1. \A e \in Execs : exec[e] \in ExecShape
        BY <1>1 DEF RunsIInv, ExecTypes
    <2>2. \A x \in ExecShape : x.warned \subseteq Feeds
             /\ x.pc \in {"idle", "claim", "plan", "match", "insert", "compare", "ready", "inject", "upsert"}
        BY DEF ExecShape, Executing
    <2>3. \A e \in Execs :
            /\ exec[e].pc \in {"idle", "claim", "plan", "match", "insert", "compare", "ready", "inject", "upsert"}
            /\ exec[e].run \in 0 .. Len(runs)
            /\ exec[e].warned \subseteq Feeds
            /\ exec[e].hits \subseteq exec[e].passes
        BY <1>1, <2>1, <2>2 DEF RunsIInv, ExecTypes
    <2>4. \A x \in TabShape : x.pc \in {"closed", "trigger", "poll", "refresh", "still"} /\ x.polls \in 0 .. MaxPolls
        BY DEF TabShape
    <2>5. \A t \in Tabs : /\ tab[t].pc \in {"closed", "trigger", "poll", "refresh", "still"}
                          /\ tab[t].polls \in 0 .. MaxPolls
                          /\ tab[t].since \in 0 .. Len(runs)
        BY <1>1, <2>4 DEF RunsIInv, TabTypes
    <2>6. runs \in Seq(RunShape) /\ linked \in BOOLEAN /\ injected \in 0 .. Len(runs) /\ faults \in 0 .. MaxFaults
        BY <1>1 DEF RunsIInv, RunTypes
    <2>7. runs \in Seq([status : {"MATCHING", "READY", "FAILED"}, claimed : BOOLEAN,
                     age : {"young", "old"}, requested : Requests, follow : BOOLEAN,
                     inserts : Nat, hits : SUBSET (Runs!Sources \union {Runs!AllSources}),
                     warned : SUBSET Feeds, done : 0..(MaxRuns + 1)])
        BY <2>6 DEF RunShape, Found
    <2> QED
        BY <2>3, <2>5, <2>6, <2>7 DEF Runs!TypeOK
<1>2. RunsIInv => Runs!RowsOnce
    BY DEF RunsIInv, OneExecution, Runs!RowsOnce
<1> QED
    BY <1>1, <1>2, RunsInvariance, PTL

-----------------------------------------------------------------------------
(* Feeds are bounded *)

BoundedFeeds ==
    Feeds # {} => \A e \in Execs : exec[e].pc = "match" =>
        /\ Runs!AllSources \in exec[e].passes => exec[e].attempted = {}
        /\ exec[e].passes \cap Feeds # {} => exec[e].bounded

\* For any selection, limit, failing read and execution, a large feed is matched by its
\* name only with a location, and within all sources at once only by an execution that
\* could not read a single source of the talent (the guard of executeMatchRun that
\* keeps 8vance's search up, and its fallback).
THEOREM NeverUnboundedAlways ==
    ASSUME Runs!MatchAssumption
    PROVE  Runs!MatchSpec => []Runs!NeverUnbounded
<1>1. Runs!MatchInit => BoundedFeeds
    BY IdleFits DEF Runs!MatchInit, BoundedFeeds
<1>2. ASSUME RunsIInv, BoundedFeeds, [Runs!MatchNext]_Runs!vars
      PROVE  BoundedFeeds'
    <2>1. exec \in [Execs -> ExecShape]
        BY <1>2 DEF RunsIInv, ExecTypes
    <2>2. ASSUME UNCHANGED exec
          PROVE  BoundedFeeds'
        BY <1>2, <2>2 DEF BoundedFeeds
    <2>3. ASSUME NEW e \in Execs, NEW v, exec' = [exec EXCEPT ![e] = v], v.pc # "match"
          PROVE  BoundedFeeds'
        BY <1>2, <2>1, <2>3 DEF BoundedFeeds
    <2>4. ASSUME NEW e \in Execs, Runs!Plan(e)
          PROVE  BoundedFeeds'
        <3>1. PICK available \in {Runs!Sources, {}}, located \in BOOLEAN, a \in SUBSET Runs!Sources :
                /\ a \subseteq available
                /\ exec' = [exec EXCEPT ![e].pc = "match", ![e].attempted = a, ![e].bounded = located,
                                        ![e].passes = Runs!Passes(available, a, located)]
            <4>1. PICK available \in {Runs!Sources, {}}, located \in BOOLEAN :
                     \E a \in Runs!Attempts(runs[exec[e].run].requested, available) :
                       exec' = [exec EXCEPT ![e].pc = "match", ![e].attempted = a, ![e].bounded = located,
                                            ![e].passes = Runs!Passes(available, a, located)]
                BY <2>4 DEF Runs!Plan, Runs!Sources
            <4>2. \A q : Runs!Attempts(q, available) \subseteq SUBSET available
                BY DEF Runs!Attempts
            <4> QED
                BY <4>1, <4>2
        <3> DEFINE ps == Runs!Passes(available, a, located)
        <3>2. ASSUME Feeds # {}
              PROVE  (Runs!AllSources \in ps => a = {}) /\ (ps \cap Feeds # {} => located)
            <4>1. Runs!Sources \cap Feeds # {} /\ Runs!AllSources \notin Runs!Sources /\ Runs!AllSources \notin Feeds
                BY <3>2 DEF Runs!Sources, Runs!MatchAssumption, Runs!AllSources
            <4>2. CASE available = Runs!Sources
                <5>1. ps = {s \in a : s \in Feeds => located}
                    BY <4>1, <4>2 DEF Runs!Passes
                <5> QED
                    BY <3>1, <4>1, <4>2, <5>1
            <4>3. CASE available = {}
                <5>1. a = {} /\ ps = {Runs!AllSources}
                    BY <3>1, <4>3 DEF Runs!Passes
                <5> QED
                    BY <4>1, <5>1
            <4> QED
                BY <3>1, <4>2, <4>3
        <3> HIDE DEF ps
        <3>3. /\ exec'[e].pc = "match" /\ exec'[e].passes = ps /\ exec'[e].bounded = located
              /\ exec'[e].attempted = a
            <4>1. exec[e] \in ExecShape
                BY <2>1
            <4> QED
                BY <2>1, <3>1, <4>1 DEF ExecShape, ps
        <3>4. \A f \in Execs : f # e => exec'[f] = exec[f]
            BY <2>1, <3>1
        <3> QED
            BY <1>2, <3>2, <3>3, <3>4 DEF BoundedFeeds
    <2>5. ASSUME NEW e \in Execs, Runs!CreateRun(e) \/ (\E n \in DOMAIN runs : Runs!Start(e, n, FALSE))
          PROVE  BoundedFeeds'
        <3>1. PICK n, fw : Runs!Start(e, n, fw)
            BY <2>5 DEF Runs!CreateRun
        <3>2. [Runs!IdleExec EXCEPT !.pc = "claim", !.run = n, !.follow = fw].pc = "claim"
            BY DEF Runs!IdleExec
        <3> QED
            BY <2>3, <3>1, <3>2 DEF Runs!Start
    <2>6. ASSUME NEW e \in Execs, exec[e].pc # "idle", exec' = [exec EXCEPT ![e] = Runs!After(e)]
          PROVE  BoundedFeeds'
        BY <1>2, <2>3, <2>6, AfterFits DEF Executing
    <2>7. ASSUME NEW e \in Execs, Runs!ClaimRun(e) \/ Runs!Ready(e) \/ Runs!FailRun(e)
          PROVE  BoundedFeeds'
        <3>1. exec[e].pc # "idle"
            BY <2>7 DEF Runs!ClaimRun, Runs!Ready, Runs!FailRun
        <3>2. exec' = [exec EXCEPT ![e] = Runs!After(e)] \/ exec' = [exec EXCEPT ![e] = [exec[e] EXCEPT !.pc = "plan"]]
            BY <2>7 DEF Runs!ClaimRun, Runs!Ready, Runs!FailRun
        <3>3. [exec[e] EXCEPT !.pc = "plan"].pc = "plan"
            BY <2>1 DEF ExecShape
        <3> QED
            BY <2>3, <2>6, <3>1, <3>2, <3>3
    <2>8. ASSUME NEW e \in Execs, Runs!MatchSources(e) \/ Runs!InsertJobs(e) \/ Runs!Compare(e)
          PROVE  BoundedFeeds'
        <3>1. exec[e] \in ExecShape
            BY <2>1
        <3>2. exec'[e].pc \in {"insert", "compare", "ready"} /\ \A f \in Execs : f # e => exec'[f] = exec[f]
            <4>1. CASE Runs!MatchSources(e)
                BY <2>1, <3>1, <4>1 DEF Runs!MatchSources, ExecShape
            <4>2. CASE Runs!InsertJobs(e)
                BY <2>1, <3>1, <4>2 DEF Runs!InsertJobs, ExecShape
            <4>3. CASE Runs!Compare(e)
                BY <2>1, <3>1, <4>3 DEF Runs!Compare, ExecShape
            <4> QED
                BY <2>8, <4>1, <4>2, <4>3
        <3> QED
            BY <1>2, <3>2 DEF BoundedFeeds
    <2>9. ASSUME NEW e \in Execs, Runs!ReadInjection(e) \/ Runs!Inject(e) \/ Runs!Crash(e)
          PROVE  BoundedFeeds'
        <3>1. exec[e] \in ExecShape
            BY <2>1
        <3>2. exec'[e].pc \in {"idle", "upsert"} /\ \A f \in Execs : f # e => exec'[f] = exec[f]
            <4>1. CASE Runs!ReadInjection(e)
                <5>1. ASSUME NEW n, exec' = [exec EXCEPT ![e] = [@ EXCEPT !.pc = "upsert", !.run = n]]
                      PROVE  exec'[e].pc = "upsert" /\ \A f \in Execs : f # e => exec'[f] = exec[f]
                    BY <2>1, <3>1, <5>1 DEF ExecShape
                <5>2. CASE exec' = [exec EXCEPT ![e] = Runs!IdleExec]
                    BY <2>1, <5>2, IdleFits
                <5> QED
                    BY <4>1, <5>1, <5>2 DEF Runs!ReadInjection
            <4>2. CASE Runs!Inject(e) \/ Runs!Crash(e)
                BY <2>1, <4>2, IdleFits DEF Runs!Inject, Runs!Crash
            <4> QED
                BY <2>9, <4>1, <4>2
        <3> QED
            BY <1>2, <3>2 DEF BoundedFeeds
    <2>10. ASSUME NEW t \in Tabs, Runs!OpenTab(t) \/ Runs!TabStep(t)
           PROVE  BoundedFeeds'
        <3>1. UNCHANGED exec \/ \E e \in Execs, n \in DOMAIN runs : Runs!Start(e, n, FALSE)
            BY <2>10 DEF Runs!OpenTab, Runs!TabStep, Runs!Trigger, Runs!Poll, Runs!Refresh
        <3> QED
            BY <2>2, <2>5, <3>1
    <2>11. CASE (\E n \in DOMAIN runs : Runs!Age(n)) \/ Runs!Sweep \/ Runs!Unlink \/ UNCHANGED Runs!vars
        <3>1. UNCHANGED exec
            BY <2>11 DEF Runs!Age, Runs!Sweep, Runs!Unlink, Runs!vars
        <3> QED
            BY <2>2, <3>1
    <2> QED
        BY <1>2, <2>4, <2>5, <2>7, <2>8, <2>9, <2>10, <2>11 DEF Runs!MatchNext, Runs!ExecStep
<1>3. BoundedFeeds => Runs!NeverUnbounded
    BY DEF BoundedFeeds, Runs!NeverUnbounded
<1> QED
    BY <1>1, <1>2, <1>3, RunsInvariance, PTL DEF Runs!MatchSpec

-----------------------------------------------------------------------------
(* Settled for good *)

\* While an execution past its claim is at a run, the run is MATCHING or was swept.
OnlySwept ==
    \A e \in Execs : exec[e].pc \in Executing =>
        LET r == runs[exec[e].run]
        IN  r.status = "MATCHING" \/ (r.status = "FAILED" /\ r.age = "old")

\* A step that settles no run but by sweeping it.
Gentle ==
    /\ DOMAIN runs \subseteq DOMAIN runs'
    /\ \A n \in DOMAIN runs :
         \/ runs'[n].status = runs[n].status /\ (runs[n].age = "old" => runs'[n].age = "old")
         \/ runs[n].status = "MATCHING" /\ runs'[n].status = "FAILED" /\ runs'[n].age = "old"

LEMMA GentleKeeps ==
    ASSUME RunsIInv, OnlySwept, Gentle,
           \A f \in Execs : exec'[f].pc \in Executing =>
               \/ exec[f].pc \in Executing /\ exec'[f].run = exec[f].run
               \/ runs'[exec'[f].run].status = "MATCHING"
    PROVE  OnlySwept' /\ Runs!SettledForGood
<1>1. \A f \in Execs : exec[f].pc \in Executing => exec[f].run \in DOMAIN runs
    BY RunsFit DEF RunsIInv, ExecTypes, Executing
<1>2. OnlySwept'
    <2> SUFFICES ASSUME NEW f \in Execs, exec'[f].pc \in Executing
                 PROVE  \/ runs'[exec'[f].run].status = "MATCHING"
                        \/ (runs'[exec'[f].run].status = "FAILED" /\ runs'[exec'[f].run].age = "old")
        BY DEF OnlySwept
    <2> SUFFICES ASSUME exec[f].pc \in Executing, exec'[f].run = exec[f].run
                 PROVE  \/ runs'[exec[f].run].status = "MATCHING"
                        \/ (runs'[exec[f].run].status = "FAILED" /\ runs'[exec[f].run].age = "old")
        OBVIOUS
    <2>1. \/ runs[exec[f].run].status = "MATCHING"
          \/ (runs[exec[f].run].status = "FAILED" /\ runs[exec[f].run].age = "old")
        BY DEF OnlySwept
    <2> QED
        BY <1>1, <2>1 DEF Gentle
<1>3. Runs!SettledForGood
    BY DEF Gentle, Runs!SettledForGood, Runs!Settled
<1> QED
    BY <1>2, <1>3

\* The end of an execution, the one step that writes over a swept run.
LEMMA EndKeeps ==
    ASSUME Runs!MatchAssumption, RunsIInv, OnlySwept, NEW e \in Execs, Runs!Ready(e) \/ Runs!FailRun(e)
    PROVE  OnlySwept' /\ Runs!SettledForGood
<1> DEFINE n == exec[e].run
           d == Runs!Completed
<1>1. exec[e].pc \in Executing /\ exec[e].pc # "idle" /\ exec' = [exec EXCEPT ![e] = Runs!After(e)]
    BY DEF Runs!Ready, Runs!FailRun, Executing
<1>2. /\ n \in DOMAIN runs /\ runs[n] \in RunShape
      /\ \A f \in Execs : ~(f # e /\ exec[f].pc \in Executing /\ exec[f].run = n)
    BY <1>1, AloneOnRun
<1>3. \/ runs' = [runs EXCEPT ![n].status = "READY", ![n].warned = exec[e].warned, ![n].done = d]
         /\ exec[e].pc = "ready"
      \/ runs' = [runs EXCEPT ![n].status = "FAILED", ![n].done = d]
    BY DEF Runs!Ready, Runs!FailRun
<1> HIDE DEF d
<1>4. /\ DOMAIN runs' = DOMAIN runs
      /\ \A i \in DOMAIN runs : i # n => runs'[i] = runs[i]
      /\ (runs'[n].status = "READY" /\ exec[e].pc = "ready") \/ runs'[n].status = "FAILED"
    BY <1>2, <1>3, RunsFit DEF RunShape, RunsIInv
<1>5. exec'[e].pc \notin Executing /\ \A f \in Execs : f # e => exec'[f] = exec[f]
    BY <1>1, AfterFits DEF RunsIInv, ExecTypes
<1>6. runs[n].status = "MATCHING" \/ (runs[n].status = "FAILED" /\ runs[n].age = "old")
    BY <1>1 DEF OnlySwept
<1>7. \A f \in Execs : exec[f].pc \in Executing => exec[f].run \in DOMAIN runs
    BY RunsFit DEF RunsIInv, ExecTypes, Executing
<1> HIDE DEF n
<1>8. OnlySwept'
    <2> SUFFICES ASSUME NEW f \in Execs, exec'[f].pc \in Executing
                 PROVE  \/ runs'[exec'[f].run].status = "MATCHING"
                        \/ (runs'[exec'[f].run].status = "FAILED" /\ runs'[exec'[f].run].age = "old")
        BY DEF OnlySwept
    <2>1. f # e /\ exec'[f] = exec[f] /\ exec[f].run # n /\ exec[f].run \in DOMAIN runs
        BY <1>2, <1>5, <1>7
    <2>2. runs'[exec'[f].run] = runs[exec[f].run]
        BY <1>4, <2>1
    <2> QED
        BY <2>1, <2>2 DEF OnlySwept
<1>9. Runs!SettledForGood
    <2> SUFFICES ASSUME NEW i \in DOMAIN runs, Runs!Settled(runs[i]), runs'[i].status # runs[i].status
                 PROVE  /\ runs[i].status = "FAILED" /\ runs[i].age = "old" /\ runs'[i].status = "READY"
                        /\ \E f \in Execs : exec[f].run = i /\ exec[f].pc = "ready" /\ exec'[f].pc # "ready"
        BY DEF Runs!SettledForGood
    <2>1. i = n
        BY <1>4
    <2>2. runs[i].status = "FAILED" /\ runs[i].age = "old"
        BY <1>6, <2>1 DEF Runs!Settled
    <2>3. runs'[i].status = "READY" /\ exec[e].pc = "ready" /\ exec[e].run = i
        BY <1>4, <2>1, <2>2 DEF n
    <2>4. exec'[e].pc # "ready"
        BY <1>5 DEF Executing
    <2> QED
        BY <2>2, <2>3, <2>4
<1> QED
    BY <1>8, <1>9

LEMMA SweptStep ==
    ASSUME Runs!MatchAssumption, RunsIInv, OnlySwept, [Runs!MatchNext]_Runs!vars
    PROVE  OnlySwept' /\ Runs!SettledForGood
<1>1. exec \in [Execs -> ExecShape] /\ \A e \in Execs : exec[e] \in ExecShape
    BY DEF RunsIInv, ExecTypes
<1>2. UNCHANGED runs => Gentle
    BY DEF Gentle
<1>3. ASSUME Gentle, UNCHANGED exec
      PROVE  OnlySwept' /\ Runs!SettledForGood
    BY <1>3, GentleKeeps
<1>4. ASSUME NEW e \in Execs, Gentle, \A f \in Execs : f # e => exec'[f] = exec[f], exec'[e].pc \notin Executing
      PROVE  OnlySwept' /\ Runs!SettledForGood
    BY <1>4, GentleKeeps
<1>5. ASSUME NEW e \in Execs, Runs!CreateRun(e)
      PROVE  OnlySwept' /\ Runs!SettledForGood
    <2>1. PICK q, fw : /\ runs' = Append(runs, Runs!NewRun(q, fw))
                       /\ Runs!Start(e, Len(runs) + 1, fw)
        BY <1>5 DEF Runs!CreateRun
    <2> DEFINE v == [Runs!IdleExec EXCEPT !.pc = "claim", !.run = Len(runs) + 1, !.follow = fw]
               w == Runs!NewRun(q, fw)
    <2>2. v.pc = "claim" /\ exec' = [exec EXCEPT ![e] = v] /\ runs' = Append(runs, w)
        BY <2>1 DEF Runs!IdleExec, Runs!Start
    <2> HIDE DEF v, w
    <2>3. exec'[e].pc \notin Executing /\ \A f \in Execs : f # e => exec'[f] = exec[f]
        BY <1>1, <2>2 DEF Executing
    <2>4. Gentle
        <3>1. runs \in Seq(RunShape) /\ Len(runs) \in Nat /\ DOMAIN runs = 1 .. Len(runs)
            BY RunsFit DEF RunsIInv, RunTypes
        <3>2. DOMAIN runs \subseteq DOMAIN runs' /\ \A i \in DOMAIN runs : runs'[i] = runs[i]
            BY <2>2, <3>1
        <3> QED
            BY <3>2 DEF Gentle
    <2> QED
        BY <1>4, <2>3, <2>4
<1>6. ASSUME NEW e \in Execs, Runs!ClaimRun(e)
      PROVE  OnlySwept' /\ Runs!SettledForGood
    <2> DEFINE n == exec[e].run
    <2>1. exec[e].pc = "claim" /\ n \in DOMAIN runs /\ runs[n] \in RunShape
        <3>1. exec[e].pc = "claim"
            BY <1>6 DEF Runs!ClaimRun
        <3> QED
            BY <3>1, RunsFit DEF RunsIInv, ExecTypes
    <2>2. CASE Runs!Claimable(runs[n])
        <3>1. runs' = [runs EXCEPT ![n].claimed = TRUE] /\ exec' = [exec EXCEPT ![e].pc = "plan"]
            BY <1>6, <2>2 DEF Runs!ClaimRun
        <3>2. /\ DOMAIN runs' = DOMAIN runs
              /\ \A i \in DOMAIN runs : runs'[i].status = runs[i].status /\ runs'[i].age = runs[i].age
            BY <2>1, <3>1, RunsFit DEF RunShape, RunsIInv
        <3>3. exec'[e].run = n /\ \A f \in Execs : f # e => exec'[f] = exec[f]
            BY <1>1, <3>1 DEF ExecShape
        <3>4. runs'[n].status = "MATCHING"
            BY <2>1, <2>2, <3>2 DEF Runs!Claimable
        <3>5. Gentle
            BY <3>2 DEF Gentle
        <3> HIDE DEF n
        <3> QED
            BY <3>3, <3>4, <3>5, GentleKeeps
    <2>3. CASE ~Runs!Claimable(runs[n])
        <3>1. UNCHANGED runs /\ exec' = [exec EXCEPT ![e] = Runs!After(e)]
            BY <1>6, <2>3 DEF Runs!ClaimRun
        <3>2. exec'[e].pc \notin Executing /\ \A f \in Execs : f # e => exec'[f] = exec[f]
            BY <1>1, <2>1, <3>1, AfterFits
        <3> QED
            BY <1>2, <1>4, <3>1, <3>2
    <2> QED
        BY <2>2, <2>3
<1>7. ASSUME NEW e \in Execs, Runs!Plan(e) \/ Runs!MatchSources(e) \/ Runs!InsertJobs(e) \/ Runs!Compare(e)
      PROVE  OnlySwept' /\ Runs!SettledForGood
    <2>1. exec[e] \in ExecShape /\ exec[e].pc \in Executing
        BY <1>1, <1>7 DEF Runs!Plan, Runs!MatchSources, Runs!InsertJobs, Runs!Compare, Executing
    <2>2. exec'[e].run = exec[e].run /\ \A f \in Execs : f # e => exec'[f] = exec[f]
        <3>1. CASE Runs!Plan(e)
            <4>1. PICK a, ps, located : exec' = [exec EXCEPT ![e].pc = "match", ![e].attempted = a,
                                                    ![e].bounded = located, ![e].passes = ps]
                BY <3>1 DEF Runs!Plan
            <4> QED
                BY <1>1, <2>1, <4>1 DEF ExecShape
        <3>2. CASE Runs!MatchSources(e)
            BY <1>1, <2>1, <3>2 DEF Runs!MatchSources, ExecShape
        <3>3. CASE Runs!InsertJobs(e)
            BY <1>1, <2>1, <3>3 DEF Runs!InsertJobs, ExecShape
        <3>4. CASE Runs!Compare(e)
            <4>1. PICK ps, ws : exec' = [exec EXCEPT ![e].pc = "ready", ![e].prev = ps, ![e].warned = ws]
                BY <3>4, ZenonT(60) DEF Runs!Compare
            <4> QED
                BY <1>1, <2>1, <4>1 DEF ExecShape
        <3> QED
            BY <1>7, <3>1, <3>2, <3>3, <3>4
    <2>3. Gentle
        <3>1. CASE UNCHANGED runs
            BY <3>1, <1>2
        <3>2. ASSUME exec[e].hits # {}, Runs!InsertJobs(e)
              PROVE  Gentle
            <4>1. exec[e].run \in DOMAIN runs /\ runs[exec[e].run] \in RunShape
                BY <2>1, AloneOnRun
            <4>2. runs' = [runs EXCEPT ![exec[e].run].inserts = @ + 1, ![exec[e].run].hits = exec[e].hits]
                BY <3>2 DEF Runs!InsertJobs
            <4>3. DOMAIN runs' = DOMAIN runs
                BY <4>2
            <4> QED
                BY <4>1, <4>2, <4>3, RunsFit DEF Gentle, RunShape, RunsIInv
        <3> QED
            BY <1>7, <3>1, <3>2 DEF Runs!Plan, Runs!MatchSources, Runs!InsertJobs, Runs!Compare
    <2> QED
        BY <2>1, <2>2, <2>3, GentleKeeps
<1>8. ASSUME NEW e \in Execs, Runs!ReadInjection(e) \/ Runs!Inject(e) \/ Runs!Crash(e)
      PROVE  OnlySwept' /\ Runs!SettledForGood
    <2>1. exec[e] \in ExecShape /\ UNCHANGED runs
        BY <1>1, <1>8 DEF Runs!ReadInjection, Runs!Inject, Runs!Crash
    <2>2. exec'[e].pc \notin Executing /\ \A f \in Execs : f # e => exec'[f] = exec[f]
        <3>1. ASSUME NEW n, exec' = [exec EXCEPT ![e] = [@ EXCEPT !.pc = "upsert", !.run = n]]
              PROVE  exec'[e].pc \notin Executing /\ \A f \in Execs : f # e => exec'[f] = exec[f]
            BY <1>1, <3>1 DEF ExecShape, Executing
        <3>2. CASE exec' = [exec EXCEPT ![e] = Runs!IdleExec]
            BY <1>1, <3>2, IdleFits
        <3> QED
            BY <1>8, <3>1, <3>2 DEF Runs!ReadInjection, Runs!Inject, Runs!Crash
    <2> QED
        BY <1>2, <1>4, <2>1, <2>2
<1>9. runs' = Runs!SweptRuns => Gentle
    <2> SUFFICES ASSUME runs' = Runs!SweptRuns
                 PROVE  Gentle
        OBVIOUS
    <2>1. DOMAIN runs' = DOMAIN runs
        BY DEF Runs!SweptRuns
    <2>2. ASSUME NEW n \in DOMAIN runs
          PROVE  \/ runs'[n].status = runs[n].status /\ (runs[n].age = "old" => runs'[n].age = "old")
                 \/ runs[n].status = "MATCHING" /\ runs'[n].status = "FAILED" /\ runs'[n].age = "old"
        <3> DEFINE d == Runs!Completed
                   s == Runs!Swept(runs[n])
        <3>1. runs[n] \in RunShape
            BY RunsFit DEF RunsIInv
        <3>2. \/ s = runs[n]
              \/ /\ runs[n].status = "MATCHING" /\ runs[n].age = "old" /\ s \in RunShape
                 /\ s.status = "FAILED" /\ s.age = "old"
            BY <3>1 DEF Runs!Swept, RunShape
        <3>3. runs'[n] = IF s = runs[n] THEN s ELSE [s EXCEPT !.done = d]
            BY DEF Runs!SweptRuns
        <3> HIDE DEF s, d
        <3>4. CASE s = runs[n]
            BY <3>3, <3>4
        <3>5. CASE s # runs[n]
            <4>1. runs'[n] = [s EXCEPT !.done = d]
                BY <3>3, <3>5
            <4>2. runs'[n].status = s.status /\ runs'[n].age = s.age
                BY <3>2, <3>5, <4>1 DEF RunShape
            <4> QED
                BY <3>2, <3>5, <4>2
        <3> QED
            BY <3>4, <3>5
    <2> QED
        BY <2>1, <2>2 DEF Gentle
<1>10. ASSUME NEW n \in DOMAIN runs, Runs!Age(n)
       PROVE  OnlySwept' /\ Runs!SettledForGood
    <2>1. runs' = [runs EXCEPT ![n].age = "old"] /\ UNCHANGED exec
        BY <1>10 DEF Runs!Age
    <2>2. Gentle
        BY <2>1, RunsFit DEF Gentle, RunShape, RunsIInv
    <2> QED
        BY <1>3, <2>1, <2>2
<1>11. CASE Runs!Sweep \/ Runs!Unlink \/ UNCHANGED Runs!vars
    <2>1. Gentle /\ UNCHANGED exec
        BY <1>2, <1>9, <1>11 DEF Runs!Sweep, Runs!Unlink, Runs!vars
    <2> QED
        BY <1>3, <2>1
<1>12. ASSUME NEW t \in Tabs, Runs!OpenTab(t) \/ Runs!TabStep(t)
       PROVE  OnlySwept' /\ Runs!SettledForGood
    <2>1. Gentle
        BY <1>2, <1>9, <1>12 DEF Runs!OpenTab, Runs!TabStep, Runs!Trigger, Runs!Poll, Runs!Refresh
    <2>2. CASE UNCHANGED exec
        BY <1>3, <2>1, <2>2
    <2>3. ASSUME NEW e \in Execs, NEW n \in DOMAIN runs, Runs!Start(e, n, FALSE)
          PROVE  OnlySwept' /\ Runs!SettledForGood
        <3> DEFINE x == [Runs!IdleExec EXCEPT !.pc = "claim", !.run = n, !.follow = FALSE]
        <3>1. exec' = [exec EXCEPT ![e] = x]
            BY <2>3 DEF Runs!Start
        <3>2. x.pc = "claim"
            BY DEF Runs!IdleExec
        <3> HIDE DEF x
        <3>3. exec'[e].pc \notin Executing /\ \A f \in Execs : f # e => exec'[f] = exec[f]
            BY <1>1, <3>1, <3>2 DEF Executing
        <3> QED
            BY <1>4, <2>1, <3>3
    <2> QED
        BY <1>12, <2>2, <2>3 DEF Runs!OpenTab, Runs!TabStep, Runs!Trigger, Runs!Poll, Runs!Refresh
<1> QED
    BY <1>5, <1>6, <1>7, <1>8, <1>10, <1>11, <1>12, EndKeeps DEF Runs!MatchNext, Runs!ExecStep

\* Whatever executions overrun, fail or die and creators, pollers and sweeps do at once,
\* a settled run stays as it settled, but that a run which was failed for its age is
\* READY after all when the execution that had claimed it was alive and completes
\* (executeMatchRun and sweepStaleRuns).
THEOREM SettledForGoodAlways ==
    ASSUME Runs!MatchAssumption
    PROVE  Runs!MatchSpec => [][Runs!SettledForGood]_Runs!vars
<1>1. Runs!MatchInit => OnlySwept
    BY IdleFits DEF Runs!MatchInit, OnlySwept
<1>2. ASSUME RunsIInv, OnlySwept, [Runs!MatchNext]_Runs!vars
      PROVE  OnlySwept' /\ [Runs!SettledForGood]_Runs!vars
    BY <1>2, SweptStep
<1> QED
    BY <1>1, <1>2, RunsInvariance, PTL DEF Runs!MatchSpec
=============================================================================
