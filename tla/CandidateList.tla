---------------------------- MODULE CandidateList ----------------------------
(* The recruiter's list of candidates in the browser: those registered here,   *)
(* as the page was rendered with them, and the talents of one pool or of all,  *)
(* read page by page. A request is keyed by what it asks for; one that is      *)
(* superseded is dropped, and the rows of the page before stay in view until   *)
(* the next has come. Talents are selected by number, or all but some, and     *)
(* imported into the pool that is picked.                                      *)
EXTENDS Integers, FiniteSets, Sequences, SequencesExt

CONSTANTS Roster,         \* the talents of each pool, in the order of its list
          Hits,           \* the talents that the search text finds
          PageSize,
          MaxActs,        \* what the user does
          MaxFaults       \* requests that fail

VARIABLES here,           \* talents with a local candidate
          local,          \* the same, as the page was rendered with it
          query,          \* typed, and debounced
          source, rich,   \* the source filter; is a filter on profiles set?
          picked,         \* the pool picked, or all
          page, nonce,
          selection,      \* mode, the included or excluded talents, and whether
                          \* rows were picked while the list was loading
          fetched,        \* the last request that was resolved
          flight,         \* the request under way
          import,         \* the import under way
          refresh,        \* a refresh of the page was asked for
          acts, faults

vars == <<here, local, query, source, rich, picked, page, nonce, selection, fetched, flight, import, refresh, acts, faults>>

Pools == DOMAIN Roster
All == "all pools"
NoKey == [pools |-> {}, page |-> 0, q |-> FALSE, nonce |-> 0]
NoData == [rows |-> {}, total |-> 0, next |-> FALSE]
Dropped == [key |-> NoKey, data |-> NoData, error |-> FALSE]
NoFlight == [key |-> NoKey, due |-> {}, data |-> NoData]
NoImport == [at |-> "none", pool |-> All, mode |-> "some", ids |-> {}, q |-> FALSE]
NoneChosen == [mode |-> "some", ids |-> {}, early |-> FALSE]

CandidateListInit ==
    /\ here = {} /\ local = {}
    /\ query = [typed |-> FALSE, debounced |-> FALSE]
    /\ source = "all" /\ rich = FALSE
    /\ picked = (IF Cardinality(Pools) > 1 THEN All ELSE CHOOSE p \in Pools : TRUE)
    /\ page = 1 /\ nonce = 0
    /\ selection = NoneChosen
    /\ fetched = Dropped
    /\ flight = [NoFlight EXCEPT !.key = [pools |-> Pools, page |-> 1, q |-> FALSE, nonce |-> 0], !.due = Pools]
    /\ import = NoImport
    /\ refresh = FALSE
    /\ acts = 0 /\ faults = 0

\* What the list wants to show; no key while the pools are hidden.
Tenants(p) == IF p = All THEN Pools ELSE {p}
ShowPool(s, r) == s # "local" /\ ~r
Key(p, s, r, n, q, c) == IF ShowPool(s, r) THEN [pools |-> Tenants(p), page |-> n, q |-> q, nonce |-> c] ELSE NoKey
Wanted == Key(picked, source, rich, page, query.debounced, nonce)
Loading == Wanted # NoKey /\ fetched.key # Wanted

\* The rows of a pool without a local candidate; those that pass the local filters.
PoolOnly == {r \in fetched.data.rows : ~r.local}
FilteredLocal == IF source = "pool" \/ rich THEN {} ELSE {t \in local : query.debounced => t \in Hits}
AllPools == picked = All

\* After a render with another key the request before is dropped and a new one is
\* sent; a pool list that is hidden drops its rows.
RekeyKeeping(k) ==
    IF k = Wanted THEN UNCHANGED <<flight, fetched>>
    ELSE /\ flight' = (IF flight.due = {} THEN [NoFlight EXCEPT !.key = k, !.due = k.pools]
                       ELSE [flight EXCEPT !.key = k, !.due = @ \cap k.pools])
         /\ fetched' = IF k = NoKey THEN Dropped ELSE fetched
Rekey(k) ==
    IF k = Wanted THEN UNCHANGED <<flight, fetched>>
    ELSE /\ flight' = [NoFlight EXCEPT !.key = k, !.due = k.pools]
         /\ fetched' = IF k = NoKey THEN Dropped ELSE fetched

Act == acts < MaxActs /\ acts' = acts + 1

\* --- Filters and pages ----------------------------------------------------

Type ==
    /\ Act
    /\ query' = [query EXCEPT !.typed = ~@]
    /\ UNCHANGED <<here, local, source, rich, picked, page, nonce, selection, fetched, flight, import, refresh, faults>>
\* The debounced text resets the page and the selection.
Debounced ==
    /\ query.typed # query.debounced
    /\ query' = [query EXCEPT !.debounced = query.typed]
    /\ page' = 1 /\ selection' = NoneChosen
    /\ Rekey(Key(picked, source, rich, 1, query.typed, nonce))
    /\ UNCHANGED <<here, local, source, rich, picked, nonce, import, refresh, acts, faults>>
PickPool(p) ==
    /\ Act /\ p # picked /\ Cardinality(Pools) > 1 /\ source # "local"
    /\ picked' = p
    /\ page' = 1 /\ selection' = NoneChosen
    /\ Rekey(Key(p, source, rich, 1, query.debounced, nonce))
    /\ UNCHANGED <<here, local, query, source, rich, nonce, import, refresh, faults>>
\* The source and the filters on profiles reset the page alone.
SetFilter ==
    /\ Act
    /\ \E s \in {"all", "local", "pool"}, r \in BOOLEAN :
         /\ s = source \/ r = rich
         /\ s # source \/ r # rich
         /\ source' = s /\ rich' = r
         /\ page' = 1
         /\ Rekey(Key(picked, s, r, 1, query.debounced, nonce))
    /\ UNCHANGED <<here, local, query, picked, nonce, selection, import, refresh, faults>>

TotalPages == IF fetched.data.total <= PageSize THEN 1 ELSE (fetched.data.total + PageSize - 1) \div PageSize
Turn ==
    /\ Act /\ Wanted # NoKey /\ ~Loading
    /\ page' \in (IF page > 1 THEN {1, page - 1} ELSE {})
                 \cup (IF fetched.data.next THEN {page + 1} ELSE {})
                 \cup (IF ~fetched.error /\ page < TotalPages THEN {TotalPages} ELSE {})
    /\ Rekey(Key(picked, source, rich, page', query.debounced, nonce))
    /\ UNCHANGED <<here, local, query, source, rich, picked, nonce, selection, import, refresh, faults>>

\* --- The request ----------------------------------------------------------

\* The route lists the page of a pool; which rows have a local candidate is read then.
Found(p, q) == SelectSeq(Roster[p], LAMBDA t : q => t \in Hits)
PageOf(p, k) ==
    LET list == Found(p, k.q)
        last == IF k.page * PageSize < Len(list) THEN k.page * PageSize ELSE Len(list)
    IN [rows |-> {[pool |-> p, talent |-> list[i], local |-> list[i] \in here] : i \in ((k.page - 1) * PageSize + 1)..last},
        total |-> Len(list), next |-> last < Len(list)]

Read(p) ==
    /\ p \in flight.due
    /\ LET one == PageOf(p, flight.key) IN
       flight' = [flight EXCEPT !.due = @ \ {p}, !.data.rows = @ \cup one.rows,
                                !.data.total = @ + one.total, !.data.next = @ \/ one.next]
    /\ UNCHANGED <<here, local, query, source, rich, picked, page, nonce, selection, fetched, import, refresh, acts, faults>>
Landed ==
    /\ flight.key # NoKey /\ flight.due = {}
    /\ fetched' = [key |-> flight.key, data |-> flight.data, error |-> FALSE]
    /\ flight' = NoFlight
    /\ UNCHANGED <<here, local, query, source, rich, picked, page, nonce, selection, import, refresh, acts, faults>>
ReadFails ==
    /\ faults < MaxFaults /\ faults' = faults + 1
    /\ flight.due # {}
    /\ fetched' = [key |-> flight.key, data |-> NoData, error |-> TRUE]
    /\ flight' = NoFlight
    /\ UNCHANGED <<here, local, query, source, rich, picked, page, nonce, selection, import, refresh, acts>>

\* --- Selection ------------------------------------------------------------

PageIds == {r.talent : r \in PoolOnly}
IsSelected(t) == IF selection.mode = "all" THEN t \notin selection.ids ELSE t \in selection.ids
Touch == Act /\ Wanted # NoKey

\* A row, or every row of the page, in or out of the selection.
Toggle(S, in) == [selection EXCEPT !.ids = IF in = (selection.mode = "some") THEN @ \cup S ELSE @ \ S,
                                   !.early = @ \/ Loading]
Select ==
    /\ Touch /\ ~AllPools /\ PageIds # {}
    /\ \E S \in {{t} : t \in PageIds} \cup {PageIds} : \E in \in BOOLEAN : selection' = Toggle(S, in)
    /\ UNCHANGED <<here, local, query, source, rich, picked, page, nonce, fetched, flight, import, refresh, faults>>
SelectAllInPool ==
    /\ Touch /\ ~AllPools /\ selection.mode = "some"
    /\ PageIds # {} /\ \A t \in PageIds : IsSelected(t)
    /\ fetched.data.total > Cardinality(selection.ids)
    /\ selection' = [mode |-> "all", ids |-> {}, early |-> selection.early \/ Loading]
    /\ UNCHANGED <<here, local, query, source, rich, picked, page, nonce, fetched, flight, import, refresh, faults>>

\* --- Import ---------------------------------------------------------------

ImportRow ==
    /\ Touch /\ import.at = "none"
    /\ \E r \in PoolOnly : import' = [NoImport EXCEPT !.at = "sent", !.pool = r.pool, !.ids = {r.talent}]
    /\ UNCHANGED <<here, local, query, source, rich, picked, page, nonce, selection, fetched, flight, refresh, faults>>
ImportSelected ==
    /\ Touch /\ ~AllPools /\ import.at = "none" /\ (selection.mode = "some" => selection.ids # {})
    /\ import' = [at |-> "sent", pool |-> picked, mode |-> selection.mode, ids |-> selection.ids, q |-> query.debounced]
    /\ UNCHANGED <<here, local, query, source, rich, picked, page, nonce, selection, fetched, flight, refresh, faults>>
\* The server imports what the pool has; of the whole pool it walks the pages itself.
Imported ==
    /\ import.at = "sent"
    /\ LET list == ToSet(Found(import.pool, import.q)) IN
       here' = here \cup (IF import.mode = "all" THEN list \ import.ids ELSE ToSet(Roster[import.pool]) \cap import.ids)
    /\ import' = [import EXCEPT !.at = "answer"]
    /\ UNCHANGED <<local, query, source, rich, picked, page, nonce, selection, fetched, flight, refresh, acts, faults>>
ImportFails ==
    /\ import.at = "sent" /\ faults < MaxFaults /\ faults' = faults + 1
    /\ import' = NoImport
    /\ UNCHANGED <<here, local, query, source, rich, picked, page, nonce, selection, fetched, flight, refresh, acts>>
RefreshAfterImport ==
    /\ import.at = "answer"
    /\ import' = NoImport
    /\ refresh' = TRUE /\ nonce' = nonce + 1 /\ selection' = NoneChosen
    /\ Rekey(Key(picked, source, rich, page, query.debounced, nonce + 1))
    /\ UNCHANGED <<here, local, query, source, rich, picked, page, acts, faults>>
\* The page comes with its rows and with new lists of pools, for which the request
\* under way is sent again.
Refreshed ==
    /\ refresh
    /\ refresh' = FALSE /\ local' = here
    /\ flight' = (IF Wanted = NoKey THEN NoFlight ELSE [NoFlight EXCEPT !.key = Wanted, !.due = Wanted.pools])
    /\ UNCHANGED <<here, query, source, rich, picked, page, nonce, selection, fetched, import, acts, faults>>

UserStep == Type \/ (\E p \in Pools \cup {All} : PickPool(p)) \/ SetFilter \/ Turn
            \/ Select \/ SelectAllInPool \/ ImportRow \/ ImportSelected
FetchStep == (\E p \in Pools : Read(p)) \/ Landed
PageStep == Debounced \/ Imported \/ RefreshAfterImport \/ Refreshed

CandidateListNext == UserStep \/ FetchStep \/ ReadFails \/ PageStep \/ ImportFails

CandidateListSpec == CandidateListInit /\ [][CandidateListNext]_vars
\* Requests and actions are answered, the debounce ends.
LiveCandidateListSpec == CandidateListSpec /\ WF_vars(FetchStep) /\ WF_vars(PageStep)

-----------------------------------------------------------------------------
(* Properties.                                                               *)

Talents == UNION {ToSet(Roster[p]) : p \in Pools}

\* Types of the variables.
TypeOK ==
    /\ here \subseteq Talents /\ local \subseteq here
    /\ picked \in Pools \cup {All} /\ page \in 1..3
    /\ selection.mode \in {"some", "all"} /\ selection.ids \subseteq Talents
    /\ flight.due \subseteq flight.key.pools
    /\ import.at \in {"none", "sent", "answer"}

\* A list that says it is not loading shows the page it asks for: no answer to an
\* earlier pool, page or text lands over it.
RowsAnswerKey ==
    Wanted # NoKey /\ ~Loading /\ ~fetched.error =>
        {<<r.pool, r.talent>> : r \in fetched.data.rows}
            = UNION {{<<p, r.talent>> : r \in PageOf(p, Wanted).rows} : p \in Wanted.pools}

\* What is selected in a pool is of that pool, unless rows were picked while the list was
\* loading, which still shows those of the pool before (candidate-list.tsx: "a selection
\* is only meaningful for ONE (tenant, q) pool snapshot").
SelectionOfItsPool ==
    selection.ids # {} /\ ~selection.early => picked # All /\ selection.ids \subseteq ToSet(Found(picked, query.debounced))

\* When nothing is under way, who is on the page of a pool stands in the list once:
\* as a local row or as a row of the pool.
Quiet == import.at = "none" /\ ~refresh /\ flight = NoFlight /\ ~Loading /\ query.typed = query.debounced
ShownOnce ==
    Quiet /\ Wanted # NoKey /\ ~fetched.error /\ source = "all" =>
        \A p \in Wanted.pools : \A r \in PageOf(p, Wanted).rows :
            (r.talent \in FilteredLocal) # (r.talent \in PageIds)

\* The list does not load (Loading) for ever.
=============================================================================
