---------------------------- MODULE Autocomplete ----------------------------
(* The search field of the forms (the wizard, the editor and the candidate     *)
(* forms keep a copy each). Text of two letters or more is searched after a    *)
(* pause; a newer text, label or fetcher aborts the older search. A pick sets  *)
(* the text and suppresses the search of it. Three kinds of field use it: one  *)
(* whose label follows the pick, one that is cleared by it (skills), and one   *)
(* that has no label (languages).                                              *)
EXTENDS Naturals, FiniteSets

CONSTANTS Texts,          \* what may be in the field
          Short,          \* the texts too short to search
          Matches,        \* the items that an answer to a text holds
          Kind,           \* "labelled", "clearing" or "plain"
          MaxChanges

VARIABLES field,          \* text, label, fetcher, lastPicked and skipFetch
          list,           \* items with the search they answer, and open
          search,         \* the search that is not aborted, in its pause or sent
          resolved,       \* the last search that was answered
          picked,         \* nothing was typed or focused since the last pick
          changes

vars == <<field, list, search, resolved, picked, changes>>

Nothing == [text |-> "", fetcher |-> 0]
NoSearch == [at |-> "none", text |-> "", fetcher |-> 0]

AutocompleteInit ==
    /\ field = [text |-> "", label |-> "", fetcher |-> 1, last |-> "", skip |-> FALSE]
    /\ list = [of |-> Nothing, items |-> {}, open |-> FALSE]
    /\ search = NoSearch
    /\ resolved = Nothing
    /\ picked = FALSE
    /\ changes = 0

Settled == (field.label # "" /\ field.text = field.label) \/ (field.last # "" /\ field.text = field.last)
Loading == /\ ~Settled /\ field.text \notin Short
           /\ resolved # [text |-> field.text, fetcher |-> field.fetcher]

Closed == [of |-> Nothing, items |-> {}, open |-> FALSE]

Effect(f, l) ==
    IF <<f.text, f.label, f.fetcher>> = <<field.text, field.label, field.fetcher>>
    THEN field' = f /\ list' = l /\ UNCHANGED search
    ELSE IF f.skip \/ (f.label # "" /\ f.text = f.label)
    THEN /\ field' = [f EXCEPT !.skip = FALSE]
         /\ list' = Closed
         /\ search' = NoSearch
    ELSE /\ field' = f
         /\ list' = l
         /\ search' = IF f.text \in Short THEN NoSearch
                      ELSE [at |-> "pause", text |-> f.text, fetcher |-> f.fetcher]

Type(t) ==
    /\ t # field.text /\ changes < MaxChanges /\ changes' = changes + 1
    /\ Effect([field EXCEPT !.text = t, !.label = ""],
              IF t \in Short THEN [list EXCEPT !.items = {}, !.of = Nothing] ELSE list)
    /\ picked' = FALSE
    /\ UNCHANGED resolved

\* A pick; a real label is reflected into the field by the same render.
Pick(item) ==
    /\ list.open /\ item \in list.items /\ changes < MaxChanges /\ changes' = changes + 1
    /\ LET shown == IF Kind = "clearing" THEN "" ELSE item IN
       Effect([field EXCEPT !.skip = TRUE, !.last = shown, !.text = shown,
                            !.label = IF Kind = "labelled" THEN item ELSE ""], Closed)
    /\ picked' = TRUE
    /\ UNCHANGED resolved

\* Another pool or search language makes another fetcher.
NewFetcher ==
    /\ changes < MaxChanges /\ changes' = changes + 1
    /\ Effect([field EXCEPT !.fetcher = @ + 1], list)
    /\ picked' = FALSE
    /\ UNCHANGED resolved

PauseEnds ==
    /\ search.at = "pause"
    /\ search' = [search EXCEPT !.at = "sent"]
    /\ UNCHANGED <<field, list, resolved, picked, changes>>

Lands(ok) ==
    /\ search.at = "sent"
    /\ LET q == [text |-> search.text, fetcher |-> search.fetcher] IN
       /\ list' = IF ok THEN [of |-> q, items |-> Matches[q.text], open |-> TRUE]
                  ELSE [list EXCEPT !.of = Nothing, !.items = {}]
       /\ resolved' = q
    /\ search' = NoSearch
    /\ UNCHANGED <<field, picked, changes>>

\* Blur and Escape close the list, focus opens what is in it.
Hide ==
    /\ list.open
    /\ list' = [list EXCEPT !.open = FALSE]
    /\ UNCHANGED <<field, search, resolved, picked, changes>>
Focus ==
    /\ ~list.open /\ list.items # {} /\ changes < MaxChanges /\ changes' = changes + 1
    /\ list' = [list EXCEPT !.open = TRUE]
    /\ picked' = FALSE
    /\ UNCHANGED <<field, search, resolved>>

SearchStep == PauseEnds \/ \E ok \in BOOLEAN : Lands(ok)

AutocompleteNext ==
    \/ \E t \in Texts : Type(t)
    \/ \E item \in list.items : Pick(item)
    \/ NewFetcher \/ Hide \/ Focus
    \/ SearchStep

AutocompleteSpec == AutocompleteInit /\ [][AutocompleteNext]_vars

\* The pause runs out and the server answers.
LiveAutocompleteSpec == AutocompleteSpec /\ WF_vars(SearchStep)

-----------------------------------------------------------------------------
(* Properties.                                                               *)

\* Types of every variable.
TypeOK ==
    /\ field.text \in Texts /\ field.label \in {"", "dutch", "french"}
    /\ field.skip \in BOOLEAN /\ list.items \subseteq {"dutch", "french"}
    /\ search.at \in {"none", "pause", "sent"} /\ search.text \in Texts
    /\ search.at # "none" => search.text \notin Short
    /\ Kind # "labelled" => field.label = ""

\* When the search of the text is answered the items are its own: no answer to an
\* older text, pool or language lands over it.
ItemsAnswerText ==
    LET now == [text |-> field.text, fetcher |-> field.fetcher]
    IN resolved = now /\ list.items # {} => list.of = now

\* The selection a form submits is the one its field shows.
FieldShowsSelection == field.label # "" => field.text = field.label

\* After a pick the list stays closed until the user types or focuses again (the
\* forms: "suppress the next fetch so the dropdown doesn't re-open").
PickKeepsClosed == picked => ~list.open \/ list.items = {}

\* A field that says it is loading (Loading) stops saying so.
=============================================================================
