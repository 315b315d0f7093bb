---------------------------- MODULE StaffingRules ----------------------------
(* The rules by which a match run tells vacancies of staffing agencies from    *)
(* those of employers: the admin's table of rules, which several tabs edit,    *)
(* and a run that picks its sources, merges their answers, reads the rules,    *)
(* enriches the best jobs and classifies every row.                            *)
(* A text is a sequence of characters; a letter or digit of a-z0-9 is an       *)
(* AlNum, "e'" stands for a letter that is not, "-" for what separates words.  *)
EXTENDS Integers, Sequences, FiniteSets, SequencesExt

CONSTANTS Tabs,            \* the tabs in which the table of rules is open
          Typed,           \* what an admin may type: [kind, pattern, form]
          Slugs, Feeds,    \* sources; those that are open-market feeds
          Jobs, Own,       \* vacancies; those of the tenant's own company
          Offers,          \* [slug] -> its answer, a function from jobs to scores
          Listed,          \* [job] -> what the list says: [employer, contract, flag]
          Detail,          \* [job] -> what the detail says: [description, behalf, source]
          MaxSources, EnrichLimit, Threshold,
          MaxRules

VARIABLES rules,           \* the stored rules: [id, kind, pattern, enabled]
          made,            \* how many rules were ever stored
          page,            \* [tab] -> the rules it shows
          call,            \* [tab] -> the action it waits for
          run,             \* the match run
          ever, always     \* rules in force at some time, at all times, of the run

vars == <<rules, made, page, call, run, ever, always>>

NoSource == "no source"
Letters == {"u", "k", "x", "y"}
AlNum == Letters
Kinds == {"NAME", "DESCRIPTION"}

-----------------------------------------------------------------------------
(* The classifier.                                                             *)

\* One pattern each stands for the built-in lists.
DefaultNames == {<<"u">>}
DefaultDescriptions == {<<"k">>}
DefaultContracts == {<<"u">>}

\* p occurs in text at place i.
At(text, p, i) == /\ i + Len(p) - 1 <= Len(text)
                  /\ SubSeq(text, i, i + Len(p) - 1) = p

tokenStartIncludes(text, p) ==
    /\ p # <<>>
    /\ \E i \in 1 .. Len(text) : At(text, p, i) /\ (i = 1 \/ text[i - 1] \notin AlNum)

Key(r) == <<r.kind, r.pattern>>

\* The rules that a run reads: those enabled, of each kind.
InForce(rs) == {Key(r) : r \in {x \in rs : x.enabled}}
resolveRules(keys) ==
    [names |-> DefaultNames \union {k[2] : k \in {x \in keys : x[1] = "NAME"}},
     descriptions |-> DefaultDescriptions \union {k[2] : k \in {x \in keys : x[1] = "DESCRIPTION"}}]

Hits(text, patterns) == {p \in patterns : tokenStartIncludes(text, p)}

\* The signals that fire, each with the patterns of which the first is shown.
Signals(job, keys) ==
    LET r == resolveRules(keys)
        s == [employer_name |-> Hits(job.employer, r.names),
              contract_type |-> Hits(job.contract, DefaultContracts),
              description   |-> Hits(job.description, r.descriptions),
              is_intermediary |-> IF job.flag THEN {<<>>} ELSE {}]
    IN  [k \in {x \in DOMAIN s : s[x] # {}} |-> s[k]]

classifyJob(job, keys) ==
    LET s == Signals(job, keys) IN [isAgency |-> Cardinality(DOMAIN s) >= Threshold, reasons |-> s]

-----------------------------------------------------------------------------
(* The sources of a run.                                                       *)

isExternalFeedSource(s) == s \in Feeds

prioritizeFeedSources(q) ==
    SelectSeq(q, isExternalFeedSource) \o SelectSeq(q, LAMBDA s : ~isExternalFeedSource(s))

Attempted(available) ==
    LET q == prioritizeFeedSources(available)
    IN  SubSeq(q, 1, IF Len(q) < MaxSources THEN Len(q) ELSE MaxSources)
NotAttempted(available) == ToSet(available) \ ToSet(Attempted(available))

\* The passes of the run in the order in which they are merged. The pass over
\* all sources is made when no feed is among them; a feed needs a location.
Passes(available, located) ==
    (IF \E s \in ToSet(available) : isExternalFeedSource(s) THEN <<>> ELSE <<NoSource>>)
    \o SelectSeq(Attempted(available), LAMBDA s : ~isExternalFeedSource(s))
    \o (IF located THEN SelectSeq(Attempted(available), isExternalFeedSource) ELSE <<>>)

Best(f, j) == CHOOSE n \in {Offers[s][j] : s \in f} : \A s \in f : Offers[s][j] <= n
Answer(s) ==
    IF s # NoSource THEN Offers[s]
    ELSE [j \in UNION {DOMAIN Offers[x] : x \in Slugs} |->
             Best({x \in Slugs : j \in DOMAIN Offers[x]}, j)]

\* Of two answers for one job the better one, with a source if either has one.
Merge(m, s) ==
    LET a == Answer(s) IN
    [j \in DOMAIN m \union DOMAIN a |->
        IF j \notin DOMAIN m THEN [score |-> a[j], source |-> s]
        ELSE IF j \notin DOMAIN a THEN m[j]
        ELSE LET wins == a[j] > m[j].score
                 winner == IF wins THEN s ELSE m[j].source
                 other == IF wins THEN m[j].source ELSE s
             IN  [score |-> IF wins THEN a[j] ELSE m[j].score,
                  source |-> IF winner = NoSource THEN other ELSE winner]]

RECURSIVE Merged(_, _)
Merged(m, q) == IF q = <<>> THEN m ELSE Merged(Merge(m, q[1]), SubSeq(q, 2, Len(q)))

-----------------------------------------------------------------------------
(* The rows of a run.                                                          *)

\* The jobs whose detail is read: the best by score, ties in the order listed.
ToEnrich(m) ==
    {T \in SUBSET DOMAIN m :
        /\ Cardinality(T) = IF Cardinality(DOMAIN m) < EnrichLimit THEN Cardinality(DOMAIN m) ELSE EnrichLimit
        /\ \A i \in T, j \in DOMAIN m \ T : m[i].score >= m[j].score}

normalizeJobMatch(j, m) ==
    [employer |-> Listed[j].employer, contract |-> Listed[j].contract, flag |-> Listed[j].flag,
     description |-> <<>>, source |-> m[j].source]
mergeExtended(j, n) ==
    [n EXCEPT !.description = Detail[j].description,
              !.flag = @ \/ Detail[j].behalf,
              !.source = IF Detail[j].source = NoSource THEN @ ELSE Detail[j].source]

OwnOrigin(j, n) == j \in Own \/ ~isExternalFeedSource(n.source)

\* The reasons are taken from the list's row, not from the detail's.
RowOfListed(j, n, read, keys) ==
    LET v == classifyJob(n, keys)
    IN  [isStaffingAgency |-> v.isAgency /\ ~OwnOrigin(j, n),
         reasons |-> Signals([n EXCEPT !.description = <<>>, !.flag = Listed[j].flag], keys),
         source |-> n.source, text |-> n, read |-> read]

\* The row that is stored for a job, and whether the list hides it.
RowOf(j, n, read, keys) ==
    LET v == classifyJob(n, keys)
    IN  [isStaffingAgency |-> v.isAgency /\ ~OwnOrigin(j, n), reasons |-> v.reasons,
         source |-> n.source, text |-> n, read |-> read]

Rows(m, read, keys) ==
    [j \in DOMAIN m |->
        LET n == normalizeJobMatch(j, m)
        IN  RowOf(j, IF j \in read THEN mergeExtended(j, n) ELSE n, j \in read, keys)]

-----------------------------------------------------------------------------
(* The table of rules. A tab has one action under way at a time: they are sent *)
(* one after the other.                                                        *)

Idle == [op |-> "none"]

\* The pattern is lowercased and trimmed before it is looked for.
Stored(x) == IF x.form = "blank" THEN <<>> ELSE x.pattern
Looked(x) == Stored(x)

\* Submit the form: an empty pattern is refused, a rule that exists as well.
AddRule(t, x) ==
    /\ call[t] = Idle
    /\ made < MaxRules
    /\ Stored(x) # <<>>
    /\ ~\E r \in rules : r.kind = x.kind /\ r.pattern = Looked(x)
    /\ call' = [call EXCEPT ![t] = [op |-> "add", kind |-> x.kind, pattern |-> Stored(x)]]
    /\ UNCHANGED <<rules, made, page, run>>

\* The button of a row: the rule must still exist when the action looks for it.
ToggleRule(t, r) ==
    /\ call[t] = Idle
    /\ \E s \in rules : s.id = r.id
    /\ call' = [call EXCEPT ![t] = [op |-> "toggle", id |-> r.id, enabled |-> ~r.enabled]]
    /\ UNCHANGED <<rules, made, page, run>>

DeleteRule(t, r) ==
    /\ call[t] = Idle
    /\ \E s \in rules : s.id = r.id
    /\ call' = [call EXCEPT ![t] = [op |-> "delete", id |-> r.id]]
    /\ UNCHANGED <<rules, made, page, run>>

Updated(r, c) == [r EXCEPT !.enabled = c.enabled]

\* The write; one of a rule that is gone by then fails. A tab is rendered anew
\* when its action succeeds.
Written(c) ==
    CASE c.op = "add" -> rules \union {[id |-> made + 1, kind |-> c.kind, pattern |-> c.pattern, enabled |-> TRUE]}
      [] c.op = "toggle" -> {IF r.id = c.id THEN Updated(r, c) ELSE r : r \in rules}
      [] OTHER -> {r \in rules : r.id # c.id}
Succeeds(c) == c.op = "add" \/ \E r \in rules : r.id = c.id
WriteRule(t) ==
    /\ call[t] # Idle
    /\ call' = [call EXCEPT ![t] = Idle]
    /\ IF Succeeds(call[t])
       THEN /\ rules' = Written(call[t])
            /\ page' = [page EXCEPT ![t] = Written(call[t])]
       ELSE UNCHANGED <<rules, page>>
    /\ made' = IF call[t].op = "add" THEN made + 1 ELSE made
    /\ UNCHANGED run

\* The page is opened or loaded again.
LoadPage(t) ==
    /\ call[t] = Idle
    /\ page[t] # rules
    /\ page' = [page EXCEPT ![t] = rules]
    /\ UNCHANGED <<rules, made, call, run>>

-----------------------------------------------------------------------------
(* The run.                                                                    *)

\* The sources are discovered, in any order or not at all, and matched; those
\* that fail give no rows.
Match(available, located, failed) ==
    LET passes == Passes(available, located)
        heard == SelectSeq(passes, LAMBDA s : s \notin failed)
    IN  /\ run.at = "pending"
        /\ run' = [run EXCEPT !.at = "matched",
                              !.merged = Merged(<<>>, heard),
                              !.heard = ToSet(heard),
                              !.tried = ToSet(Attempted(available)),
                              !.cut = NotAttempted(available)]
        /\ UNCHANGED <<rules, made, page, call>>

loadAgencyRules ==
    /\ run.at = "matched"
    /\ run' = [run EXCEPT !.at = "enriching", !.keys = InForce(rules)]
    /\ UNCHANGED <<rules, made, page, call>>

\* Some of the details cannot be read; their rows stay as they were listed.
Finish(read) ==
    /\ run.at = "enriching"
    /\ \E T \in ToEnrich(run.merged) : read \subseteq T
    /\ run' = [run EXCEPT !.at = "READY", !.rows = Rows(run.merged, read, run.keys)]
    /\ UNCHANGED <<rules, made, page, call>>

Catalogues == {<<>>} \union SetToSeqs(Slugs)

Init == /\ rules = {} /\ made = 0
        /\ page = [t \in Tabs |-> {}]
        /\ call = [t \in Tabs |-> Idle]
        /\ run = [at |-> "pending", merged |-> <<>>, heard |-> {}, tried |-> {}, cut |-> {},
                  keys |-> {}, rows |-> <<>>]
        /\ ever = {} /\ always = {}

EditStep ==
    \/ \E t \in Tabs, x \in Typed : AddRule(t, x)
    \/ \E t \in Tabs : \E r \in page[t] : ToggleRule(t, r)
    \/ \E t \in Tabs : \E r \in page[t] : DeleteRule(t, r)
    \/ \E t \in Tabs : WriteRule(t)
    \/ \E t \in Tabs : LoadPage(t)
RunStep ==
    \/ \E a \in Catalogues, l \in BOOLEAN, f \in SUBSET Slugs : Match(a, l, f)
    \/ loadAgencyRules
    \/ \E read \in SUBSET Jobs : Finish(read)

\* What was in force since the run began is kept while it goes on.
Observe ==
    LET now == {Key(r) : r \in {x \in rules' : x.enabled}} IN
    IF run.at = "pending" THEN ever' = now /\ always' = now
    ELSE IF run.at = "READY" THEN UNCHANGED <<ever, always>>
    ELSE ever' = ever \union now /\ always' = always \intersect now

Next == (EditStep \/ RunStep) /\ Observe

Spec == Init /\ [][Next]_vars

-----------------------------------------------------------------------------
(* Properties.                                                                 *)

\* The rows of a finished run come with a source and a verdict each, and a tab
\* never waits for the deletion or change of a rule that was never stored.
TypeOK ==
    /\ \A r \in rules : r.id \in 1 .. made /\ r.kind \in Kinds /\ r.enabled \in BOOLEAN
    /\ \A r, s \in rules : r.id = s.id => r = s
    /\ \A t \in Tabs : call[t].op \in {"toggle", "delete"} => call[t].id \in 1 .. made
    /\ \A j \in DOMAIN run.rows : run.rows[j].source \in Slugs \union {NoSource}
    /\ DOMAIN run.rows = IF run.at = "READY" THEN DOMAIN run.merged ELSE {}

\* The words of a text are separated by "-"; p begins one of them.
BeginsWord(text, p) ==
    \E i \in 1 .. Len(text) : At(text, p, i) /\ (i = 1 \/ text[i - 1] = "-")

\* A rule that was in force through the whole run hides every vacancy of a feed
\* whose text, as far as it was read, has a word that begins with its pattern.
Caught ==
    \A j \in DOMAIN run.rows \ Own, k \in always :
        LET row == run.rows[j] IN
        (/\ isExternalFeedSource(row.source)
         /\ BeginsWord(IF k[1] = "NAME" THEN row.text.employer ELSE row.text.description, k[2]))
        => row.isStaffingAgency

\* A hidden vacancy gives a reason, and each one is a rule that was in force at
\* some time of the run, or a built-in pattern, that its text begins a word with.
Explained ==
    \A j \in DOMAIN run.rows : run.rows[j].isStaffingAgency =>
        /\ run.rows[j].reasons # <<>>
        /\ \A s \in DOMAIN run.rows[j].reasons \intersect {"employer_name", "description"} :
              run.rows[j].reasons[s] \subseteq
                  DefaultNames \union DefaultDescriptions \union {k[2] : k \in ever}

\* A vacancy of the tenant's own company is not hidden under whichever feed it
\* was found.
OwnNever == \A j \in DOMAIN run.rows \intersect Own : ~run.rows[j].isStaffingAgency

\* The cap on the sources cuts a feed only when every source tried is a feed.
FeedsFirst == run.cut \intersect Feeds # {} => run.tried \subseteq Feeds

\* A button that reads "disable" never enables a rule, nor the reverse, even if
\* another tab changed the rule meanwhile: a rule becomes what a tab that showed
\* it otherwise has asked for.
AsSeen == \A r \in rules, s \in rules' : r.id = s.id /\ r.enabled # s.enabled =>
             \E t \in Tabs : call[t].op = "toggle" /\ call[t].id = r.id /\ call[t].enabled = s.enabled

\* No two rules have the same kind and pattern.
NoDuplicate == \A r, s \in rules : Key(r) = Key(s) => r = s

\* Vacancies of staffing agencies are hidden: none of a feed remains that its
\* detail tells by a built-in pattern.
AgenciesHidden ==
    \A j \in DOMAIN run.rows \ Own :
        /\ isExternalFeedSource(run.rows[j].source)
        /\ \E p \in DefaultDescriptions : BeginsWord(Detail[j].description, p)
        => run.rows[j].isStaffingAgency

\* A vacancy that a source which is no feed offered is never hidden.
EcosystemNever ==
    \A j \in DOMAIN run.rows, s \in run.heard \ Feeds :
        s # NoSource /\ j \in DOMAIN Offers[s] => ~run.rows[j].isStaffingAgency

\* A rule is matched as a substring.
Substrings ==
    \A j \in DOMAIN run.rows \ Own, k \in always :
        /\ isExternalFeedSource(run.rows[j].source)
        /\ k[1] = "DESCRIPTION" /\ \E i \in 1 .. Len(run.rows[j].text.description) :
                                      At(run.rows[j].text.description, k[2], i)
        => run.rows[j].isStaffingAgency

\* A pattern in the middle of a word is no reason to hide a vacancy.
NotMidWord ==
    \A j \in DOMAIN run.rows : run.rows[j].isStaffingAgency =>
        \A p \in UNION {run.rows[j].reasons[s] : s \in DOMAIN run.rows[j].reasons \intersect {"description"}} :
            BeginsWord(run.rows[j].text.description, p)
==============================================================================
