----------------------------- MODULE MCServices -----------------------------
(* Instances for TLC of what the server does: the accounts and the clients of   *)
(* the services behind it.  The components share no state, so a behaviour of    *)
(* this bench is one of a single part: an instance of a component with the      *)
(* constants given here.                                                       *)
EXTENDS Teams, Sequences, TLC

CONSTANT Parts          \* the parts that a run checks

VARIABLES part,         \* the part a behaviour is about, and its variables
          c1, c2, c3, c4, c5, c6, c7, c8, c9, c10, c11, c12

\* Callers and processes of the 8vance client.
TwoServers == ("a" :> 1) @@ ("b" :> 2)
OneServer == [q \in {"a", "b"} |-> 1]

\* "hen" is a part of two home towns, one of which is found twice and one only by its
\* label; "paris" lies abroad.
Hit(c, l, k, p) == [city |-> c, label |-> l, country |-> k, point |-> p]
AtHome == ("hen" :> <<Hit("Hengelo", "Hengelo", "NL", "p1"), Hit("Hengelo", "Hengelo", "NL", "p2"),
                      Hit("", "Hengevelde", "NL", "p3"), Hit("", "", "NL", "p4"), Hit("Hengstdijk", "", "NL", "")>>)
          @@ ("paris" :> <<>>) @@ ("" :> <<>>)
Abroad == ("hen" :> <<Hit("Henderson", "Henderson", "US", "p5")>>)
          @@ ("paris" :> <<Hit("Paris", "Paris", "FR", "p6")>>) @@ ("" :> <<>>)
AtPoint == ("land" :> [city |-> "Assen", country |-> "NL", point |-> "p7"])
           @@ ("sea" :> [city |-> "", country |-> "", point |-> ""])
           @@ ("heath" :> [city |-> "Ede", country |-> "NL", point |-> ""])
Text(x) == [kind |-> "forward", text |-> x, spot |-> ""]
Point(s) == [kind |-> "reverse", text |-> "", spot |-> s]
Names == [a |-> Text("hen"), b |-> Text("hen"), c |-> Text("paris"), d |-> Text("")]
Spots == [a |-> Point("land"), b |-> Point("land"), c |-> Point("sea"), d |-> Point("heath")]

\* b is a's neighbour or lies apart, c lies abroad, d has no coordinates.
Places == {"a", "b", "c"}
Neighbours == ("a" :> 1) @@ ("b" :> 1) @@ ("c" :> 2)
Apart == ("a" :> 1) @@ ("b" :> 3) @@ ("c" :> 2)
RouteTimes == (<<"car", "a">> :> 3) @@ (<<"car", "b">> :> 5) @@ (<<"car", "c">> :> 99)
              @@ (<<"ov", "a">> :> 6) @@ (<<"ov", "b">> :> 8) @@ (<<"ov", "c">> :> 12)
CrowTimes == [x \in {"car", "ov"} \X Places |-> IF x[2] = "a" THEN 4 ELSE IF x[2] = "b" THEN 5 ELSE 13]

-----------------------------------------------------------------------------
(* The parts.                                                                *)

Limiter == INSTANCE RateLimiter WITH
    tokens <- c1, waitLeft <- c2, queue <- c3, caller <- c4,
    counter <- c5, penalty <- c6, granted <- c7, issued <- c8,
    faults <- c9,
    Servers <- {1, 2}, Callers <- {"a", "b"}, ServerOf <- TwoServers,
    Capacity <- 1, Window <- 2, MaxSleep <- 2, MaxRounds <- 3, Penalties <- {2},
    Redis <- TRUE, Faults <- {"read", "incr", "expire", "set", "crash"},
    MaxFaults <- 1

Budget == INSTANCE RateLimiter WITH
    tokens <- c1, waitLeft <- c2, queue <- c3, caller <- c4,
    counter <- c5, penalty <- c6, granted <- c7, issued <- c8,
    faults <- c9,
    Servers <- {1, 2}, Callers <- {"a", "b"}, ServerOf <- TwoServers,
    Capacity <- 2, Window <- 2, MaxSleep <- 2, MaxRounds <- 2, Penalties <- {2},
    Redis <- TRUE, Faults <- {"read", "incr", "expire", "set", "crash"},
    MaxFaults <- 1

Queue == INSTANCE RateLimiter WITH
    tokens <- c1, waitLeft <- c2, queue <- c3, caller <- c4,
    counter <- c5, penalty <- c6, granted <- c7, issued <- c8,
    faults <- c9,
    Servers <- {1}, Callers <- {"a", "b"}, ServerOf <- OneServer, Capacity <- 2,
    Window <- 2, MaxSleep <- 2, MaxRounds <- 3, Penalties <- {2}, Redis <- TRUE,
    Faults <- {"read", "incr", "expire", "set", "crash"}, MaxFaults <- 1

Local == INSTANCE RateLimiter WITH
    tokens <- c1, waitLeft <- c2, queue <- c3, caller <- c4,
    counter <- c5, penalty <- c6, granted <- c7, issued <- c8,
    faults <- c9,
    Servers <- {1}, Callers <- {"a", "b"}, ServerOf <- OneServer, Capacity <- 2,
    Window <- 2, MaxSleep <- 2, MaxRounds <- 3, Penalties <- {2}, Redis <- FALSE,
    Faults <- {"crash"}, MaxFaults <- 1

Tokens == INSTANCE TokenCache WITH
    heap <- c1, cached <- c2, refresh <- c3, request <- c4, shared <- c5,
    orders <- c6, minted <- c7, expired <- c8, revoked <- c9,
    revokes <- c10, expiries <- c11, calls <- c12,
    Servers <- {1}, Requests <- {"a", "b"}, ServerOf <- OneServer, Redis <- FALSE,
    AuthRetries <- 1, RateRetries <- 1, NetRetries <- 1, MaxAttempts <- 8,
    Faults <- {"net", "429", "mint"}, MaxTokens <- 3, MaxRevokes <- 1,
    MaxExpiries <- 0, MaxCalls <- 2

Mirrored == INSTANCE TokenCache WITH
    heap <- c1, cached <- c2, refresh <- c3, request <- c4, shared <- c5,
    orders <- c6, minted <- c7, expired <- c8, revoked <- c9,
    revokes <- c10, expiries <- c11, calls <- c12,
    Servers <- {1, 2}, Requests <- {"a", "b"}, ServerOf <- TwoServers,
    Redis <- TRUE, AuthRetries <- 1, RateRetries <- 0, NetRetries <- 0,
    MaxAttempts <- 4, Faults <- {"mint", "redis"}, MaxTokens <- 2, MaxRevokes <- 1,
    MaxExpiries <- 1, MaxCalls <- 2

Geo == INSTANCE Geocoder WITH
    req <- c1, cache <- c2, reverseCache <- c3, refused <- c4,
    expiries <- c5,
    Requests <- {"a", "b", "c", "d"}, Query <- Names, Home <- AtHome,
    World <- Abroad, PlaceAt <- AtPoint, Faults <- {"throws", "refuses"},
    MaxExpiries <- 2

Pin == INSTANCE Geocoder WITH
    req <- c1, cache <- c2, reverseCache <- c3, refused <- c4,
    expiries <- c5,
    Requests <- {"a", "b", "c", "d"}, Query <- Spots, Home <- AtHome,
    World <- Abroad, PlaceAt <- AtPoint, Faults <- {"throws", "refuses"},
    MaxExpiries <- 2

Travel == INSTANCE TravelTimes WITH
    cache <- c1, learned <- c2, serves <- c3, req <- c4, failures <- c5,
    Requests <- {"a", "b"}, Points <- {"a", "b", "c", "d"}, Located <- {"a", "c"},
    Inside <- {"a", "b"}, OriginInside <- TRUE, Cell <- Apart, Route <- RouteTimes,
    Crow <- CrowTimes, Batches <- {<<"d", "a", "c">>, <<"c", "a">>},
    Modes <- <<"car", "ov">>, OrsKey <- TRUE, OvBy <- "otp", MaxDests <- 2,
    Concurrency <- 2, Dialects <- {{"legacy"}}, MaxFailures <- 1

Near == INSTANCE TravelTimes WITH
    cache <- c1, learned <- c2, serves <- c3, req <- c4, failures <- c5,
    Requests <- {"a", "b"}, Points <- {"a", "b", "c", "d"}, Located <- Places,
    Inside <- {"a", "b"}, OriginInside <- TRUE, Cell <- Neighbours,
    Route <- RouteTimes, Crow <- CrowTimes,
    Batches <- {<<"a", "b", "a">>, <<"b">>}, Modes <- <<"car", "ov">>,
    OrsKey <- TRUE, OvBy <- "google", MaxDests <- 2, Concurrency <- 2,
    Dialects <- {{"legacy"}}, MaxFailures <- 1

Spoken == INSTANCE TravelTimes WITH
    cache <- c1, learned <- c2, serves <- c3, req <- c4, failures <- c5,
    Requests <- {"a", "b"}, Points <- {"a", "b", "c", "d"}, Located <- Places,
    Inside <- {"a", "b"}, OriginInside <- TRUE, Cell <- Apart, Route <- RouteTimes,
    Crow <- CrowTimes, Batches <- {<<"a", "b">>, <<"b">>}, Modes <- <<"ov">>,
    OrsKey <- TRUE, OvBy <- "otp", MaxDests <- 3, Concurrency <- 2,
    Dialects <- {{"modern"}, {"legacy"}, {"modern", "legacy"}}, MaxFailures <- 1

Login == INSTANCE LoginThrottle WITH
    now <- c1, memory <- c2, store <- c3, login <- c4, log <- c5,
    since <- c6, started <- c7, faults <- c8,
    Servers <- {1}, Logins <- {"l", "m"}, MaxFailures <- 2, Window <- 2,
    Cooldown <- 2, Shared <- FALSE, MaxTime <- 6, MaxLogins <- 6, MaxFaults <- 0

Store == INSTANCE LoginThrottle WITH
    now <- c1, memory <- c2, store <- c3, login <- c4, log <- c5,
    since <- c6, started <- c7, faults <- c8,
    Servers <- {1, 2}, Logins <- {"l", "m"}, MaxFailures <- 2, Window <- 2,
    Cooldown <- 2, Shared <- TRUE, MaxTime <- 3, MaxLogins <- 3, MaxFaults <- 1

Pay == INSTANCE Checkout WITH
    stored <- c1, made <- c2, subs <- c3, sessions <- c4, request <- c5,
    events <- c6, lost <- c7, raced <- c8, clicks <- c9, renewals <- c10,
    faults <- c11,
    Tabs <- {"t", "u"}, ListLimit <- 1, MaxClicks <- 3, MaxRenewals <- 1,
    MaxFaults <- 1

Portal == INSTANCE Onboarding WITH
    row <- c1, pool <- c2, sync <- c3, visit <- c4, submit <- c5,
    uses <- c6, slips <- c7, faults <- c8,
    Procs <- {1, 2}, Visits <- {3}, Submits <- {4, 5},
    Origins <- {"draft", "created"}, MaxTalents <- 2, MaxLinks <- 2,
    MaxPrunes <- 0, MaxFaults <- 0

Legacy == INSTANCE Onboarding WITH
    row <- c1, pool <- c2, sync <- c3, visit <- c4, submit <- c5,
    uses <- c6, slips <- c7, faults <- c8,
    Procs <- {1, 2}, Visits <- {3, 6}, Submits <- {4},
    Origins <- {"imported", "legacy"}, MaxTalents <- 5, MaxLinks <- 1,
    MaxPrunes <- 1, MaxFaults <- 1

Serial == INSTANCE Teams WITH
    account <- c1, primary <- c2, orgs <- c3, member <- c4, joins <- c5,
    candidates <- c6, request <- c7, ops <- c8,
    Users <- {"f", "u", "v"}, Orgs <- Orgs, Founder <- Founder, Home <- Home,
    NoOrg <- NoOrg, Requests <- {"r1"},
    Kinds <- {"visit", "signup", "invite", "remove"}, MaxOps <- 9

ASSUME PartsAssumption ==
    /\ Limiter!RateLimiterAssumption
    /\ Budget!RateLimiterAssumption
    /\ Queue!RateLimiterAssumption
    /\ Local!RateLimiterAssumption
    /\ Tokens!TokenCacheAssumption
    /\ Mirrored!TokenCacheAssumption
    /\ Login!ThrottleAssumption
    /\ Store!ThrottleAssumption
    /\ Pay!CheckoutAssumption
    /\ Portal!OnboardingAssumption
    /\ Legacy!OnboardingAssumption

-----------------------------------------------------------------------------
(* A behaviour is one of one part; the variables that it does not use keep  *)
(* still.                                                                    *)

Idle12 == c12 = 0
Idle11 == c11 = 0 /\ Idle12
Idle10 == c10 = 0 /\ Idle11
Idle9 == c9 = 0 /\ Idle10
Idle8 == c8 = 0 /\ Idle9
Idle7 == c7 = 0 /\ Idle8
Idle6 == c6 = 0 /\ Idle7
Idle5 == c5 = 0 /\ Idle6
Idle4 == c4 = 0 /\ Idle5
Idle3 == c3 = 0 /\ Idle4
Idle2 == c2 = 0 /\ Idle3
Idle1 == c1 = 0 /\ Idle2
Rest12 == <<c12>>
Rest11 == <<c11, Rest12>>
Rest10 == <<c10, Rest11>>
Rest9 == <<c9, Rest10>>
Rest8 == <<c8, Rest9>>
Rest7 == <<c7, Rest8>>
Rest6 == <<c6, Rest7>>
Rest5 == <<c5, Rest6>>
Rest4 == <<c4, Rest5>>
Rest3 == <<c3, Rest4>>
Rest2 == <<c2, Rest3>>
Rest1 == <<c1, Rest2>>
own == <<account, primary, orgs, member, joins, candidates, request, ops>>
benchVars == <<part, Rest1, own>>

BenchInit ==
    /\ part \in Parts
    /\ TeamsInit
    /\ \/ part \in {"teams"} /\ Idle1
       \/ part = "limiter" /\ Limiter!LimiterInit /\ Idle10
       \/ part = "limiter_shared" /\ Budget!LimiterInit /\ Idle10
       \/ part = "limiter_queue" /\ Queue!LimiterInit /\ Idle10
       \/ part = "limiter_local" /\ Local!LimiterInit /\ Idle10
       \/ part = "tokens" /\ Tokens!TokenInit
       \/ part = "tokens_shared" /\ Mirrored!TokenInit
       \/ part = "geocoder" /\ Geo!GeocoderInit /\ Idle6
       \/ part = "geocoder_points" /\ Pin!GeocoderInit /\ Idle6
       \/ part = "travel" /\ Travel!TravelInit /\ Idle6
       \/ part = "travel_near" /\ Near!TravelInit /\ Idle6
       \/ part = "travel_dialects" /\ Spoken!TravelInit /\ Idle6
       \/ part = "login" /\ Login!ThrottleInit /\ Idle9
       \/ part = "login_store" /\ Store!ThrottleInit /\ Idle9
       \/ part = "checkout" /\ Pay!CheckoutInit /\ Idle12
       \/ part = "onboarding" /\ Portal!OnboardingInit /\ Idle9
       \/ part = "onboarding_legacy" /\ Legacy!OnboardingInit /\ Idle9
       \/ part = "teams_serial" /\ Serial!TeamsInit /\ Idle9
BenchNext ==
    \/ part = "teams" /\ TeamsNext /\ UNCHANGED <<part, Rest1>>
    \/ part = "limiter" /\ Limiter!LimiterNext /\ UNCHANGED <<part, Rest10, own>>
    \/ part = "limiter_shared" /\ Budget!LimiterNext /\ UNCHANGED <<part, Rest10, own>>
    \/ part = "limiter_queue" /\ Queue!LimiterNext /\ UNCHANGED <<part, Rest10, own>>
    \/ part = "limiter_local" /\ Local!LimiterNext /\ UNCHANGED <<part, Rest10, own>>
    \/ part = "tokens" /\ Tokens!TokenNext /\ UNCHANGED <<part, own>>
    \/ part = "tokens_shared" /\ Mirrored!TokenNext /\ UNCHANGED <<part, own>>
    \/ part = "geocoder" /\ Geo!GeocoderNext /\ UNCHANGED <<part, Rest6, own>>
    \/ part = "geocoder_points" /\ Pin!GeocoderNext /\ UNCHANGED <<part, Rest6, own>>
    \/ part = "travel" /\ Travel!TravelNext /\ UNCHANGED <<part, Rest6, own>>
    \/ part = "travel_near" /\ Near!TravelNext /\ UNCHANGED <<part, Rest6, own>>
    \/ part = "travel_dialects" /\ Spoken!TravelNext /\ UNCHANGED <<part, Rest6, own>>
    \/ part = "login" /\ Login!ThrottleNext /\ UNCHANGED <<part, Rest9, own>>
    \/ part = "login_store" /\ Store!ThrottleNext /\ UNCHANGED <<part, Rest9, own>>
    \/ part = "checkout" /\ Pay!CheckoutNext /\ UNCHANGED <<part, Rest12, own>>
    \/ part = "onboarding" /\ Portal!OnboardingNext /\ UNCHANGED <<part, Rest9, own>>
    \/ part = "onboarding_legacy" /\ Legacy!OnboardingNext /\ UNCHANGED <<part, Rest9, own>>
    \/ part = "teams_serial" /\ Serial!TeamsNext /\ UNCHANGED <<part, Rest9, own>>

BenchSpec == BenchInit /\ [][BenchNext]_benchVars

\* Promises settle, timers fire and time passes; every call that is sent is answered,
\* refused or times out.
FairServices ==
    /\ BenchSpec
    /\ WF_benchVars(part = "limiter" /\ Limiter!Tick /\ UNCHANGED <<part, Rest10, own>>)
    /\ \A x \in {"a", "b"} :
        WF_benchVars(
            \/ part = "limiter" /\ Limiter!CallerStep(x) /\ UNCHANGED <<part, Rest10, own>>
            \/ part = "tokens" /\ Tokens!RequestStep(x) /\ UNCHANGED <<part, own>>
            \/ part = "travel_dialects" /\ Spoken!RequestStep(x) /\ UNCHANGED <<part, Rest6, own>>)
    /\ \A x \in {"a", "b", "c", "d"} :
        WF_benchVars(
            \/ part = "geocoder" /\ Geo!Answered(x) /\ UNCHANGED <<part, Rest6, own>>
            \/ part = "geocoder_points" /\ Pin!Answered(x) /\ UNCHANGED <<part, Rest6, own>>)

\* A claim grows old, a process takes the steps of the sync it is in, and the person
\* who waits opens the page again.
FairAccounts ==
    /\ BenchSpec
    /\ WF_benchVars(part = "onboarding_legacy" /\ Legacy!ClaimAges /\ UNCHANGED <<part, Rest9, own>>)
    /\ \A x \in {1, 2} : WF_benchVars(part = "onboarding_legacy" /\ Legacy!SyncStep(x) /\ UNCHANGED <<part, Rest9, own>>)
    /\ \A x \in {3, 6} : WF_benchVars(part = "onboarding_legacy" /\ Legacy!Visit(x) /\ UNCHANGED <<part, Rest9, own>>)
    /\ \A x \in {3, 6} : WF_benchVars(part = "onboarding_legacy" /\ Legacy!VisitStep(x) /\ UNCHANGED <<part, Rest9, own>>)

-----------------------------------------------------------------------------
(* Properties.                                                               *)

\* Every process hands out tokens no faster than its bucket refills, and all of them
\* together stay within two windows' worth and one token for every call, of Redis or of a
\* process, that was lost: under penalties, crashes and restarts (acquire and penalize of
\* RateLimiter).
GrantsArePaced ==
    /\ part = "limiter" => Limiter!TypeOK /\ Limiter!PacedGrants
    /\ part = "limiter_shared" => Budget!PacedGrants /\ Budget!SharedBudget
    /\ part = "limiter_local" => Local!PacedGrants

\* No refresh that failed is handed to a later caller, no token that 8vance rejected is
\* sent again by the request that saw it rejected, and the retry budgets end a request
\* before the bound of the loop (getToken, doRefresh and VanceClient.request).
TokensAreGood ==
    /\ part = "tokens" => /\ Tokens!TokenTypeOK /\ Tokens!NoStuckRefresh
                          /\ Tokens!NeverReplaysRejected /\ Tokens!NeverExhausted
    /\ part = "tokens_shared" => Mirrored!NoStuckRefresh

\* What is kept for a text or a point is what the geocoder has for it, and nothing else
\* is shown for it, but for what a request that the geocoder refused has left in the cache;
\* a travel time is that of its own destination, by public transport never an invented
\* one, and within the limit that a filter promises, whichever calls of the providers fail
\* (searchPlaces, reverseGeocode and travelTimes).
PlacesAreTrue ==
    /\ part = "geocoder" => /\ Geo!TypeOK /\ Geo!KeptTrue
                            /\ Geo!WorldOnlyIfNone /\ Geo!SameAnswer
    /\ part = "geocoder_points" => Pin!TypeOK /\ Pin!NoHitOnly /\ Pin!SameAnswer
    /\ part = "travel" => /\ Travel!TypeOK /\ Travel!Own /\ Travel!OvReal
                          /\ Travel!WithinLimit /\ Travel!Complete
    /\ part = "travel_near" => Near!Own /\ Near!OvReal

\* A round that starts under a penalty claims no token, if the deadline can be read, and
\* a penalty that lands during a round lets that round's token go and no other; once a
\* dialect of the timetable service has worked no query starts in one that it does not
\* speak.
LessonsAreKept ==
    [][/\ part = "limiter_shared" => Budget!PenaltyKeepsOff
       /\ part = "limiter_queue" => Queue!PenaltyKeepsOff /\ Queue!PenaltyLetsOneGo
       /\ part = "limiter_local" => Local!PenaltyKeepsOff /\ Local!PenaltyLetsOneGo
       /\ part = "travel_dialects" => Spoken!DialectKept]_benchVars

\* No call hangs: acquire returns, with a Redis that lost a command or a process that
\* died too, a request is answered or fails, a lookup is answered and a computation of
\* travel times ends.
CallsEnd ==
    /\ \A x \in {"a", "b"} :
        []<>~(\/ part = "limiter" /\ Limiter!Busy(x)
              \/ part = "tokens" /\ Tokens!UnderWay(x)
              \/ part = "travel_dialects" /\ Spoken!Computing(x))
    /\ \A x \in {"a", "b", "c", "d"} :
        []<>~(\/ part = "geocoder" /\ Geo!Open(x)
              \/ part = "geocoder_points" /\ Pin!Open(x))

\* In a process without a store, whatever logins overlap: fewer failures than the limit
\* since the last success lock nobody out, and a sliding window holds no more failures
\* than the limit and two for every other login.  With servers, a store and its faults:
\* nobody is locked out for longer than the cooldown (isAllowed, recordFailure and
\* recordSuccess of LoginThrottle).
LoginsAreFair ==
    /\ part = "login" => /\ Login!TypeOK /\ Login!WindowBounded
                         /\ Login!LateLoginPasses /\ Login!SuccessClears
    /\ part = "login_store" => Store!LateLoginPasses

\* Whatever clicks, renewals, webhooks and failures overlap: a user has a second
\* subscription, or an invoice that finds no user, only when two clicks overlapped or
\* the look-up of the running ones could not see the first; a candidate has a second
\* talent in the pool only when a create was lost or cut off, or a sync lost its claim;
\* the row is READY exactly while it is linked, and its own link is used up once
\* (startCheckoutAction, syncCandidateToVance and the portal's actions).
OneOfEach ==
    /\ part = "checkout" => Pay!TypeOK /\ Pay!OneSubscription /\ Pay!InvoiceFindsUser
    /\ part = "onboarding" => /\ Portal!TypeOK /\ Portal!OneTalent
                              /\ Portal!ReadyWhileLinked /\ Portal!LinkEndsOnce
    /\ part = "onboarding_legacy" => Legacy!OneTalent /\ Legacy!ReadyWhileLinked


\* Whatever requests overlap, a step never pushes a person without their consent; moves
\* a user to another team only if they joined it while the step's request was under way;
\* erases a candidate that a colleague works with only if the colleague came while the
\* erasure was; replaces a Stripe customer only after two clicks overlapped; and unlinks
\* a talent that 8vance has only for an earlier one that is gone, or for a sync that lost
\* its claim.
AccountsAreKept ==
    [][/\ part = "teams" => NeverMoved /\ KeptForOthers
       /\ part = "checkout" => Pay!CustomerKept
       /\ part = "onboarding_legacy" => Legacy!UnlinksOnlyDead /\ Legacy!PushedWithConsent]_benchVars

\* A row with consent and skills gets its talent, however many of its syncs failed,
\* crashed or left their claim behind, unless it is erased.
EventuallyLinked == []<>~(part = "onboarding_legacy" /\ Legacy!Waits)
=============================================================================
