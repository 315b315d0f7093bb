------------------------------- MODULE Checkout -------------------------------
(* The ways of one user to a subscription at Stripe. A click on a plan looks   *)
(* for a live subscription, sends the user to the portal if there is one, and  *)
(* to a checkout session otherwise; a session can be paid as long as it is     *)
(* open. The customer of the user is made on the first need of it and stored   *)
(* on the user; the invoices of a subscription find the user by that customer. *)
(* Clicks in several tabs overlap, and a session stays open while others are   *)
(* opened. Two histories tell what overlapped: how many subscriptions there    *)
(* were when the guard of a click looked, and whether two requests held a      *)
(* customer of their own when one of them was stored.                          *)
EXTENDS Naturals, Sequences, FiniteSets, FiniteSetTheorems, TLAPS

CONSTANTS Tabs,         \* tabs of the user's browser
          ListLimit,    \* subscriptions listed per customer
          MaxClicks, MaxRenewals,
          MaxFaults     \* requests that end between two calls

VARIABLES stored,       \* stripeCustomerId of the user
          made,         \* customers 1..made exist at Stripe
          subs,         \* subscriptions at Stripe, in the order they were made
          sessions,     \* open checkout sessions: tab, number and customer
          request,      \* the request of each tab
          events,       \* webhook events on their way
          lost,         \* an invoice found no user
          raced,        \* a customer was stored while another request held one
          clicks, renewals, faults

vars == <<stored, made, subs, sessions, request, events, lost, raced, clicks, renewals, faults>>

None == 0
Idle == [pc |-> "idle", customer |-> None, plan |-> FALSE, seen |-> 0]
Live == {"active", "past_due"}

CheckoutInit ==
    /\ stored = None
    /\ made = 0
    /\ subs = <<>>
    /\ sessions = {}
    /\ request = [t \in Tabs |-> Idle]
    /\ events = {}
    /\ lost = FALSE /\ raced = FALSE
    /\ clicks = 0 /\ renewals = 0 /\ faults = 0

\* A click on a plan, or on a pack of credits, which asks for no subscription.
Click(t) ==
    /\ request[t].pc = "idle" /\ clicks < MaxClicks
    /\ clicks' = clicks + 1
    /\ \/ request' = [request EXCEPT ![t] = [@ EXCEPT !.pc = "look", !.plan = TRUE]]
       \/ request' = [request EXCEPT ![t] = [@ EXCEPT !.pc = "ensure", !.plan = FALSE]]
    /\ UNCHANGED <<stored, made, subs, sessions, events, lost, raced, renewals, faults>>

OfCustomer(c) == {k \in DOMAIN subs : subs[k].customer = c}
Listed(c) == {k \in OfCustomer(c) : Cardinality({j \in OfCustomer(c) : j > k}) < ListLimit}
HasLive(c) == \E k \in Listed(c) : subs[k].status \in Live

\* hasActiveSubscription: without a customer there is none, and none is made.
Look(t) ==
    /\ request[t].pc = "look"
    /\ request' = [request EXCEPT
         ![t] = [@ EXCEPT !.pc = IF stored = None THEN "ensure" ELSE "list", !.customer = stored,
                          !.seen = Len(subs)]]
    /\ UNCHANGED <<stored, made, subs, sessions, events, lost, raced, clicks, renewals, faults>>

\* The portal switches the plan of the subscription there is.
List(t) ==
    /\ request[t].pc = "list"
    /\ request' = [request EXCEPT ![t] = IF HasLive(@.customer) THEN Idle
                                         ELSE [@ EXCEPT !.pc = "ensure", !.seen = Len(subs)]]
    /\ UNCHANGED <<stored, made, subs, sessions, events, lost, raced, clicks, renewals, faults>>

\* ensureStripeCustomer: the stored customer, or a new one ...
Ensure(t) ==
    /\ request[t].pc = "ensure"
    /\ \/ /\ stored # None
          /\ request' = [request EXCEPT ![t] = [@ EXCEPT !.pc = "open", !.customer = stored]]
          /\ UNCHANGED made
       \/ /\ stored = None
          /\ made' = made + 1
          /\ request' = [request EXCEPT ![t] = [@ EXCEPT !.pc = "store", !.customer = made']]
    /\ UNCHANGED <<stored, subs, sessions, events, lost, raced, clicks, renewals, faults>>

\* ... that is stored after Stripe has made it.
Store(t) ==
    /\ request[t].pc = "store"
    /\ stored' = request[t].customer
    /\ request' = [request EXCEPT ![t].pc = "open"]
    /\ raced' = (raced \/ \E q \in Tabs \ {t} : request[q].pc = "store")
    /\ UNCHANGED <<made, subs, sessions, events, lost, clicks, renewals, faults>>

OpenSession(t) ==
    /\ request[t].pc = "open"
    /\ sessions' = sessions \union
         {[id |-> clicks, tab |-> t, customer |-> request[t].customer, plan |-> request[t].plan,
           seen |-> request[t].seen]}
    /\ request' = [request EXCEPT ![t] = Idle]
    /\ UNCHANGED <<stored, made, subs, events, lost, raced, clicks, renewals, faults>>

Crash(t) ==
    /\ request[t].pc # "idle" /\ faults < MaxFaults
    /\ faults' = faults + 1
    /\ request' = [request EXCEPT ![t] = Idle]
    /\ UNCHANGED <<stored, made, subs, sessions, events, lost, raced, clicks, renewals>>

RequestStep(t) == Look(t) \/ List(t) \/ Ensure(t) \/ Store(t) \/ OpenSession(t)

-----------------------------------------------------------------------------
(* Stripe: sessions, subscriptions, and the events that tell of them. *)

Pay(s) ==
    /\ s \in sessions
    /\ sessions' = sessions \ {s}
    /\ IF s.plan
       THEN /\ subs' = Append(subs, [customer |-> s.customer, status |-> "active", seen |-> s.seen])
            /\ events' = events \union {[kind |-> "completed", customer |-> s.customer],
                                        [kind |-> "invoice", customer |-> s.customer]}
       ELSE UNCHANGED <<subs, events>>
    /\ UNCHANGED <<stored, made, request, lost, raced, clicks, renewals, faults>>

Leave(s) ==
    /\ s \in sessions
    /\ sessions' = sessions \ {s}
    /\ UNCHANGED <<stored, made, subs, request, events, lost, raced, clicks, renewals, faults>>

\* The next period: the invoice is paid, or the subscription falls behind.
Renew(k) ==
    /\ subs[k].status \in Live /\ renewals < MaxRenewals
    /\ renewals' = renewals + 1
    /\ \/ /\ subs' = [subs EXCEPT ![k].status = "active"]
          /\ events' = events \union {[kind |-> "invoice", customer |-> subs[k].customer]}
       \/ subs' = [subs EXCEPT ![k].status = "past_due"] /\ UNCHANGED events
    /\ UNCHANGED <<stored, made, sessions, request, lost, raced, clicks, faults>>

Cancel(k) ==
    /\ subs[k].status \in Live
    /\ subs' = [subs EXCEPT ![k].status = "canceled"]
    /\ UNCHANGED <<stored, made, sessions, request, events, lost, raced, clicks, renewals, faults>>

\* A completed session stores its customer; an invoice looks for the user.
Deliver(e) ==
    /\ e \in events
    /\ events' = events \ {e}
    /\ stored' = IF e.kind = "completed" THEN e.customer ELSE stored
    /\ lost' = (lost \/ (e.kind = "invoice" /\ e.customer # stored))
    /\ UNCHANGED <<made, subs, sessions, request, raced, clicks, renewals, faults>>

CheckoutNext ==
    \/ \E t \in Tabs : Click(t) \/ RequestStep(t) \/ Crash(t)
    \/ \E s \in sessions : Pay(s) \/ Leave(s)
    \/ \E k \in DOMAIN subs : Renew(k) \/ Cancel(k)
    \/ \E e \in events : Deliver(e)

CheckoutSpec == CheckoutInit /\ [][CheckoutNext]_vars

-----------------------------------------------------------------------------
(* Properties.                                                               *)

\* Types of every variable.
TypeOK ==
    /\ stored \in 0..made /\ made \in Nat
    /\ \A k \in DOMAIN subs : subs[k].customer \in 1..made /\ subs[k].status \in Live \union {"canceled"}
    /\ \A s \in sessions : s.tab \in Tabs /\ s.customer \in 1..made
    /\ \A t \in Tabs : request[t].pc \in {"idle", "look", "list", "ensure", "store", "open"}
    /\ \A e \in events : e.kind \in {"completed", "invoice"}

\* Of two subscriptions that live at a time, the later one's guard looked before the
\* earlier one was made, or ListLimit newer ones hid that from it, or two requests had
\* raced to make the customer (the guard against a "SECOND parallel subscription" in
\* startCheckoutAction): nobody gets a second one by clicks that wait for each other.
OneSubscription ==
    \A j \in DOMAIN subs : \A k \in 1..(j - 1) :
        subs[j].status \in Live /\ subs[k].status \in Live
            => raced \/ subs[j].seen < k \/ k + ListLimit <= subs[j].seen

\* Every paid invoice finds its user, in whatever order sessions are paid and events
\* arrive, unless two requests had raced to make the customer.
InvoiceFindsUser == lost => raced

\* A user keeps the customer that was stored first, whatever clicks overlap, unless a
\* second request held a customer of its own at that time (ensureStripeCustomer).
CustomerKept == stored # None /\ stored' # stored => raced

-----------------------------------------------------------------------------
(* Proofs.                                                                   *)

\* What the constants may be.
CheckoutAssumption ==
    /\ ListLimit \in Nat \ {0} /\ MaxClicks \in Nat
    /\ MaxRenewals \in Nat /\ MaxFaults \in Nat

RequestShape == [pc : {"idle", "look", "list", "ensure", "store", "open"},
                 customer : Nat, plan : BOOLEAN, seen : Nat]
SessionShape == [id : Nat, tab : Tabs, customer : Nat, plan : BOOLEAN, seen : Nat]
SubscriptionShape == [customer : Nat, status : Live \union {"canceled"}, seen : Nat]
EventShape == [kind : {"completed", "invoice"}, customer : Nat]
Types ==
    /\ stored \in Nat /\ made \in Nat /\ subs \in Seq(SubscriptionShape)
    /\ sessions \subseteq SessionShape /\ request \in [Tabs -> RequestShape]
    /\ events \subseteq EventShape /\ lost \in BOOLEAN /\ raced \in BOOLEAN
    /\ clicks \in Nat /\ renewals \in Nat /\ faults \in Nat

\* Customers are made before they are used, and a guard saw subscriptions that exist.
Known ==
    /\ stored \in 0..made
    /\ \A k \in DOMAIN subs : subs[k].customer \in 1..made
    /\ \A s \in sessions : s.customer \in 1..made /\ s.seen <= Len(subs)
    /\ \A e \in events : e.customer \in 1..made
    /\ \A t \in Tabs :
        /\ request[t].seen <= Len(subs)
        /\ request[t].pc \in {"list", "store", "open"} => request[t].customer \in 1..made

\* Without a race the first customer to be stored is kept, and nothing at Stripe or
\* on its way belongs to another.
OneCustomer ==
    /\ stored = None => subs = <<>> /\ sessions = {} /\ events = {}
    /\ \A k \in DOMAIN subs : subs[k].customer = stored
    /\ \A s \in sessions : s.customer = stored
    /\ \A e \in events : e.customer = stored
    /\ \A t \in Tabs :
        /\ request[t].pc \in {"list", "open"}
               => stored # None /\ request[t].customer = stored
        /\ request[t].pc = "store" => stored = None

\* A guard that looked at n subscriptions and let a click pass saw none that lives
\* now: those are newer, or hidden behind ListLimit others.
Blind(n) ==
    \A k \in DOMAIN subs : subs[k].status \in Live => n < k \/ k + ListLimit <= n
Guarded ==
    /\ \A t \in Tabs : request[t].pc \in {"ensure", "store", "open"} /\ request[t].plan
           => Blind(request[t].seen)
    /\ \A s \in sessions : s.plan => Blind(s.seen)
    /\ OneSubscription

CheckoutInv ==
    Types /\ Known /\ (lost => raced) /\ (raced \/ (OneCustomer /\ Guarded))

\* The list of a customer hides only subscriptions with ListLimit newer ones.
LEMMA HiddenIsOld ==
    ASSUME ListLimit \in Nat \ {0}, subs \in Seq(SubscriptionShape), NEW c,
           \A k \in DOMAIN subs : subs[k].customer = c, ~HasLive(c)
    PROVE  Blind(Len(subs))
<1>1. SUFFICES ASSUME NEW k \in DOMAIN subs, subs[k].status \in Live
               PROVE  k + ListLimit <= Len(subs)
  BY DEF Blind
<1> DEFINE newer == {j \in OfCustomer(c) : j > k}
<1>2. Len(subs) \in Nat /\ DOMAIN subs = 1..Len(subs) /\ k \in Nat /\ k <= Len(subs)
  OBVIOUS
<1>3. newer = (k + 1)..Len(subs)
  BY <1>2 DEF OfCustomer
<1>4. Cardinality((k + 1)..Len(subs)) = Len(subs) - (k + 1) + 1
  <2>1. k + 1 \in Int /\ Len(subs) \in Int
    BY <1>2
  <2>2. Cardinality((k + 1)..Len(subs))
          = IF k + 1 > Len(subs) THEN 0 ELSE Len(subs) - (k + 1) + 1
    BY <2>1, FS_Interval, Zenon
  <2>3. QED BY <1>2, <2>2
<1>5. Cardinality(newer) = Len(subs) - k
  <2>1. Cardinality(newer) = Cardinality((k + 1)..Len(subs))
    BY <1>3, Zenon
  <2> HIDE DEF newer
  <2>2. QED BY <1>2, <1>4, <2>1
<1>6. k \in OfCustomer(c) /\ k \notin Listed(c)
  BY <1>1 DEF HasLive, OfCustomer
<1>7. ~(Cardinality(newer) < ListLimit)
  BY <1>6, Zenon DEF Listed
<1> HIDE DEF newer
<1>8. QED BY <1>2, <1>5, <1>7

\* A step of one request rewrites that request.
LEMMA Turned ==
    ASSUME request \in [Tabs -> RequestShape], NEW t \in Tabs, NEW r \in RequestShape,
           request' = [request EXCEPT ![t] = r]
    PROVE  /\ request' \in [Tabs -> RequestShape] /\ request'[t] = r
           /\ \A q \in Tabs \ {t} : request'[q] = request[q]
OBVIOUS

\* A click starts a request that has no customer yet; one for a pack has no guard.
LEMMA ClickKeeps ==
    ASSUME CheckoutAssumption, CheckoutInv, NEW t \in Tabs, Click(t)
    PROVE  CheckoutInv'
<1> USE DEF CheckoutAssumption, CheckoutInv
<1>1. /\ request \in [Tabs -> RequestShape] /\ request[t] \in RequestShape
      /\ stored \in Nat /\ made \in Nat /\ Len(subs) \in Nat
  BY DEF Types
<1>2. PICK r \in RequestShape :
        /\ request' = [request EXCEPT ![t] = r]
        /\ r.seen = request[t].seen
        /\ r.pc = "look" \/ (r.pc = "ensure" /\ ~r.plan)
  <2>1. CASE request' = [request EXCEPT ![t] = [request[t] EXCEPT !.pc = "look", !.plan = TRUE]]
    <3> DEFINE w == [request[t] EXCEPT !.pc = "look", !.plan = TRUE]
    <3>1. request' = [request EXCEPT ![t] = w]
      BY <2>1 DEF Click
    <3>a. made + 1 \in Nat
      BY <1>1
    <3>2. w \in RequestShape
      BY <1>1, <3>a DEF RequestShape, Idle, None
    <3>3. w.pc = "look" /\ w.seen = request[t].seen
      BY <1>1, <2>1 DEF RequestShape, Idle, Click, None
    <3> HIDE DEF w
    <3>4. QED BY <1>1, <2>1, <3>1, <3>2, <3>3 DEF Click
  <2>2. CASE request' = [request EXCEPT ![t] = [request[t] EXCEPT !.pc = "ensure", !.plan = FALSE]]
    <3> DEFINE w == [request[t] EXCEPT !.pc = "ensure", !.plan = FALSE]
    <3>1. request' = [request EXCEPT ![t] = w]
      BY <2>2 DEF Click
    <3>a. made + 1 \in Nat
      BY <1>1
    <3>2. w \in RequestShape
      BY <1>1, <3>a DEF RequestShape, Idle, None
    <3>3. w.pc = "ensure" /\ ~w.plan /\ w.seen = request[t].seen
      BY <1>1, <2>2 DEF RequestShape, Idle, Click, None
    <3> HIDE DEF w
    <3>4. QED BY <1>1, <2>2, <3>1, <3>2, <3>3 DEF Click
  <2>3. QED BY <2>1, <2>2 DEF Click
<1>3. /\ request' \in [Tabs -> RequestShape] /\ request'[t] = r
      /\ \A q \in Tabs \ {t} : request'[q] = request[q]
  BY <1>1, <1>2, Turned
<1>4. Types'
  <2>1. clicks' = clicks + 1 /\ UNCHANGED <<stored, made, subs, sessions, events, lost, raced, renewals, faults>>
    BY Zenon DEF Click
  <2>2. QED BY <1>3, <2>1 DEF Types
<1>5. Known'
  BY <1>1, <1>2, <1>3 DEF Click, Types, Known, None, RequestShape, SessionShape
<1>6. lost' => raced'
  BY DEF Click
<1>7. ASSUME ~raced' PROVE ~raced /\ OneCustomer /\ Guarded
  BY <1>7 DEF Click, Types
<1>8. ASSUME ~raced' PROVE OneCustomer'
  BY <1>1, <1>2, <1>3, <1>7, <1>8 DEF Click, Types, OneCustomer, None, RequestShape, SessionShape
<1>9. ASSUME ~raced' PROVE Guarded'
  <2>1. UNCHANGED subs
    BY DEF Click
  <2>2. OneSubscription' /\ \A n : Blind(n) <=> Blind(n)'
    BY <1>7, <1>9, <2>1 DEF Guarded, OneSubscription, Blind
  <2>3. QED BY <1>1, <1>2, <1>3, <1>7, <1>9, <2>1, <2>2
              DEF Click, Types, Guarded, RequestShape, SessionShape
<1>10. QED BY <1>4, <1>5, <1>6, <1>8, <1>9

\* Without a customer there is no subscription to see.
LEMMA LookKeeps ==
    ASSUME CheckoutAssumption, CheckoutInv, NEW t \in Tabs, Look(t)
    PROVE  CheckoutInv'
<1> USE DEF CheckoutAssumption, CheckoutInv
<1>1. /\ request \in [Tabs -> RequestShape] /\ request[t] \in RequestShape
      /\ stored \in Nat /\ made \in Nat /\ Len(subs) \in Nat
  BY DEF Types
<1>2. PICK r \in RequestShape :
        /\ request' = [request EXCEPT ![t] = r]
        /\ r.pc = IF stored = None THEN "ensure" ELSE "list"
        /\ r.customer = stored /\ r.plan = request[t].plan /\ r.seen = Len(subs)
  <2>1. CASE stored = None
    <3> DEFINE w == [request[t] EXCEPT !.pc = "ensure", !.customer = stored, !.seen = Len(subs)]
    <3>1. request' = [request EXCEPT ![t] = w]
      BY <2>1 DEF Look
    <3>a. made + 1 \in Nat
      BY <1>1
    <3>2. w \in RequestShape
      BY <1>1, <3>a DEF RequestShape, Idle, None
    <3>3. w.pc = "ensure" /\ w.customer = stored /\ w.plan = request[t].plan /\ w.seen = Len(subs)
      BY <1>1, <2>1 DEF RequestShape, Idle, Look, None
    <3> HIDE DEF w
    <3>4. QED BY <1>1, <2>1, <3>1, <3>2, <3>3 DEF Look
  <2>2. CASE stored # None
    <3> DEFINE w == [request[t] EXCEPT !.pc = "list", !.customer = stored, !.seen = Len(subs)]
    <3>1. request' = [request EXCEPT ![t] = w]
      BY <2>2 DEF Look
    <3>a. made + 1 \in Nat
      BY <1>1
    <3>2. w \in RequestShape
      BY <1>1, <3>a DEF RequestShape, Idle, None
    <3>3. w.pc = "list" /\ w.customer = stored /\ w.plan = request[t].plan /\ w.seen = Len(subs)
      BY <1>1, <2>2 DEF RequestShape, Idle, Look, None
    <3> HIDE DEF w
    <3>4. QED BY <1>1, <2>2, <3>1, <3>2, <3>3 DEF Look
  <2>3. QED BY <2>1, <2>2 DEF Look
<1>3. /\ request' \in [Tabs -> RequestShape] /\ request'[t] = r
      /\ \A q \in Tabs \ {t} : request'[q] = request[q]
  BY <1>1, <1>2, Turned
<1>4. Types'
  BY <1>1, <1>2, <1>3 DEF Look, Types, RequestShape, SessionShape,
      SubscriptionShape, EventShape
<1>5. Known'
  BY <1>1, <1>2, <1>3 DEF Look, Types, Known, None, RequestShape, SessionShape
<1>6. lost' => raced'
  BY DEF Look
<1>7. ASSUME ~raced' PROVE ~raced /\ OneCustomer /\ Guarded
  BY <1>7 DEF Look, Types
<1>8. ASSUME ~raced' PROVE OneCustomer'
  BY <1>1, <1>2, <1>3, <1>7, <1>8 DEF Look, Types, OneCustomer, None, RequestShape, SessionShape
<1>9. ASSUME ~raced' PROVE Guarded'
  <2>1. UNCHANGED <<subs, sessions>>
    BY DEF Look
  <2>2. OneSubscription' /\ \A n : Blind(n) <=> Blind(n)'
    BY <1>7, <1>9, <2>1 DEF Guarded, OneSubscription, Blind
  <2>3. stored = None => Blind(Len(subs))
    BY <1>7, <1>9 DEF OneCustomer, Blind
  <2>4. QED BY <1>1, <1>2, <1>3, <1>7, <1>9, <2>1, <2>2, <2>3 DEF Guarded
<1>10. QED BY <1>4, <1>5, <1>6, <1>8, <1>9

\* The list sees all subscriptions that live, but those behind ListLimit newer ones.
LEMMA ListKeeps ==
    ASSUME CheckoutAssumption, CheckoutInv, NEW t \in Tabs, List(t)
    PROVE  CheckoutInv'
<1> USE DEF CheckoutAssumption, CheckoutInv
<1>1. /\ request \in [Tabs -> RequestShape] /\ request[t] \in RequestShape
      /\ stored \in Nat /\ made \in Nat /\ Len(subs) \in Nat
  BY DEF Types
<1>2. PICK r \in RequestShape :
        /\ request' = [request EXCEPT ![t] = r]
        /\ r.pc = "idle" => r.seen = 0
        /\ \/ r.pc = "idle"
           \/ /\ r.pc = "ensure" /\ r.plan = request[t].plan /\ r.seen = Len(subs)
              /\ ~HasLive(request[t].customer)
  <2>1. CASE HasLive(request[t].customer)
    <3> DEFINE w == Idle
    <3>1. request' = [request EXCEPT ![t] = w]
      BY <2>1 DEF List
    <3>a. made + 1 \in Nat
      BY <1>1
    <3>2. w \in RequestShape
      BY <1>1, <3>a DEF RequestShape, Idle, None
    <3>3. w.pc = "idle" /\ w.seen = 0
      BY <1>1, <2>1 DEF RequestShape, Idle, List, None
    <3> HIDE DEF w
    <3>4. QED BY <1>1, <2>1, <3>1, <3>2, <3>3 DEF List
  <2>2. CASE ~HasLive(request[t].customer)
    <3> DEFINE w == [request[t] EXCEPT !.pc = "ensure", !.seen = Len(subs)]
    <3>1. request' = [request EXCEPT ![t] = w]
      BY <2>2 DEF List
    <3>a. made + 1 \in Nat
      BY <1>1
    <3>2. w \in RequestShape
      BY <1>1, <3>a DEF RequestShape, Idle, None
    <3>3. w.pc = "ensure" /\ w.plan = request[t].plan /\ w.seen = Len(subs)
      BY <1>1, <2>2 DEF RequestShape, Idle, List, None
    <3> HIDE DEF w
    <3>4. QED BY <1>1, <2>2, <3>1, <3>2, <3>3 DEF List
  <2>3. QED BY <2>1, <2>2 DEF List
<1>3. /\ request' \in [Tabs -> RequestShape] /\ request'[t] = r
      /\ \A q \in Tabs \ {t} : request'[q] = request[q]
  BY <1>1, <1>2, Turned
<1>4. Types'
  BY <1>1, <1>2, <1>3 DEF List, Types, RequestShape, SessionShape,
      SubscriptionShape, EventShape
<1>5. Known'
  BY <1>1, <1>2, <1>3 DEF List, Types, Known, None, RequestShape, SessionShape
<1>6. lost' => raced'
  BY DEF List
<1>7. ASSUME ~raced' PROVE ~raced /\ OneCustomer /\ Guarded
  BY <1>7 DEF List, Types
<1>8. ASSUME ~raced' PROVE OneCustomer'
  BY <1>1, <1>2, <1>3, <1>7, <1>8 DEF List, Types, OneCustomer, None, RequestShape, SessionShape
<1>9. ASSUME ~raced' PROVE Guarded'
  <2>1. UNCHANGED <<subs, sessions>>
    BY DEF List
  <2>2. OneSubscription' /\ \A n : Blind(n) <=> Blind(n)'
    BY <1>7, <1>9, <2>1 DEF Guarded, OneSubscription, Blind
  <2>3. ~HasLive(request[t].customer) => Blind(Len(subs))
    BY <1>7, <1>9, HiddenIsOld DEF List, OneCustomer, Types
  <2>4. QED BY <1>1, <1>2, <1>3, <1>7, <1>9, <2>1, <2>2, <2>3 DEF Guarded
<1>10. QED BY <1>4, <1>5, <1>6, <1>8, <1>9

\* A new customer is made only while the user has none.
LEMMA EnsureKeeps ==
    ASSUME CheckoutAssumption, CheckoutInv, NEW t \in Tabs, Ensure(t)
    PROVE  CheckoutInv'
<1> USE DEF CheckoutAssumption, CheckoutInv
<1>1. /\ request \in [Tabs -> RequestShape] /\ request[t] \in RequestShape
      /\ stored \in Nat /\ made \in Nat /\ Len(subs) \in Nat
  BY DEF Types
<1>2. PICK r \in RequestShape :
        /\ request' = [request EXCEPT ![t] = r]
        /\ r.plan = request[t].plan /\ r.seen = request[t].seen
        /\ \/ stored # None /\ r.pc = "open" /\ r.customer = stored /\ made' = made
           \/ stored = None /\ r.pc = "store" /\ r.customer = made + 1 /\ made' = made + 1
  <2>1. CASE stored # None
    <3> DEFINE w == [request[t] EXCEPT !.pc = "open", !.customer = stored]
    <3>1. request' = [request EXCEPT ![t] = w]
      BY <2>1 DEF Ensure
    <3>a. made + 1 \in Nat
      BY <1>1
    <3>2. w \in RequestShape
      BY <1>1, <3>a DEF RequestShape, Idle, None
    <3>3. w.plan = request[t].plan /\ w.pc = "open" /\ w.customer = stored /\ w.seen = request[t].seen
      BY <1>1, <2>1 DEF RequestShape, Idle, Ensure, None
    <3> HIDE DEF w
    <3>4. QED BY <1>1, <2>1, <3>1, <3>2, <3>3 DEF Ensure
  <2>2. CASE stored = None
    <3> DEFINE w == [request[t] EXCEPT !.pc = "store", !.customer = made + 1]
    <3>1. request' = [request EXCEPT ![t] = w]
      BY <2>2 DEF Ensure
    <3>a. made + 1 \in Nat
      BY <1>1
    <3>2. w \in RequestShape
      BY <1>1, <3>a DEF RequestShape, Idle, None
    <3>3. w.plan = request[t].plan /\ w.pc = "store" /\ w.customer = made + 1 /\ w.seen = request[t].seen
      BY <1>1, <2>2 DEF RequestShape, Idle, Ensure, None
    <3> HIDE DEF w
    <3>4. QED BY <1>1, <2>2, <3>1, <3>2, <3>3 DEF Ensure
  <2>3. QED BY <2>1, <2>2 DEF Ensure
<1>3. /\ request' \in [Tabs -> RequestShape] /\ request'[t] = r
      /\ \A q \in Tabs \ {t} : request'[q] = request[q]
  BY <1>1, <1>2, Turned
<1>4. Types'
  BY <1>1, <1>2, <1>3 DEF Ensure, Types, RequestShape, SessionShape,
      SubscriptionShape, EventShape
<1>5. Known'
  <2>1. /\ UNCHANGED <<stored, subs, sessions, events>>
        /\ made' \in Nat /\ made <= made' /\ r.seen = request[t].seen
    BY <1>1, <1>2 DEF Ensure
  <2>2. \A c \in 1..made : c \in 1..made'
    BY <1>1, <2>1
  <2>3. r.customer \in 1..made'
    BY <1>1, <1>2 DEF Known, None
  <2>4. stored \in 0..made'
    BY <1>1, <2>1 DEF Known
  <2>5. QED BY <1>3, <2>1, <2>2, <2>3, <2>4 DEF Known
<1>6. lost' => raced'
  BY DEF Ensure
<1>7. ASSUME ~raced' PROVE ~raced /\ OneCustomer /\ Guarded
  BY <1>7 DEF Ensure, Types
<1>8. ASSUME ~raced' PROVE OneCustomer'
  BY <1>1, <1>2, <1>3, <1>7, <1>8 DEF Ensure, Types, OneCustomer, None, RequestShape, SessionShape
<1>9. ASSUME ~raced' PROVE Guarded'
  <2>1. UNCHANGED subs
    BY DEF Ensure
  <2>2. OneSubscription' /\ \A n : Blind(n) <=> Blind(n)'
    BY <1>7, <1>9, <2>1 DEF Guarded, OneSubscription, Blind
  <2>3. QED BY <1>1, <1>2, <1>3, <1>7, <1>9, <2>1, <2>2
              DEF Ensure, Types, Guarded, RequestShape, SessionShape
<1>10. QED BY <1>4, <1>5, <1>6, <1>8, <1>9

\* Without a race nobody else is about to store a customer.
LEMMA StoreKeeps ==
    ASSUME CheckoutAssumption, CheckoutInv, NEW t \in Tabs, Store(t)
    PROVE  CheckoutInv'
<1> USE DEF CheckoutAssumption, CheckoutInv
<1>1. /\ request \in [Tabs -> RequestShape] /\ request[t] \in RequestShape
      /\ stored \in Nat /\ made \in Nat /\ Len(subs) \in Nat
  BY DEF Types
<1>2. PICK r \in RequestShape :
        /\ request' = [request EXCEPT ![t] = r]
        /\ r.plan = request[t].plan /\ r.pc = "open" /\ r.customer = request[t].customer
        /\ r.seen = request[t].seen
  <2> DEFINE w == [request[t] EXCEPT !.pc = "open"]
  <2>1. request' = [request EXCEPT ![t] = w]
    BY DEF Store
  <2>2. w \in RequestShape
    BY <1>1 DEF RequestShape, Idle, None
  <2>3. QED BY <1>1, <2>1, <2>2 DEF RequestShape, Idle, Store
<1>3. /\ request' \in [Tabs -> RequestShape] /\ request'[t] = r
      /\ \A q \in Tabs \ {t} : request'[q] = request[q]
  BY <1>1, <1>2, Turned
<1>4. Types'
  BY <1>1, <1>2, <1>3 DEF Store, Types, RequestShape, SessionShape,
      SubscriptionShape, EventShape
<1>5. Known'
  BY <1>1, <1>2, <1>3 DEF Store, Types, Known, None, RequestShape, SessionShape
<1>6. lost' => raced'
  BY DEF Store
<1>7. ASSUME ~raced' PROVE ~raced /\ OneCustomer /\ Guarded
  BY <1>7 DEF Store, Types
<1>8. ASSUME ~raced' PROVE OneCustomer'
  <2>1. stored = None /\ stored' = request[t].customer /\ request[t].customer \in 1..made
    BY <1>7, <1>8 DEF Store, OneCustomer, Known
  <2>a. \A q \in Tabs \ {t} : request[q].pc # "store"
    BY <1>7, <1>8, Zenon DEF Store
  <2>2. \A q \in Tabs : request'[q].pc # "store"
    BY <1>2, <1>3, <2>a
  <2>3. \A q \in Tabs \ {t} : request[q].pc \notin {"list", "open"}
    BY <1>7, <1>8, <2>1 DEF OneCustomer
  <2>4. QED BY <1>2, <1>3, <1>7, <1>8, <2>1, <2>2, <2>3 DEF Store, OneCustomer, None
<1>9. ASSUME ~raced' PROVE Guarded'
  <2>1. UNCHANGED subs
    BY DEF Store
  <2>2. OneSubscription' /\ \A n : Blind(n) <=> Blind(n)'
    BY <1>7, <1>9, <2>1 DEF Guarded, OneSubscription, Blind
  <2>3. QED BY <1>1, <1>2, <1>3, <1>7, <1>9, <2>1, <2>2
              DEF Store, Types, Guarded, RequestShape, SessionShape
<1>10. QED BY <1>4, <1>5, <1>6, <1>8, <1>9

\* The session takes over what its request carried.
LEMMA OpenSessionKeeps ==
    ASSUME CheckoutAssumption, CheckoutInv, NEW t \in Tabs, OpenSession(t)
    PROVE  CheckoutInv'
<1> USE DEF CheckoutAssumption, CheckoutInv
<1>1. /\ request \in [Tabs -> RequestShape] /\ request[t] \in RequestShape
      /\ stored \in Nat /\ made \in Nat /\ Len(subs) \in Nat
  BY DEF Types
<1>2. PICK r \in RequestShape :
        /\ request' = [request EXCEPT ![t] = r]
        /\ r.pc = "idle" /\ r.seen = 0
  <2> DEFINE w == Idle
  <2>1. request' = [request EXCEPT ![t] = w]
    BY DEF OpenSession
  <2>2. w \in RequestShape
    BY <1>1 DEF RequestShape, Idle, None
  <2>3. QED BY <1>1, <2>1, <2>2 DEF RequestShape, Idle, OpenSession
<1>3. /\ request' \in [Tabs -> RequestShape] /\ request'[t] = r
      /\ \A q \in Tabs \ {t} : request'[q] = request[q]
  BY <1>1, <1>2, Turned
<1>4. Types'
  BY <1>1, <1>2, <1>3 DEF OpenSession, Types, RequestShape, SessionShape,
      SubscriptionShape, EventShape
<1>5. Known'
  BY <1>1, <1>2, <1>3 DEF OpenSession, Types, Known, None, RequestShape, SessionShape
<1>6. lost' => raced'
  BY DEF OpenSession
<1>7. ASSUME ~raced' PROVE ~raced /\ OneCustomer /\ Guarded
  BY <1>7 DEF OpenSession, Types
<1>8. ASSUME ~raced' PROVE OneCustomer'
  BY <1>1, <1>2, <1>3, <1>7, <1>8 DEF OpenSession, Types, OneCustomer, None, RequestShape, SessionShape
<1>9. ASSUME ~raced' PROVE Guarded'
  <2>1. UNCHANGED subs
    BY DEF OpenSession
  <2>2. OneSubscription' /\ \A n : Blind(n) <=> Blind(n)'
    BY <1>7, <1>9, <2>1 DEF Guarded, OneSubscription, Blind
  <2>3. QED BY <1>1, <1>2, <1>3, <1>7, <1>9, <2>1, <2>2
              DEF OpenSession, Types, Guarded, RequestShape, SessionShape
<1>10. QED BY <1>4, <1>5, <1>6, <1>8, <1>9

\* What a request did stays; nothing depends on the rest.
LEMMA CrashKeeps ==
    ASSUME CheckoutAssumption, CheckoutInv, NEW t \in Tabs, Crash(t)
    PROVE  CheckoutInv'
<1> USE DEF CheckoutAssumption, CheckoutInv
<1>1. /\ request \in [Tabs -> RequestShape] /\ request[t] \in RequestShape
      /\ stored \in Nat /\ made \in Nat /\ Len(subs) \in Nat
  BY DEF Types
<1>2. PICK r \in RequestShape :
        /\ request' = [request EXCEPT ![t] = r]
        /\ r.pc = "idle" /\ r.seen = 0
  <2> DEFINE w == Idle
  <2>1. request' = [request EXCEPT ![t] = w]
    BY DEF Crash
  <2>2. w \in RequestShape
    BY <1>1 DEF RequestShape, Idle, None
  <2>3. QED BY <1>1, <2>1, <2>2 DEF RequestShape, Idle, Crash
<1>3. /\ request' \in [Tabs -> RequestShape] /\ request'[t] = r
      /\ \A q \in Tabs \ {t} : request'[q] = request[q]
  BY <1>1, <1>2, Turned
<1>4. Types'
  BY <1>1, <1>2, <1>3 DEF Crash, Types, RequestShape, SessionShape,
      SubscriptionShape, EventShape
<1>5. Known'
  BY <1>1, <1>2, <1>3 DEF Crash, Types, Known, None, RequestShape, SessionShape
<1>6. lost' => raced'
  BY DEF Crash
<1>7. ASSUME ~raced' PROVE ~raced /\ OneCustomer /\ Guarded
  BY <1>7 DEF Crash, Types
<1>8. ASSUME ~raced' PROVE OneCustomer'
  BY <1>1, <1>2, <1>3, <1>7, <1>8 DEF Crash, Types, OneCustomer, None, RequestShape, SessionShape
<1>9. ASSUME ~raced' PROVE Guarded'
  <2>1. UNCHANGED subs
    BY DEF Crash
  <2>2. OneSubscription' /\ \A n : Blind(n) <=> Blind(n)'
    BY <1>7, <1>9, <2>1 DEF Guarded, OneSubscription, Blind
  <2>3. QED BY <1>1, <1>2, <1>3, <1>7, <1>9, <2>1, <2>2
              DEF Crash, Types, Guarded, RequestShape, SessionShape
<1>10. QED BY <1>4, <1>5, <1>6, <1>8, <1>9

\* Whoever pays adds a subscription that the guards of other sessions have not seen.
LEMMA PayKeeps ==
    ASSUME CheckoutAssumption, CheckoutInv, NEW s \in sessions, Pay(s)
    PROVE  CheckoutInv'
<1> USE DEF CheckoutAssumption, CheckoutInv
<1>1. s \in SessionShape /\ sessions' \subseteq sessions /\ raced' = raced /\ lost' = lost
  BY DEF Pay, Types
<1>2. CASE ~s.plan
  <2>1. UNCHANGED <<subs, events, stored, made, request, clicks, renewals, faults>>
    BY <1>2 DEF Pay
  <2>2. OneSubscription => OneSubscription'
    BY <1>1, <2>1 DEF OneSubscription
  <2>3. Types' /\ Known'
    BY <1>1, <2>1 DEF Types, Known
  <2>4. OneCustomer /\ Guarded => OneCustomer' /\ Guarded'
    BY <1>1, <2>1, <2>2 DEF OneCustomer, Guarded, Blind
  <2>5. QED BY <1>1, <2>3, <2>4
<1>3. CASE s.plan
  <2> DEFINE new == [customer |-> s.customer, status |-> "active", seen |-> s.seen]
             n == Len(subs)
  <2>1. subs' = Append(subs, new)
    BY <1>3 DEF Pay
  <2>2. new \in SubscriptionShape /\ n \in Nat
    BY <1>1 DEF Types, SubscriptionShape, SessionShape, Live
  <2>3. /\ subs' \in Seq(SubscriptionShape) /\ Len(subs') = n + 1
        /\ DOMAIN subs' = 1..(n + 1) /\ DOMAIN subs = 1..n
        /\ \A j \in DOMAIN subs : subs'[j] = subs[j]
        /\ subs'[n + 1] = new
    BY <2>1, <2>2 DEF Types
  <2>4. /\ \A e \in events' : e \in events \/ (e \in EventShape /\ e.customer = s.customer)
        /\ UNCHANGED <<stored, made, request, clicks, renewals, faults>>
    BY <1>1, <1>3 DEF Pay, EventShape, SessionShape
  <2>5. Types'
    BY <1>1, <2>3, <2>4 DEF Types
  <2>6. Known'
    <3>1. new.customer \in 1..made
      BY DEF Known
    <3>2. \A k \in DOMAIN subs' : subs'[k].customer \in 1..made'
      BY <2>2, <2>3, <2>4, <3>1 DEF Known
    <3>3. \A q \in sessions' : q.customer \in 1..made' /\ q.seen <= Len(subs')
      BY <1>1, <2>2, <2>3, <2>4 DEF Known, Types, SessionShape
    <3>4. \A q \in Tabs : request'[q].seen <= Len(subs')
      BY <2>2, <2>3, <2>4 DEF Known, Types, RequestShape
    <3>5. \A e \in events' : e.customer \in 1..made'
      BY <2>4 DEF Known
    <3>6. QED BY <2>4, <3>2, <3>3, <3>4, <3>5 DEF Known
  <2>7. ASSUME OneCustomer, Guarded PROVE OneCustomer'
    <3>1. s.customer = stored /\ stored # None
      BY <2>7 DEF OneCustomer
    <3>2. \A k \in DOMAIN subs' : subs'[k].customer = stored
      BY <2>2, <2>3, <2>7, <3>1 DEF OneCustomer
    <3>3. QED BY <1>1, <2>4, <2>7, <3>1, <3>2 DEF OneCustomer
  <2>8. ASSUME OneCustomer, Guarded PROVE Guarded'
    <3>1. ASSUME NEW m \in Nat, m <= n, Blind(m) PROVE Blind(m)'
      BY <2>2, <2>3, <3>1 DEF Blind
    <3>2. Blind(s.seen)
      BY <1>3, <2>8 DEF Guarded
    <3>3. OneSubscription'
      <4> SUFFICES ASSUME NEW j \in 1..(n + 1), NEW k \in 1..(j - 1), ~raced,
                          subs'[j].status \in Live, subs'[k].status \in Live
                   PROVE  subs'[j].seen < k \/ k + ListLimit <= subs'[j].seen
        BY <1>1, <2>3 DEF OneSubscription
      <4>1. k \in 1..n /\ subs'[k] = subs[k]
        BY <2>2, <2>3
      <4>2. CASE j = n + 1
        BY <2>3, <3>2, <4>1, <4>2 DEF Blind
      <4>3. CASE j # n + 1
        <5>1. j \in 1..n /\ subs'[j] = subs[j]
          BY <2>2, <2>3, <4>3
        <5>2. QED BY <2>3, <2>8, <4>1, <5>1 DEF Guarded, OneSubscription
      <4>4. QED BY <4>2, <4>3
    <3>4. \A q \in Tabs : request'[q].seen \in Nat /\ request'[q].seen <= n
      BY <2>4 DEF Types, Known, RequestShape
    <3>5. \A q \in sessions' : q.seen \in Nat /\ q.seen <= n /\ (q.plan => Blind(q.seen))
      BY <1>1, <2>8 DEF Types, Known, SessionShape, Guarded
    <3>6. QED BY <2>4, <2>8, <3>1, <3>3, <3>4, <3>5 DEF Guarded
  <2>9. QED BY <1>1, <2>5, <2>6, <2>7, <2>8
<1>4. QED BY <1>2, <1>3

\* A session that is left leaves nothing behind.
LEMMA LeaveKeeps ==
    ASSUME CheckoutAssumption, CheckoutInv, NEW s \in sessions, Leave(s)
    PROVE  CheckoutInv'
<1> USE DEF CheckoutAssumption, CheckoutInv
<1>1. /\ sessions' \subseteq sessions
      /\ UNCHANGED <<stored, made, subs, request, events, lost, raced, clicks, renewals, faults>>
  BY DEF Leave
<1>2. Types' /\ Known'
  BY <1>1 DEF Types, Known
<1>3. OneCustomer => OneCustomer'
  BY <1>1 DEF OneCustomer
<1>4. Guarded => Guarded'
  BY <1>1 DEF Guarded, Blind, OneSubscription
<1>5. QED BY <1>1, <1>2, <1>3, <1>4

\* A subscription changes its status, and one that is over does not live again.
LEMMA StatusKeeps ==
    ASSUME CheckoutAssumption, CheckoutInv, NEW k \in DOMAIN subs, subs[k].status \in Live,
           NEW st \in Live \union {"canceled"}, subs' = [subs EXCEPT ![k].status = st],
           \A e \in events' : e \in events \/ (e \in EventShape /\ e.customer = subs[k].customer),
           UNCHANGED <<stored, made, sessions, request, lost, raced, clicks, faults>>,
           renewals' \in Nat
    PROVE  CheckoutInv'
<1> USE DEF CheckoutAssumption, CheckoutInv
<1>1. /\ subs' \in Seq(SubscriptionShape) /\ Len(subs') = Len(subs) /\ DOMAIN subs' = DOMAIN subs
      /\ \A j \in DOMAIN subs : /\ subs'[j].customer = subs[j].customer
                               /\ subs'[j].seen = subs[j].seen
                               /\ subs'[j].status = IF j = k THEN st ELSE subs[j].status
  <2> DEFINE w == [subs[k] EXCEPT !.status = st]
  <2>1. subs' = [subs EXCEPT ![k] = w]
    OBVIOUS
  <2>2. subs[k] \in SubscriptionShape
    BY DEF Types
  <2>3. /\ w \in SubscriptionShape /\ w.customer = subs[k].customer /\ w.status = st
        /\ w.seen = subs[k].seen
    BY <2>2 DEF SubscriptionShape
  <2> HIDE DEF w
  <2>4. QED BY <2>1, <2>3 DEF Types
<1>2. \A j \in DOMAIN subs : subs'[j].status \in Live => subs[j].status \in Live
  BY <1>1
<1>3. Types'
  BY <1>1 DEF Types
<1>4. Known'
  BY <1>1 DEF Known
<1>5. OneCustomer => OneCustomer'
  BY <1>1 DEF OneCustomer
<1>6. \A n : Blind(n) => Blind(n)'
  BY <1>1, <1>2 DEF Blind
<1>7. OneSubscription => OneSubscription'
  <2>1. \A j \in DOMAIN subs : 1..(j - 1) \subseteq DOMAIN subs
    BY DEF Types
  <2>2. QED BY <1>1, <1>2, <2>1 DEF OneSubscription
<1>8. Guarded => Guarded'
  BY <1>6, <1>7 DEF Guarded
<1>9. QED BY <1>3, <1>4, <1>5, <1>8

LEMMA RenewKeeps ==
    ASSUME CheckoutAssumption, CheckoutInv, NEW k \in DOMAIN subs, Renew(k)
    PROVE  CheckoutInv'
<1>1. PICK st \in {"active", "past_due"} : subs' = [subs EXCEPT ![k].status = st]
  BY DEF Renew
<1>2. subs[k] \in SubscriptionShape
  BY DEF CheckoutInv, Types
<1>3. \A e \in events' : e \in events \/ (e \in EventShape /\ e.customer = subs[k].customer)
  BY <1>2 DEF Renew, EventShape, SubscriptionShape
<1>4. renewals' \in Nat
  BY DEF Renew, CheckoutInv, Types
<1>5. QED BY <1>1, <1>3, <1>4, StatusKeeps DEF Renew, Live

LEMMA CancelKeeps ==
    ASSUME CheckoutAssumption, CheckoutInv, NEW k \in DOMAIN subs, Cancel(k)
    PROVE  CheckoutInv'
<1>1. renewals' \in Nat
  BY DEF Cancel, CheckoutInv, Types
<1>2. QED BY <1>1, StatusKeeps DEF Cancel

\* Without a race an event is about the stored customer, so storing it again changes
\* nothing.
LEMMA DeliverKeeps ==
    ASSUME CheckoutAssumption, CheckoutInv, NEW e \in events, Deliver(e)
    PROVE  CheckoutInv'
<1> USE DEF CheckoutAssumption, CheckoutInv
<1>1. /\ UNCHANGED <<made, subs, sessions, request, raced, clicks, renewals, faults>>
      /\ events' \subseteq events /\ e.customer \in 1..made
      /\ stored' \in {stored, e.customer} /\ lost' \in BOOLEAN
  BY DEF Deliver, Known, Types
<1>2. Types' /\ Known'
  BY <1>1 DEF Types, Known
<1>3. ASSUME ~raced
      PROVE  stored' = stored /\ lost' = lost /\ OneCustomer' /\ Guarded'
  <2>1. e.customer = stored /\ OneCustomer /\ Guarded
    BY <1>3 DEF OneCustomer
  <2>2. stored' = stored /\ lost' = lost
    BY <2>1 DEF Deliver, Types
  <2>3. OneCustomer'
    BY <1>1, <2>1, <2>2 DEF OneCustomer
  <2>4. Guarded'
    BY <1>1, <2>1, <2>2 DEF Guarded, Blind, OneSubscription
  <2>5. QED BY <2>2, <2>3, <2>4
<1>4. QED BY <1>1, <1>2, <1>3 DEF Types

\* The invariant holds at first, is kept by every step, and so holds always.
LEMMA CheckoutStarts ==
    ASSUME CheckoutAssumption, CheckoutInit
    PROVE  CheckoutInv
<1> USE DEF CheckoutAssumption, CheckoutInit
<1>1. Types
  <2>1. Idle \in RequestShape
    BY DEF Idle, RequestShape, None
  <2>2. request \in [Tabs -> RequestShape]
    BY <2>1
  <2>3. subs \in Seq(SubscriptionShape)
    OBVIOUS
  <2>4. QED BY <2>2, <2>3 DEF Types, None
<1>2. /\ DOMAIN subs = {} /\ Len(subs) = 0
      /\ \A t \in Tabs : request[t].pc = "idle" /\ request[t].seen = 0
  BY DEF Idle
<1>3. Known /\ OneCustomer /\ Guarded /\ ~lost
  BY <1>2 DEF Known, OneCustomer, None, Guarded, OneSubscription
<1>4. QED BY <1>1, <1>3 DEF CheckoutInv

LEMMA CheckoutKeeps ==
    ASSUME CheckoutAssumption, CheckoutInv, [CheckoutNext]_vars
    PROVE  CheckoutInv'
<1>1. ASSUME NEW t \in Tabs, Click(t) PROVE CheckoutInv'
  BY <1>1, ClickKeeps
<1>2. ASSUME NEW t \in Tabs, Look(t) PROVE CheckoutInv'
  BY <1>2, LookKeeps
<1>3. ASSUME NEW t \in Tabs, List(t) PROVE CheckoutInv'
  BY <1>3, ListKeeps
<1>4. ASSUME NEW t \in Tabs, Ensure(t) PROVE CheckoutInv'
  BY <1>4, EnsureKeeps
<1>5. ASSUME NEW t \in Tabs, Store(t) PROVE CheckoutInv'
  BY <1>5, StoreKeeps
<1>6. ASSUME NEW t \in Tabs, OpenSession(t) PROVE CheckoutInv'
  BY <1>6, OpenSessionKeeps
<1>7. ASSUME NEW t \in Tabs, Crash(t) PROVE CheckoutInv'
  BY <1>7, CrashKeeps
<1>8. ASSUME NEW s \in sessions, Pay(s) PROVE CheckoutInv'
  BY <1>8, PayKeeps
<1>9. ASSUME NEW s \in sessions, Leave(s) PROVE CheckoutInv'
  BY <1>9, LeaveKeeps
<1>10. ASSUME NEW k \in DOMAIN subs, Renew(k) PROVE CheckoutInv'
  BY <1>10, RenewKeeps
<1>11. ASSUME NEW k \in DOMAIN subs, Cancel(k) PROVE CheckoutInv'
  BY <1>11, CancelKeeps
<1>12. ASSUME NEW e \in events, Deliver(e) PROVE CheckoutInv'
  BY <1>12, DeliverKeeps
<1>13. CASE UNCHANGED vars
  BY <1>13 DEF vars, CheckoutInv, Types, Known, OneCustomer, Guarded, Blind, OneSubscription
<1>14. QED BY <1>1, <1>2, <1>3, <1>4, <1>5, <1>6, <1>7, <1>8, <1>9, <1>10, <1>11, <1>12,
             <1>13 DEF CheckoutNext, RequestStep

LEMMA CheckoutInvariance ==
    ASSUME CheckoutAssumption PROVE CheckoutSpec => []CheckoutInv
<1>1. CheckoutInit => CheckoutInv
  BY CheckoutStarts
<1>2. CheckoutInv /\ [CheckoutNext]_vars => CheckoutInv'
  BY CheckoutKeeps
<1>3. QED BY <1>1, <1>2, PTL DEF CheckoutSpec

\* The types of the state, for any tabs, overlapping clicks, renewals and crashes: a
\* session, a subscription and the user name customers that were made.
THEOREM CheckoutTypes ==
    ASSUME CheckoutAssumption PROVE CheckoutSpec => []TypeOK
<1>1. CheckoutInv => TypeOK
  <2> SUFFICES ASSUME CheckoutInv PROVE TypeOK
    OBVIOUS
  <2>1. stored \in 0..made /\ made \in Nat
    BY DEF CheckoutInv, Types, Known
  <2>2. \A k \in DOMAIN subs : subs[k].customer \in 1..made
                           /\ subs[k].status \in Live \union {"canceled"}
    <3>1. \A k \in DOMAIN subs : subs[k] \in SubscriptionShape
      BY DEF CheckoutInv, Types
    <3>2. QED BY <3>1 DEF SubscriptionShape, CheckoutInv, Known
  <2>3. \A s \in sessions : s.tab \in Tabs /\ s.customer \in 1..made
    BY DEF CheckoutInv, Types, Known, SessionShape
  <2>4. QED BY <2>1, <2>2, <2>3 DEF TypeOK, CheckoutInv, Types, RequestShape, EventShape
<1>2. QED BY <1>1, CheckoutInvariance, PTL

\* Whatever clicks overlap and whoever pays when, a user gets a second live subscription
\* only by a click whose guard looked before the first one was made, or could not list
\* it, or after two requests had raced to make the customer (startCheckoutAction).
THEOREM SecondOnlyByOverlap ==
    ASSUME CheckoutAssumption PROVE CheckoutSpec => []OneSubscription
<1>1. CheckoutInv => OneSubscription
  BY DEF CheckoutInv, Guarded, OneSubscription
<1>2. QED BY <1>1, CheckoutInvariance, PTL

\* Whatever clicks overlap, every paid invoice finds its user, though the webhook may
\* tell of it before it tells of the completed session: the customer was stored before
\* the session opened. Only two requests that race to make the customer break this.
THEOREM InvoiceAlwaysFindsUser ==
    ASSUME CheckoutAssumption PROVE CheckoutSpec => []InvoiceFindsUser
<1>1. CheckoutInv => InvoiceFindsUser
  BY DEF CheckoutInv, InvoiceFindsUser
<1>2. QED BY <1>1, CheckoutInvariance, PTL

\* Whatever clicks overlap and however requests end early, ensureStripeCustomer and the
\* completed session replace the customer of the user only where two requests held a
\* customer of their own when the first one was stored.
THEOREM CustomerAlwaysKept ==
    ASSUME CheckoutAssumption PROVE CheckoutSpec => [][CustomerKept]_vars
<1>1. CheckoutInv /\ [CheckoutNext]_vars => [CustomerKept]_vars
  <2> SUFFICES ASSUME CheckoutInv, CheckoutNext, ~raced PROVE CustomerKept
    BY DEF CustomerKept, vars
  <2>1. ASSUME NEW t \in Tabs, Store(t) PROVE CustomerKept
    BY <2>1 DEF CheckoutInv, OneCustomer, Store, CustomerKept
  <2>2. ASSUME NEW e \in events, Deliver(e) PROVE CustomerKept
    BY <2>2 DEF CheckoutInv, OneCustomer, Deliver, CustomerKept
  <2>3. \/ \E t \in Tabs : Store(t)
        \/ \E e \in events : Deliver(e)
        \/ UNCHANGED stored
    BY Zenon DEF CheckoutNext, RequestStep, Click, Look, List, Ensure, Store, OpenSession, Crash,
       Pay, Leave, Renew, Cancel, Deliver
  <2>4. QED BY <2>1, <2>2, <2>3 DEF CustomerKept
<1>2. QED BY <1>1, CheckoutInvariance, PTL DEF CheckoutSpec
=============================================================================
