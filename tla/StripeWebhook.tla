--------------------------- MODULE StripeWebhook ---------------------------
(***************************************************************************)
(* The Stripe webhook, src/app/api/webhooks/stripe/route.ts, and Stripe as *)
(* the route sees it: events are emitted in an order, each is delivered at *)
(* any later time, several times and concurrently, until a delivery is     *)
(* answered with 2xx. A delivery is a process: it claims the event, runs   *)
(* the handler of its type and marks the event completed, and it may crash *)
(* or lose the database between any two of these steps.                    *)
(***************************************************************************)
EXTENDS Credits, Sequences

CONSTANTS
  Events,      \* Stripe event ids
  Body,        \* what each event says
  Emission,    \* the events in the order Stripe emits them
  Effect,      \* the business fact an event reports: two events may report one
  Deliveries,  \* slots of concurrent deliveries
  Customers, Plans,
  CustomersOf, \* the Stripe customers ensureStripeCustomer made for a user
  CreditsPerPeriod, \* Plan.creditsPerPeriod
  MaxPeriod,   \* periods are 1..MaxPeriod; 0 is creditsPeriodEnd = null
  MaxFaults,   \* bound of the model on crashes and database errors
  MaxApplied,  \* bound of the model on the counters of applied
  None, Idle

Effects == {Effect[e] : e \in Events}
Periods == 1..MaxPeriod
Kinds == {"credit_pack", "subscription_checkout", "subscription_updated",
          "subscription_deleted", "invoice_paid", "payment_failed", "other"}
Statuses == {"active", "past_due", "canceled"}

EventBody == [kind: Kinds, user: Users, customer: Customers, plan: Plans,
              period: Periods, credits: Nat \ {0}, key: Keys,
              status: {"active", "past_due", "incomplete"}]

DeliveryState == [event: Events, at: {"claim", "status", "handle", "mark", "reply"}]

ASSUME WebhookAssumption ==
  /\ Body \in [Events -> EventBody]
  /\ Emission \in Seq(Events)
  /\ CustomersOf \in [Users -> SUBSET Customers]
  /\ CreditsPerPeriod \in [Plans -> Nat]
  /\ MaxPeriod \in Nat /\ MaxFaults \in Nat /\ MaxApplied \in Nat \ {0}
  /\ None \notin Plans
  /\ Idle \notin DeliveryState

\* A Stripe customer is made for one user (ensureStripeCustomer), events speak
\* of the user's own customers, and a billing period of a user is one fact.
ASSUME StripeAssumption ==
  /\ \A u, v \in Users : u # v => CustomersOf[u] \cap CustomersOf[v] = {}
  /\ \A e \in Events : Body[e].customer \in CustomersOf[Body[e].user]
  /\ \A e, f \in Events :
       /\ Body[e].kind = "invoice_paid" /\ Body[f].kind = "invoice_paid"
       /\ Body[e].user = Body[f].user /\ Body[e].period = Body[f].period
       => Effect[e] = Effect[f]

\* A fact is reported by events of one kind: a pack by those of its checkout
\* session, whose id is in the key, and a period by the invoices for it.
ASSUME FactAssumption ==
  \A e, f \in Events : Effect[e] = Effect[f] =>
    /\ Body[e].kind = Body[f].kind
    /\ Body[e].kind = "credit_pack" => Body[e].key = Body[f].key
    /\ Body[e].kind = "invoice_paid" => /\ Body[e].user = Body[f].user
                                       /\ Body[e].period = Body[f].period

VARIABLES
  webhookEvents,      \* WebhookEvent.status, "none" when there is no row
  delivery,           \* the running deliveries
  emitted,            \* how many events Stripe has emitted
  acked,              \* the events answered with 2xx
  faults,             \* crashes and database errors so far
  stripeCustomerId, currentPlanId, creditsPeriodEnd, subscriptionStatus, \* User
  seededPlans,        \* the Plan rows that exist
  applied             \* history: transactions that changed credits, per effect

claimVars == <<webhookEvents, delivery, emitted, acked, faults>>
userVars == <<stripeCustomerId, currentPlanId, creditsPeriodEnd, subscriptionStatus>>
webhookVars == <<claimVars, userVars, seededPlans, applied>>
vars == <<creditVars, webhookVars>>

WebhookTypeOK ==
  /\ CreditTypeOK
  /\ webhookEvents \in [Events -> {"none", "processing", "completed"}]
  /\ delivery \in [Deliveries -> DeliveryState \cup {Idle}]
  /\ emitted \in 0..Len(Emission)
  /\ acked \subseteq Events
  /\ faults \in 0..MaxFaults
  /\ stripeCustomerId \in [Users -> Customers]
  /\ currentPlanId \in [Users -> Plans \cup {None}]
  /\ creditsPeriodEnd \in [Users -> Periods \cup {0}]
  /\ subscriptionStatus \in [Users -> Statuses]
  /\ seededPlans \subseteq Plans
  /\ applied \in [Effects -> 0..MaxApplied]

\* ensureStripeCustomer has stored a customer id before any checkout, hence
\* before any event: the last write of two concurrent first checkouts.
WebhookInit ==
  /\ CreditInit
  /\ webhookEvents = [e \in Events |-> "none"]
  /\ delivery = [d \in Deliveries |-> Idle]
  /\ emitted = 0
  /\ acked = {}
  /\ faults = 0
  /\ stripeCustomerId \in [Users -> Customers]
  /\ \A u \in Users : stripeCustomerId[u] \in CustomersOf[u]
  /\ currentPlanId = [u \in Users |-> None]
  /\ creditsPeriodEnd = [u \in Users |-> 0]
  /\ subscriptionStatus = [u \in Users |-> "active"]
  /\ seededPlans \in SUBSET Plans
  /\ applied = [x \in Effects |-> 0]

-----------------------------------------------------------------------------
(* Stripe and the operators.                                               *)

Emitted == {Emission[n] : n \in 1..emitted}

Emit ==
  /\ emitted < Len(Emission)
  /\ emitted' = emitted + 1
  /\ UNCHANGED <<creditVars, webhookEvents, delivery, acked, faults, userVars,
                 seededPlans, applied>>

\* seedStripeProducts upserts the Plan row of a price.
SeedPlan(plan) ==
  /\ plan \notin seededPlans
  /\ seededPlans' = seededPlans \cup {plan}
  /\ UNCHANGED <<creditVars, claimVars, userVars, applied>>

\* A reveal spends a credit in between.
Spend(u) == SpendCreditOn(u) /\ UNCHANGED webhookVars

-----------------------------------------------------------------------------
(* A delivery, step by step.                                               *)

At(d, step) == delivery[d] # Idle /\ delivery[d].at = step

Goto(d, step) ==
  /\ delivery' = [delivery EXCEPT ![d].at = step]
  /\ UNCHANGED <<emitted, acked, faults>>

\* Stripe keeps delivering what was not answered with 2xx.
Deliver(d, e) ==
  /\ delivery[d] = Idle
  /\ e \in Emitted \ acked
  /\ delivery' = [delivery EXCEPT ![d] = [event |-> e, at |-> "claim"]]
  /\ UNCHANGED <<creditVars, webhookEvents, emitted, acked, faults, userVars,
                 seededPlans, applied>>

\* The insert wins (claimed) or hits the unique event id.
Claim(d) ==
  LET e == delivery[d].event
      fresh == webhookEvents[e] = "none"
  IN  /\ At(d, "claim")
      /\ webhookEvents' = IF fresh THEN [webhookEvents EXCEPT ![e] = "processing"]
                          ELSE webhookEvents
      /\ Goto(d, IF fresh THEN "handle" ELSE "status")
      /\ UNCHANGED <<creditVars, userVars, seededPlans, applied>>

\* As if an event that was seen were answered with 200.
AckSeen(d) ==
  /\ At(d, "status")
  /\ Goto(d, "reply")
  /\ UNCHANGED <<creditVars, webhookEvents, userVars, seededPlans, applied>>

\* A completed event is acknowledged, a processing one is run again.
ReadStatus(d) ==
  /\ At(d, "status")
  /\ Goto(d, IF webhookEvents[delivery[d].event] = "completed" THEN "reply" ELSE "handle")
  /\ UNCHANGED <<creditVars, webhookEvents, userVars, seededPlans, applied>>

MarkCompleted(d) ==
  /\ At(d, "mark")
  /\ webhookEvents' = [webhookEvents EXCEPT ![delivery[d].event] = "completed"]
  /\ Goto(d, "reply")
  /\ UNCHANGED <<creditVars, userVars, seededPlans, applied>>

Reply(d) ==
  /\ At(d, "reply")
  /\ acked' = acked \cup {delivery[d].event}
  /\ delivery' = [delivery EXCEPT ![d] = Idle]
  /\ UNCHANGED <<creditVars, webhookEvents, emitted, faults, userVars, seededPlans,
                 applied>>

\* The process dies, a query fails (500) or the response is lost: what was
\* committed stays, and Stripe has no 2xx.
Fault(d) ==
  /\ delivery[d] # Idle
  /\ faults < MaxFaults
  /\ faults' = faults + 1
  /\ delivery' = [delivery EXCEPT ![d] = Idle]
  /\ UNCHANGED <<creditVars, webhookEvents, emitted, acked, userVars, seededPlans,
                 applied>>

-----------------------------------------------------------------------------
(* The handlers, one per event type. Each changes the tables in one        *)
(* transaction or one update.                                              *)

UsersOf(c) == {u \in Users : stripeCustomerId[u] = c}

Handles(d, kind) == At(d, "handle") /\ Body[delivery[d].event].kind = kind

Count(e) == applied' = [applied EXCEPT ![Effect[e]] = IF @ < MaxApplied THEN @ + 1 ELSE @]

HandlerDone(d) == Goto(d, "mark") /\ UNCHANGED <<webhookEvents, seededPlans>>

HandleCreditPack(d) ==
  LET e == delivery[d].event
      b == Body[e]
  IN  /\ Handles(d, "credit_pack")
      /\ GrantCredits(b.user, b.credits, "purchased", b.key)
      /\ IF KeyUsed(b.key) THEN UNCHANGED applied ELSE Count(e)
      /\ HandlerDone(d)
      /\ UNCHANGED userVars

HandleSubscriptionCheckout(d) ==
  LET b == Body[delivery[d].event]
  IN  /\ Handles(d, "subscription_checkout")
      /\ stripeCustomerId' = [stripeCustomerId EXCEPT ![b.user] = b.customer]
      /\ HandlerDone(d)
      /\ UNCHANGED <<creditVars, currentPlanId, creditsPeriodEnd, subscriptionStatus,
                     applied>>

\* An unknown price or customer is ignored; an incomplete subscription leaves
\* the flag alone. The rows are read and written in one step, in which the write of
\* stripeCustomerId leaves it as it was found.
HandleSubscriptionUpsert(d) ==
  LET b == Body[delivery[d].event]
      known == IF b.plan \in seededPlans THEN UsersOf(b.customer) ELSE {}
  IN  /\ Handles(d, "subscription_updated")
      /\ currentPlanId' = [u \in Users |-> IF u \in known THEN b.plan ELSE currentPlanId[u]]
      /\ subscriptionStatus' = [u \in Users |->
           IF u \in known /\ b.status \in Statuses THEN b.status ELSE subscriptionStatus[u]]
      /\ HandlerDone(d)
      /\ UNCHANGED <<creditVars, stripeCustomerId, creditsPeriodEnd, applied>>

HandleSubscriptionDeleted(d) ==
  LET e == delivery[d].event
      known == UsersOf(Body[e].customer)
  IN  /\ Handles(d, "subscription_deleted")
      /\ \/ /\ known = {}
            /\ UNCHANGED <<creditVars, currentPlanId, subscriptionStatus, applied>>
         \/ \E u \in known :
              /\ ResetSubscriptionCredits(u, 0)
              /\ currentPlanId' = [currentPlanId EXCEPT ![u] = None]
              /\ subscriptionStatus' = [subscriptionStatus EXCEPT ![u] = "canceled"]
              /\ IF creditsBalance[u] > 0 THEN Count(e) ELSE UNCHANGED applied
      /\ HandlerDone(d)
      /\ UNCHANGED <<stripeCustomerId, creditsPeriodEnd>>

\* As if the guard compared in the other direction.
LaterPeriodGranted(u, b) == creditsPeriodEnd[u] > b.period

PeriodGranted(u, b) == creditsPeriodEnd[u] = b.period

\* The balance is reset to the plan's credits unless this period was granted.
HandleInvoicePaid(d) ==
  LET e == delivery[d].event
      b == Body[e]
  IN  /\ Handles(d, "invoice_paid")
      /\ b.plan \in seededPlans
      /\ \E u \in UsersOf(b.customer) :
           \/ /\ PeriodGranted(u, b)
              /\ UNCHANGED <<creditVars, currentPlanId, creditsPeriodEnd,
                             subscriptionStatus, applied>>
           \/ /\ ~ PeriodGranted(u, b)
              /\ ResetSubscriptionCredits(u, CreditsPerPeriod[b.plan])
              /\ currentPlanId' = [currentPlanId EXCEPT ![u] = b.plan]
              /\ creditsPeriodEnd' = [creditsPeriodEnd EXCEPT ![u] = b.period]
              /\ subscriptionStatus' = [subscriptionStatus EXCEPT ![u] = "active"]
              /\ Count(e)
      /\ HandlerDone(d)
      /\ UNCHANGED stripeCustomerId

\* No Plan row for the price, or no user for the customer: throw, 500.
InvoicePaidThrows(d) ==
  LET b == Body[delivery[d].event]
  IN  /\ Handles(d, "invoice_paid")
      /\ b.plan \notin seededPlans \/ UsersOf(b.customer) = {}
      /\ delivery' = [delivery EXCEPT ![d] = Idle]
      /\ UNCHANGED <<creditVars, webhookEvents, emitted, acked, faults, userVars,
                     seededPlans, applied>>

\* notify() after the update never throws.
HandlePaymentFailed(d) ==
  LET known == UsersOf(Body[delivery[d].event].customer)
  IN  /\ Handles(d, "payment_failed")
      /\ subscriptionStatus' = [u \in Users |->
           IF u \in known THEN "past_due" ELSE subscriptionStatus[u]]
      /\ HandlerDone(d)
      /\ UNCHANGED <<creditVars, stripeCustomerId, currentPlanId, creditsPeriodEnd,
                     applied>>

HandleOther(d) ==
  /\ Handles(d, "other")
  /\ HandlerDone(d)
  /\ UNCHANGED <<creditVars, userVars, applied>>

Handle(d) ==
  \/ HandleCreditPack(d) \/ HandleSubscriptionCheckout(d) \/ HandleSubscriptionUpsert(d)
  \/ HandleSubscriptionDeleted(d) \/ HandleInvoicePaid(d) \/ InvoicePaidThrows(d)
  \/ HandlePaymentFailed(d) \/ HandleOther(d)

DeliveryStep(d) == Claim(d) \/ ReadStatus(d) \/ Handle(d) \/ MarkCompleted(d) \/ Reply(d)

WebhookNext ==
  \/ Emit
  \/ \E d \in Deliveries :
       \/ \E e \in Events : Deliver(d, e)
       \/ DeliveryStep(d)
       \/ Fault(d)
  \/ \E plan \in Plans : SeedPlan(plan)
  \/ \E u \in Users : Spend(u)

WebhookSpec == WebhookInit /\ [][WebhookNext]_vars

\* The server keeps running the deliveries it has accepted, and Stripe repeats
\* a delivery until it gets a 2xx (its retry window is taken as unbounded).
WebhookFairness ==
  /\ \A d \in Deliveries : WF_vars(DeliveryStep(d))
  /\ \A e \in Events : SF_vars(\E d \in Deliveries : Deliver(d, e))

FairWebhookSpec == WebhookSpec /\ WebhookFairness

-----------------------------------------------------------------------------
(* Safety.                                                                 *)

\* No paid event is lost (route.ts:498-503, 541-545): what Stripe was told is
\* done has committed. A pack is on the account, a billing period was granted.
AckedIsApplied ==
  \A e \in acked :
    /\ webhookEvents[e] = "completed"
    /\ Body[e].kind = "credit_pack" => KeyUsed(Body[e].key)
    /\ Body[e].kind = "invoice_paid" => applied[Effect[e]] >= 1

\* A pack is granted once, and so is a billing period as long as the account
\* has not moved on to another one: concurrently, after a crash between the
\* grant and the completed mark, and under two event ids for one invoice
\* (route.ts:181-183, 349-355).
GrantedOnce ==
  \A e \in Events :
    Body[e].kind \in {"credit_pack", "invoice_paid"} => applied[Effect[e]] <= 1

\* A pack bucket rises only by the amount of a pack bought by that user, whose
\* key is used up in the same step (route.ts:178-191).
PackGrantsAreBought ==
  [][\A u \in Users : purchasedCredits'[u] > purchasedCredits[u] =>
       \E e \in Emitted :
         /\ Body[e].kind = "credit_pack" /\ Body[e].user = u
         /\ ~ KeyUsed(Body[e].key) /\ KeyUsed(Body[e].key)'
         /\ purchasedCredits'[u] = purchasedCredits[u] + Body[e].credits]_vars

-----------------------------------------------------------------------------
(* Liveness.                                                               *)

\* Every event Stripe emits is eventually completed, through crashes, lost
\* answers and concurrent re-deliveries, once the Plan it names is seeded
\* (route.ts:115-117, 312-324, 554-558).
EventuallyCompleted ==
  \A e \in Events :
    (e \in Emitted /\ Body[e].plan \in seededPlans) ~> webhookEvents[e] = "completed"

-----------------------------------------------------------------------------
(* What comments of the code say and the code does not do.                 *)

\* "Handlers are idempotent (invoice period-guard + grantCredits
\* idempotencyKey + zeroed-balance guard), so a re-run can't double-apply"
\* (route.ts:117-119): a fact changes credits at most once.
AppliedOnce == \A x \in Effects : applied[x] <= 1

\* Stripe's own view of a customer, after everything it has emitted.
ReportsStatus(c) ==
  {n \in 1..emitted : /\ Body[Emission[n]].customer = c
                      /\ Body[Emission[n]].kind \in {"subscription_updated",
                            "subscription_deleted", "invoice_paid", "payment_failed"}}

StripeStatus(c) ==
  LET last == CHOOSE n \in ReportsStatus(c) : \A m \in ReportsStatus(c) : m <= n
      b == Body[Emission[last]]
  IN  CASE b.kind = "subscription_updated" -> b.status
        [] b.kind = "subscription_deleted" -> "canceled"
        [] b.kind = "invoice_paid" -> "active"
        [] b.kind = "payment_failed" -> "past_due"

\* "Mirror Stripe's subscription status into our soft-gate flag" (route.ts:226):
\* when every event has been handled, the flag is what Stripe last reported.
MirrorsStripe ==
  (emitted = Len(Emission) /\ acked = Emitted) =>
    \A u \in Users :
      ReportsStatus(stripeCustomerId[u]) # {} =>
        subscriptionStatus[u] = StripeStatus(stripeCustomerId[u])
=============================================================================
