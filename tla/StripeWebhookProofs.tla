------------------------ MODULE StripeWebhookProofs ------------------------
(***************************************************************************)
(* Theorems about the Stripe webhook, for any events, in any order, with   *)
(* any number of concurrent deliveries and crashes.                        *)
(*                                                                         *)
(* AckedIsApplied speaks of acknowledged events only. It holds because a   *)
(* delivery that is about to mark or to answer has its handler's work      *)
(* committed, and because what was committed is never taken back: a used   *)
(* key stays used and a granted period stays counted, although             *)
(* creditsPeriodEnd, by which the code recognizes it, moves on.            *)
(***************************************************************************)
EXTENDS StripeWebhook

\* The work of the event is committed.
Done(e) ==
  /\ Body[e].kind = "credit_pack" => KeyUsed(Body[e].key)
  /\ Body[e].kind = "invoice_paid" => applied[Effect[e]] >= 1

DeliveriesInv ==
  \A d \in Deliveries : delivery[d] # Idle =>
    /\ delivery[d].event \in Emitted
    /\ delivery[d].at \in {"mark", "reply"} => Done(delivery[d].event)
    /\ delivery[d].at = "reply" => webhookEvents[delivery[d].event] = "completed"

CompletedIsDone == \A e \in Events : webhookEvents[e] = "completed" => Done(e)

AckedIsCompleted == \A e \in acked : webhookEvents[e] = "completed"

\* The period an account is in has been granted.
PeriodIsGranted ==
  \A e \in Events :
    Body[e].kind = "invoice_paid" /\ Body[e].period = creditsPeriodEnd[Body[e].user]
      => applied[Effect[e]] >= 1

OwnCustomer == \A u \in Users : stripeCustomerId[u] \in CustomersOf[u]

ClaimInv == DeliveriesInv /\ CompletedIsDone /\ AckedIsCompleted

WebhookInv ==
  /\ WebhookTypeOK /\ LedgerReconciles
  /\ ClaimInv /\ PeriodIsGranted /\ OwnCustomer

-----------------------------------------------------------------------------
(* Typing and the credit accounts.                                         *)

BookTypeOK ==
  /\ webhookEvents \in [Events -> {"none", "processing", "completed"}]
  /\ delivery \in [Deliveries -> DeliveryState \cup {Idle}]
  /\ emitted \in 0..Len(Emission)
  /\ acked \subseteq Events
  /\ faults \in 0..MaxFaults

UserTypeOK ==
  /\ stripeCustomerId \in [Users -> Customers]
  /\ currentPlanId \in [Users -> Plans \cup {None}]
  /\ creditsPeriodEnd \in [Users -> Periods \cup {0}]
  /\ subscriptionStatus \in [Users -> Statuses]
  /\ seededPlans \subseteq Plans
  /\ applied \in [Effects -> 0..MaxApplied]

LEMMA WebhookTypeParts ==
  WebhookTypeOK <=> CreditTypeOK /\ BookTypeOK /\ UserTypeOK
  BY DEF WebhookTypeOK, BookTypeOK, UserTypeOK

\* What a delivery carries.
LEMMA DeliveryBody ==
  ASSUME WebhookTypeOK, NEW d \in Deliveries, delivery[d] # Idle
  PROVE  /\ delivery[d] \in DeliveryState
         /\ delivery[d].event \in Events
         /\ Body[delivery[d].event] \in EventBody
<1>1. delivery[d] \in DeliveryState
  BY DEF WebhookTypeOK
<1>2. delivery[d].event \in Events
  BY <1>1 DEF DeliveryState
<1> QED BY <1>1, <1>2, WebhookAssumption

LEMMA EmittedEvents ==
  ASSUME emitted \in 0..Len(Emission)
  PROVE  Emitted \subseteq Events
<1>1. Len(Emission) \in Nat /\ \A n \in 1..Len(Emission) : Emission[n] \in Events
  BY WebhookAssumption
<1> QED BY <1>1 DEF Emitted

LEMMA CountType ==
  ASSUME UserTypeOK, NEW e \in Events, Count(e)
  PROVE  applied' \in [Effects -> 0..MaxApplied]
<1>1. Effect[e] \in Effects
  BY DEF Effects
<1> QED BY <1>1, WebhookAssumption DEF Count, UserTypeOK

LEMMA WebhookCredits ==
  ASSUME WebhookTypeOK, LedgerReconciles, [WebhookNext]_vars
  PROVE  CreditInv'
<1>0. CreditInv /\ users \subseteq Users
  BY DEF WebhookTypeOK, CreditInv, CreditTypeOK
<1>1. CASE \E u \in Users : Spend(u)
  BY <1>0, <1>1, SpendInv DEF Spend
<1>2. ASSUME NEW d \in Deliveries, HandleCreditPack(d)
      PROVE  CreditInv'
  <2> DEFINE b == Body[delivery[d].event]
  <2>1. b \in EventBody
    BY <1>2, DeliveryBody DEF HandleCreditPack, Handles, At
  <2>2. b.user \in Users /\ b.credits \in Nat /\ b.key \in Keys \cup {NoKey}
    BY <2>1 DEF EventBody
  <2>3. GrantCredits(b.user, b.credits, "purchased", b.key)
    BY <1>2 DEF HandleCreditPack
  <2> HIDE DEF b
  <2> QED BY <1>0, <2>2, <2>3, GrantInv
<1>3. ASSUME NEW d \in Deliveries, HandleSubscriptionDeleted(d)
      PROVE  CreditInv'
  BY <1>0, <1>3, ResetInv, StutterInv DEF HandleSubscriptionDeleted, UsersOf
<1>4. ASSUME NEW d \in Deliveries, HandleInvoicePaid(d)
      PROVE  CreditInv'
  <2>1. CreditsPerPeriod[Body[delivery[d].event].plan] \in Nat
    BY <1>4, WebhookAssumption DEF HandleInvoicePaid, WebhookTypeOK
  <2>2. \/ UNCHANGED creditVars
        \/ \E u \in Users :
             ResetSubscriptionCredits(u, CreditsPerPeriod[Body[delivery[d].event].plan])
    BY <1>4 DEF HandleInvoicePaid, UsersOf
  <2> QED BY <1>0, <2>1, <2>2, ResetInv, StutterInv
<1>5. CASE UNCHANGED creditVars
  BY <1>0, <1>5, StutterInv
<1>6. \/ \E u \in Users : Spend(u)
      \/ \E d \in Deliveries : \/ HandleCreditPack(d)
                               \/ HandleSubscriptionDeleted(d)
                               \/ HandleInvoicePaid(d)
      \/ UNCHANGED creditVars
  BY DEF WebhookNext, Emit, Deliver, DeliveryStep, Claim, ReadStatus, Handle,
         HandleSubscriptionCheckout, HandleSubscriptionUpsert, InvoicePaidThrows,
         HandlePaymentFailed, HandleOther, MarkCompleted, Reply, Fault, SeedPlan, vars
<1> QED BY <1>1, <1>2, <1>3, <1>4, <1>5, <1>6

\* The handlers that count something.
LEMMA HandlerCounts ==
  ASSUME WebhookTypeOK, NEW d \in Deliveries, Handle(d)
  PROVE  UNCHANGED applied \/ Count(delivery[d].event)
  BY DEF Handle, HandleCreditPack, HandleSubscriptionCheckout, HandleSubscriptionUpsert,
         HandleSubscriptionDeleted, HandleInvoicePaid, InvoicePaidThrows,
         HandlePaymentFailed, HandleOther, userVars

LEMMA HandlerUsers ==
  ASSUME WebhookTypeOK, NEW d \in Deliveries, Handle(d)
  PROVE  UserTypeOK'
<1> DEFINE b == Body[delivery[d].event]
<1>0. UserTypeOK /\ delivery[d] # Idle /\ delivery[d].event \in Events
  BY WebhookTypeParts, DeliveryBody
     DEF Handle, HandleCreditPack, HandleSubscriptionCheckout, HandleSubscriptionUpsert,
         HandleSubscriptionDeleted, HandleInvoicePaid, InvoicePaidThrows,
         HandlePaymentFailed, HandleOther, Handles, At
<1>1. applied' \in [Effects -> 0..MaxApplied]
  BY <1>0, HandlerCounts, CountType DEF UserTypeOK
<1>2. /\ b.user \in Users /\ b.customer \in Customers /\ b.plan \in Plans
      /\ b.period \in Periods
  <2>1. b \in EventBody
    BY <1>0, DeliveryBody
  <2> QED BY <2>1 DEF EventBody
<1>3. seededPlans' \subseteq Plans
  BY <1>0 DEF Handle, HandleCreditPack, HandleSubscriptionCheckout,
         HandleSubscriptionUpsert, HandleSubscriptionDeleted, HandleInvoicePaid,
         InvoicePaidThrows, HandlePaymentFailed, HandleOther, HandlerDone, UserTypeOK
<1>4. /\ "active" \in Statuses /\ "past_due" \in Statuses /\ "canceled" \in Statuses
  BY DEF Statuses
<1>5. CASE HandleCreditPack(d) \/ HandleOther(d) \/ InvoicePaidThrows(d)
  BY <1>0, <1>1, <1>3, <1>5
     DEF HandleCreditPack, HandleOther, InvoicePaidThrows, userVars, UserTypeOK
<1>6. CASE HandleSubscriptionCheckout(d)
  BY <1>0, <1>1, <1>2, <1>3, <1>6 DEF HandleSubscriptionCheckout, UserTypeOK
<1>7. CASE HandleSubscriptionUpsert(d)
  BY <1>0, <1>1, <1>2, <1>3, <1>7 DEF HandleSubscriptionUpsert, UserTypeOK
<1>8. CASE HandleSubscriptionDeleted(d)
  BY <1>0, <1>1, <1>3, <1>4, <1>8 DEF HandleSubscriptionDeleted, UserTypeOK, UsersOf
<1>9. CASE HandleInvoicePaid(d)
  BY <1>0, <1>1, <1>2, <1>3, <1>4, <1>9 DEF HandleInvoicePaid, UserTypeOK, UsersOf
<1>10. CASE HandlePaymentFailed(d)
  BY <1>0, <1>1, <1>3, <1>4, <1>10 DEF HandlePaymentFailed, UserTypeOK
<1> QED BY <1>5, <1>6, <1>7, <1>8, <1>9, <1>10 DEF Handle

LEMMA BooksStep ==
  ASSUME WebhookTypeOK, [WebhookNext]_vars
  PROVE  BookTypeOK'
<1>0. BookTypeOK
  BY WebhookTypeParts
<1>1. Len(Emission) \in Nat /\ Emitted \subseteq Events
  BY <1>0, WebhookAssumption, EmittedEvents DEF BookTypeOK
<1>2. ASSUME NEW d \in Deliveries, NEW step \in {"claim", "status", "handle", "mark", "reply"},
             delivery[d] # Idle, Goto(d, step)
      PROVE  /\ delivery' \in [Deliveries -> DeliveryState \cup {Idle}]
             /\ UNCHANGED <<emitted, acked, faults>>
  BY <1>0, <1>2 DEF Goto, BookTypeOK, DeliveryState
<1>3. CASE Emit
  BY <1>0, <1>1, <1>3 DEF Emit, BookTypeOK
<1>4. ASSUME NEW d \in Deliveries, \E e \in Events : Deliver(d, e)
      PROVE  BookTypeOK'
  BY <1>0, <1>4 DEF Deliver, BookTypeOK, DeliveryState
<1>5. ASSUME NEW d \in Deliveries, Claim(d) \/ ReadStatus(d) \/ MarkCompleted(d)
      PROVE  BookTypeOK'
  <2>1. webhookEvents' \in [Events -> {"none", "processing", "completed"}]
    BY <1>0, <1>5 DEF Claim, ReadStatus, MarkCompleted, BookTypeOK
  <2> QED BY <1>0, <1>2, <1>5, <2>1 DEF Claim, ReadStatus, MarkCompleted, At, BookTypeOK
<1>6. ASSUME NEW d \in Deliveries, Reply(d) \/ Fault(d) \/ InvoicePaidThrows(d)
      PROVE  BookTypeOK'
  <2>1. delivery[d].event \in Events
    BY <1>6, DeliveryBody DEF Reply, Fault, InvoicePaidThrows, Handles, At
  <2>2. CASE Reply(d)
    BY <1>0, <2>1, <2>2 DEF Reply, BookTypeOK
  <2>3. CASE Fault(d)
    BY <1>0, <2>3, WebhookAssumption DEF Fault, BookTypeOK
  <2>4. CASE InvoicePaidThrows(d)
    BY <1>0, <2>4 DEF InvoicePaidThrows, BookTypeOK
  <2> QED BY <1>6, <2>2, <2>3, <2>4
<1>7. ASSUME NEW d \in Deliveries, delivery[d] # Idle, HandlerDone(d)
      PROVE  BookTypeOK'
  BY <1>0, <1>2, <1>7 DEF HandlerDone, BookTypeOK
<1>8. ASSUME NEW d \in Deliveries, Handle(d)
      PROVE  BookTypeOK'
  BY <1>6, <1>7, <1>8
     DEF Handle, HandleCreditPack, HandleSubscriptionCheckout, HandleSubscriptionUpsert,
         HandleSubscriptionDeleted, HandleInvoicePaid, HandlePaymentFailed, HandleOther,
         Handles, At
<1>9. CASE (\E plan \in Plans : SeedPlan(plan)) \/ (\E u \in Users : Spend(u))
             \/ UNCHANGED vars
  BY <1>0, <1>9 DEF SeedPlan, Spend, vars, webhookVars, claimVars, BookTypeOK
<1> QED BY <1>3, <1>4, <1>5, <1>6, <1>8, <1>9 DEF WebhookNext, DeliveryStep

LEMMA UsersStep ==
  ASSUME WebhookTypeOK, [WebhookNext]_vars
  PROVE  UserTypeOK'
<1>0. UserTypeOK
  BY WebhookTypeParts
<1>1. CASE \E d \in Deliveries : Handle(d)
  BY <1>1, HandlerUsers
<1>2. CASE \E plan \in Plans : SeedPlan(plan)
  BY <1>0, <1>2 DEF SeedPlan, userVars, UserTypeOK
<1>3. CASE UNCHANGED <<userVars, seededPlans, applied>>
  BY <1>0, <1>3 DEF userVars, UserTypeOK
<1>4. \/ \E d \in Deliveries : Handle(d)
      \/ \E plan \in Plans : SeedPlan(plan)
      \/ UNCHANGED <<userVars, seededPlans, applied>>
  BY DEF WebhookNext, Emit, Deliver, DeliveryStep, Claim, ReadStatus, MarkCompleted, Reply,
         Fault, Spend, vars, webhookVars
<1> QED BY <1>1, <1>2, <1>3, <1>4

\* Every table and every delivery stays well formed.
LEMMA WebhookTypeStep ==
  ASSUME WebhookTypeOK, LedgerReconciles, [WebhookNext]_vars
  PROVE  WebhookTypeOK' /\ LedgerReconciles'
<1>1. CreditTypeOK' /\ LedgerReconciles'
  BY WebhookCredits DEF CreditInv
<1>2. BookTypeOK' /\ UserTypeOK'
  BY BooksStep, UsersStep
<1> QED BY <1>1, <1>2, WebhookTypeParts, PTL

-----------------------------------------------------------------------------
(* What is committed stays.                                                *)

LEMMA KeysGrow ==
  ASSUME [WebhookNext]_vars
  PROVE  idempotencyKeys \subseteq idempotencyKeys'
<1>1. ASSUME NEW d \in Deliveries, Handle(d)
      PROVE  idempotencyKeys \subseteq idempotencyKeys'
  BY <1>1 DEF Handle, HandleCreditPack, HandleSubscriptionCheckout,
       HandleSubscriptionUpsert, HandleSubscriptionDeleted, HandleInvoicePaid,
       InvoicePaidThrows, HandlePaymentFailed, HandleOther, GrantCredits,
       ResetSubscriptionCredits, creditVars
<1>2. CASE \E u \in Users : Spend(u)
  BY <1>2 DEF Spend, SpendCreditOn
<1> QED BY <1>1, <1>2
        DEF WebhookNext, Emit, Deliver, DeliveryStep, Claim, ReadStatus, MarkCompleted,
            Reply, Fault, SeedPlan, vars, creditVars

LEMMA CountsGrow ==
  ASSUME WebhookTypeOK, [WebhookNext]_vars
  PROVE  \A x \in Effects : applied'[x] >= applied[x]
<1>0. \A x \in Effects : applied[x] \in Nat
  BY WebhookAssumption DEF WebhookTypeOK
<1>1. ASSUME NEW d \in Deliveries, Count(delivery[d].event)
      PROVE  \A x \in Effects : applied'[x] >= applied[x]
  BY <1>0, <1>1 DEF Count, WebhookTypeOK
<1>2. (\E d \in Deliveries : Handle(d)) \/ UNCHANGED applied
  BY DEF WebhookNext, Emit, Deliver, DeliveryStep, Claim, ReadStatus, MarkCompleted, Reply,
         Fault, SeedPlan, Spend, webhookVars, vars
<1> QED BY <1>0, <1>1, <1>2, HandlerCounts

LEMMA DoneStays ==
  ASSUME WebhookTypeOK, [WebhookNext]_vars, NEW e \in Events, Done(e)
  PROVE  Done(e)'
<1>1. KeyUsed(Body[e].key) => KeyUsed(Body[e].key)'
  BY KeysGrow DEF KeyUsed
<1>2. applied[Effect[e]] >= 1 => applied'[Effect[e]] >= 1
  <2>1. Effect[e] \in Effects
    BY DEF Effects
  <2>2. applied[Effect[e]] \in Nat /\ applied'[Effect[e]] \in Int
    BY <2>1, UsersStep, WebhookAssumption DEF WebhookTypeOK, UserTypeOK
  <2> QED BY <2>1, <2>2, CountsGrow
<1> QED BY <1>1, <1>2 DEF Done

-----------------------------------------------------------------------------
(* A handler commits the work of its event.                                *)

LEMMA CountedOnce ==
  ASSUME WebhookTypeOK, NEW e \in Events, Count(e)
  PROVE  applied'[Effect[e]] >= 1
<1>1. Effect[e] \in Effects
  BY DEF Effects
<1>2. applied[Effect[e]] \in 0..MaxApplied
  BY <1>1 DEF WebhookTypeOK
<1> QED BY <1>1, <1>2, WebhookAssumption DEF Count, WebhookTypeOK

\* The user whose customer the event names.
LEMMA NamedUser ==
  ASSUME WebhookTypeOK, OwnCustomer, NEW e \in Events, NEW u \in UsersOf(Body[e].customer)
  PROVE  u = Body[e].user
<1>1. Body[e].user \in Users /\ Body[e].customer \in CustomersOf[Body[e].user]
  BY WebhookAssumption, StripeAssumption DEF EventBody
<1>2. u \in Users /\ Body[e].customer \in CustomersOf[u]
  BY DEF UsersOf, OwnCustomer
<1> QED BY <1>1, <1>2, StripeAssumption

LEMMA HandlerCommits ==
  ASSUME WebhookInv, NEW d \in Deliveries, Handle(d), ~ InvoicePaidThrows(d),
         NEW e, e = delivery[d].event
  PROVE  Done(e)' /\ HandlerDone(d) /\ delivery[d] # Idle
<1>0. WebhookTypeOK /\ OwnCustomer /\ PeriodIsGranted
  BY DEF WebhookInv
<1>1. e \in Events /\ Body[e] \in EventBody /\ delivery[d] # Idle
  BY <1>0, DeliveryBody
     DEF Handle, HandleCreditPack, HandleSubscriptionCheckout, HandleSubscriptionUpsert,
         HandleSubscriptionDeleted, HandleInvoicePaid, HandlePaymentFailed, HandleOther,
         Handles, At
<1>2. HandlerDone(d)
  BY DEF Handle, HandleCreditPack, HandleSubscriptionCheckout, HandleSubscriptionUpsert,
         HandleSubscriptionDeleted, HandleInvoicePaid, HandlePaymentFailed, HandleOther
<1>3. CASE HandleCreditPack(d)
  <2>1. Body[e].kind = "credit_pack"
    BY <1>3 DEF HandleCreditPack, Handles
  <2>2. Body[e].user \in Users /\ Body[e].key \in Keys
    BY <1>1 DEF EventBody
  <2>3. GrantCredits(Body[e].user, Body[e].credits, "purchased", Body[e].key)
    BY <1>3 DEF HandleCreditPack
  <2>4. \/ UNCHANGED idempotencyKeys /\ KeyUsed(Body[e].key)
        \/ idempotencyKeys' =
             idempotencyKeys \cup ({Body[e].user} \X ({Body[e].key} \ {NoKey}))
    BY <2>3 DEF GrantCredits, creditVars
  <2>5. \E u \in Users : <<u, Body[e].key>> \in idempotencyKeys'
    BY <2>2, <2>4, CreditsAssumption DEF KeyUsed
  <2> QED BY <1>1, <1>2, <2>1, <2>5 DEF Done, KeyUsed
<1>4. CASE HandleInvoicePaid(d)
  <2>1. Body[e].kind = "invoice_paid"
    BY <1>4 DEF HandleInvoicePaid, Handles
  <2>2. applied'[Effect[e]] >= 1
    <3>1. PICK u \in UsersOf(Body[e].customer) :
            \/ PeriodGranted(u, Body[e]) /\ UNCHANGED applied
            \/ Count(e)
      BY <1>4 DEF HandleInvoicePaid
    <3>2. u = Body[e].user
      BY <1>0, <1>1, NamedUser
    <3>3. CASE PeriodGranted(u, Body[e]) /\ UNCHANGED applied
      BY <1>0, <1>1, <2>1, <3>2, <3>3 DEF PeriodGranted, PeriodIsGranted
    <3>4. CASE Count(e)
      BY <1>0, <1>1, <3>4, CountedOnce
    <3> QED BY <3>1, <3>3, <3>4
  <2> QED BY <1>1, <1>2, <2>1, <2>2 DEF Done
<1>5. CASE Body[e].kind \notin {"credit_pack", "invoice_paid"}
  BY <1>1, <1>2, <1>5 DEF Done
<1> QED BY <1>1, <1>2, <1>3, <1>4, <1>5
        DEF Handle, HandleSubscriptionCheckout, HandleSubscriptionUpsert,
            HandleSubscriptionDeleted, HandlePaymentFailed, HandleOther, Handles

-----------------------------------------------------------------------------
(* Periods and customers.                                                  *)

LEMMA CustomerStep ==
  ASSUME WebhookTypeOK, OwnCustomer, [WebhookNext]_vars
  PROVE  OwnCustomer'
<1>1. ASSUME NEW d \in Deliveries, HandleSubscriptionCheckout(d)
      PROVE  OwnCustomer'
  <2> DEFINE b == Body[delivery[d].event]
  <2>1. b.user \in Users /\ b.customer \in CustomersOf[b.user]
    BY <1>1, DeliveryBody, StripeAssumption
       DEF HandleSubscriptionCheckout, Handles, At, EventBody
  <2>2. stripeCustomerId' = [stripeCustomerId EXCEPT ![b.user] = b.customer]
    BY <1>1 DEF HandleSubscriptionCheckout
  <2> HIDE DEF b
  <2> QED BY <2>1, <2>2 DEF OwnCustomer, WebhookTypeOK
<1>2. CASE UNCHANGED stripeCustomerId
  BY <1>2 DEF OwnCustomer
<1>3. (\E d \in Deliveries : HandleSubscriptionCheckout(d)) \/ UNCHANGED stripeCustomerId
  BY DEF WebhookNext, Emit, Deliver, DeliveryStep, Claim, ReadStatus, MarkCompleted, Reply,
         Fault, SeedPlan, Spend, Handle, HandleCreditPack, HandleSubscriptionUpsert,
         HandleSubscriptionDeleted, HandleInvoicePaid, InvoicePaidThrows,
         HandlePaymentFailed, HandleOther, userVars, webhookVars, vars
<1> QED BY <1>1, <1>2, <1>3

\* A period is recorded in the step that grants it.
LEMMA PeriodStep ==
  ASSUME WebhookTypeOK, OwnCustomer, PeriodIsGranted, [WebhookNext]_vars
  PROVE  PeriodIsGranted'
<1>0. ASSUME NEW f \in Events, applied[Effect[f]] >= 1
      PROVE  applied'[Effect[f]] >= 1
  <2>1. Effect[f] \in Effects
    BY DEF Effects
  <2>2. applied[Effect[f]] \in Nat /\ applied'[Effect[f]] \in Int
    BY <2>1, UsersStep, WebhookAssumption DEF WebhookTypeOK, UserTypeOK
  <2> QED BY <1>0, <2>1, <2>2, CountsGrow
<1>1. CASE UNCHANGED creditsPeriodEnd
  BY <1>0, <1>1 DEF PeriodIsGranted
<1>2. ASSUME NEW d \in Deliveries, HandleInvoicePaid(d), ~ UNCHANGED creditsPeriodEnd
      PROVE  PeriodIsGranted'
  <2> DEFINE e == delivery[d].event
             b == Body[e]
  <2>1. /\ e \in Events /\ b.kind = "invoice_paid"
        /\ b.user \in Users /\ b.period \in Periods
    BY <1>2, DeliveryBody DEF HandleInvoicePaid, Handles, At, EventBody
  <2>2. /\ creditsPeriodEnd' = [creditsPeriodEnd EXCEPT ![b.user] = b.period]
        /\ Count(e)
    BY <1>2, <2>1, NamedUser DEF HandleInvoicePaid
  <2>3. applied'[Effect[e]] >= 1
    BY <2>1, <2>2, CountedOnce
  <2> SUFFICES ASSUME NEW f \in Events, Body[f].kind = "invoice_paid",
                      Body[f].period = creditsPeriodEnd'[Body[f].user]
               PROVE  applied'[Effect[f]] >= 1
    BY DEF PeriodIsGranted
  <2>4. Body[f].user \in Users
    BY WebhookAssumption DEF EventBody
  <2>5. CASE Body[f].user = b.user
    <3>1. Body[f].period = b.period
      BY <2>1, <2>2, <2>5 DEF WebhookTypeOK
    <3>2. Effect[f] = Effect[e]
      BY <2>1, <2>5, <3>1, StripeAssumption
    <3> QED BY <2>3, <3>2
  <2>6. CASE Body[f].user # b.user
    <3>1. creditsPeriodEnd'[Body[f].user] = creditsPeriodEnd[Body[f].user]
      BY <2>2, <2>4, <2>6 DEF WebhookTypeOK
    <3> QED BY <1>0, <3>1 DEF PeriodIsGranted
  <2> QED BY <2>5, <2>6
<1>3. (\E d \in Deliveries : HandleInvoicePaid(d)) \/ UNCHANGED creditsPeriodEnd
  BY DEF WebhookNext, Emit, Deliver, DeliveryStep, Claim, ReadStatus, MarkCompleted, Reply,
         Fault, SeedPlan, Spend, Handle, HandleCreditPack, HandleSubscriptionUpsert,
         HandleSubscriptionDeleted, HandleSubscriptionCheckout, InvoicePaidThrows,
         HandlePaymentFailed, HandleOther, userVars, webhookVars, vars
<1> QED BY <1>1, <1>2, <1>3

-----------------------------------------------------------------------------
(* Claims.                                                                 *)

\* Nothing un-completes an event, and Stripe does not take one back.
LEMMA CompletedStays ==
  ASSUME WebhookTypeOK, [WebhookNext]_vars
  PROVE  /\ \A e \in Events :
              webhookEvents[e] = "completed" => webhookEvents'[e] = "completed"
         /\ Emitted \subseteq Emitted'
<1>1. \A e \in Events : webhookEvents[e] = "completed" => webhookEvents'[e] = "completed"
  <2>1. CASE \E d \in Deliveries : Claim(d) \/ MarkCompleted(d)
    BY <2>1 DEF Claim, MarkCompleted, WebhookTypeOK
  <2>2. (\E d \in Deliveries : Claim(d) \/ MarkCompleted(d)) \/ UNCHANGED webhookEvents
    BY DEF WebhookNext, Emit, Deliver, DeliveryStep, ReadStatus, Reply, Fault, SeedPlan,
           Spend, Handle, HandleCreditPack, HandleSubscriptionUpsert,
           HandleSubscriptionDeleted, HandleSubscriptionCheckout, HandleInvoicePaid,
           InvoicePaidThrows, HandlePaymentFailed, HandleOther, HandlerDone, claimVars,
           webhookVars, vars
  <2> QED BY <2>1, <2>2
<1>2. emitted \in Nat /\ (emitted' = emitted + 1 \/ emitted' = emitted)
  <2>1. emitted \in Nat
    BY WebhookAssumption DEF WebhookTypeOK
  <2>2. Emit \/ UNCHANGED emitted
    BY DEF WebhookNext, Deliver, DeliveryStep, Claim, ReadStatus, MarkCompleted, Reply,
           Fault, SeedPlan, Spend, Handle, HandleCreditPack, HandleSubscriptionUpsert,
           HandleSubscriptionDeleted, HandleSubscriptionCheckout, HandleInvoicePaid,
           InvoicePaidThrows, HandlePaymentFailed, HandleOther, HandlerDone, Goto,
           claimVars, webhookVars, vars
  <2> QED BY <2>1, <2>2 DEF Emit
<1>3. Emitted \subseteq Emitted'
  BY <1>2 DEF Emitted
<1> QED BY <1>1, <1>3

\* A delivery that goes on to another step keeps its event.
LEMMA GotoMoves ==
  ASSUME WebhookTypeOK, NEW k \in Deliveries, NEW step, delivery[k] # Idle, Goto(k, step)
  PROVE  /\ delivery'[k].event = delivery[k].event /\ delivery'[k].at = step
         /\ \A d \in Deliveries : d # k => delivery'[d] = delivery[d]
<1>1. delivery[k] \in DeliveryState /\ delivery' = [delivery EXCEPT ![k].at = step]
  BY DeliveryBody DEF Goto
<1> QED BY <1>1 DEF DeliveryState, WebhookTypeOK

\* What a step may do to a delivery.
LEMMA DeliveryMoves ==
  ASSUME WebhookInv, [WebhookNext]_vars, NEW d \in Deliveries, delivery'[d] # Idle,
         NEW e, e = delivery'[d].event
  PROVE  \/ delivery'[d] = delivery[d]
         \/ /\ e \in Emitted
            /\ \/ delivery'[d].at \in {"claim", "status", "handle"}
               \/ delivery'[d].at = "mark" /\ Done(e)'
               \/ /\ delivery'[d].at = "reply" /\ Done(e)'
                  /\ webhookEvents'[e] = "completed"
<1> DEFINE Moved == delivery'[d] # delivery[d]
<1>0. /\ WebhookTypeOK /\ DeliveriesInv /\ CompletedIsDone
      /\ delivery \in [Deliveries -> DeliveryState \cup {Idle}]
      /\ webhookEvents \in [Events -> {"none", "processing", "completed"}]
  BY DEF WebhookInv, ClaimInv, WebhookTypeOK
<1>1. ASSUME NEW k \in Deliveries, \E f \in Events : Deliver(k, f), Moved
      PROVE  e \in Emitted /\ delivery'[d].at = "claim"
  BY <1>0, <1>1 DEF Deliver
<1>2. ASSUME NEW k \in Deliveries, Reply(k) \/ Fault(k) \/ InvoicePaidThrows(k), Moved
      PROVE  FALSE
  BY <1>0, <1>2 DEF Reply, Fault, InvoicePaidThrows
<1>3. ASSUME NEW k \in Deliveries, NEW step, delivery[k] # Idle, Goto(k, step), Moved
      PROVE  /\ k = d /\ delivery[d] # Idle /\ e = delivery[d].event
             /\ delivery'[d].at = step /\ e \in Emitted /\ e \in Events
  BY <1>0, <1>3, GotoMoves, DeliveryBody DEF DeliveriesInv
<1>4. ASSUME NEW k \in Deliveries, Claim(k), Moved
      PROVE  e \in Emitted /\ delivery'[d].at \in {"status", "handle"}
  BY <1>3, <1>4 DEF Claim, At
<1>5. ASSUME NEW k \in Deliveries, ReadStatus(k), Moved
      PROVE  /\ e \in Emitted
             /\ \/ delivery'[d].at = "handle"
                \/ /\ delivery'[d].at = "reply" /\ Done(e)'
                   /\ webhookEvents'[e] = "completed"
  <2>1. /\ k = d /\ e \in Emitted /\ e \in Events /\ e = delivery[d].event
        /\ delivery'[d].at = IF webhookEvents[e] = "completed" THEN "reply" ELSE "handle"
    BY <1>3, <1>5 DEF ReadStatus, At
  <2>2. CASE webhookEvents[e] = "completed"
    <3>1. Done(e)' /\ webhookEvents'[e] = "completed"
      BY <1>0, <2>1, <2>2, DoneStays, CompletedStays DEF CompletedIsDone
    <3> QED BY <2>1, <2>2, <3>1
  <2> QED BY <2>1, <2>2
<1>6. ASSUME NEW k \in Deliveries, MarkCompleted(k), Moved
      PROVE  /\ e \in Emitted /\ delivery'[d].at = "reply" /\ Done(e)'
             /\ webhookEvents'[e] = "completed"
  <2>1. /\ k = d /\ e \in Emitted /\ e \in Events /\ e = delivery[d].event
        /\ delivery'[d].at = "reply" /\ delivery[d] # Idle /\ delivery[d].at = "mark"
    BY <1>3, <1>6 DEF MarkCompleted, At
  <2>2. webhookEvents'[e] = "completed"
    BY <1>0, <1>6, <2>1 DEF MarkCompleted
  <2>3. Done(e)'
    BY <1>0, <2>1, DoneStays DEF DeliveriesInv
  <2> QED BY <2>1, <2>2, <2>3
<1>7. ASSUME NEW k \in Deliveries, Handle(k), ~ InvoicePaidThrows(k), Moved
      PROVE  e \in Emitted /\ delivery'[d].at = "mark" /\ Done(e)'
  <2>1. HandlerDone(k) /\ delivery[k] # Idle
    BY <1>7, HandlerCommits
  <2>2. k = d /\ e = delivery[d].event /\ delivery'[d].at = "mark" /\ e \in Emitted
    BY <1>3, <1>7, <2>1 DEF HandlerDone
  <2>3. Done(e)'
    BY <1>7, <2>2, HandlerCommits
  <2> QED BY <2>2, <2>3
<1>8. ASSUME Emit \/ (\E plan \in Plans : SeedPlan(plan)) \/ (\E u \in Users : Spend(u))
               \/ UNCHANGED vars
      PROVE  ~ Moved
  BY <1>8 DEF Emit, SeedPlan, Spend, claimVars, webhookVars, vars
<1> QED BY <1>1, <1>2, <1>4, <1>5, <1>6, <1>7, <1>8 DEF WebhookNext, DeliveryStep

LEMMA ClaimStep ==
  ASSUME WebhookInv, [WebhookNext]_vars
  PROVE  ClaimInv'
<1>0. /\ WebhookTypeOK /\ DeliveriesInv /\ CompletedIsDone /\ AckedIsCompleted
      /\ WebhookTypeOK'
  BY WebhookTypeStep DEF WebhookInv, ClaimInv
<1>1. DeliveriesInv'
  <2> SUFFICES ASSUME NEW d \in Deliveries, delivery'[d] # Idle,
                      NEW e, e = delivery'[d].event
               PROVE  /\ e \in Emitted'
                      /\ delivery'[d].at \in {"mark", "reply"} => Done(e)'
                      /\ delivery'[d].at = "reply" => webhookEvents'[e] = "completed"
    BY DEF DeliveriesInv, Done, KeyUsed
  <2>1. CASE delivery'[d] = delivery[d]
    <3>1. /\ e \in Emitted /\ e \in Events
          /\ delivery[d].at \in {"mark", "reply"} => Done(e)
          /\ delivery[d].at = "reply" => webhookEvents[e] = "completed"
      BY <1>0, <2>1, DeliveryBody DEF DeliveriesInv
    <3> QED BY <1>0, <2>1, <3>1, DoneStays, CompletedStays
  <2>2. CASE delivery'[d] # delivery[d]
    <3>1. Emitted \subseteq Emitted'
      BY <1>0, CompletedStays
    <3> QED BY <2>2, <3>1, DeliveryMoves
  <2> QED BY <2>1, <2>2
<1>2. CompletedIsDone'
  <2> SUFFICES ASSUME NEW e \in Events, webhookEvents'[e] = "completed"
               PROVE  Done(e)'
    BY DEF CompletedIsDone
  <2>1. CASE webhookEvents[e] = "completed"
    BY <1>0, <2>1, DoneStays DEF CompletedIsDone
  <2>2. CASE webhookEvents[e] # "completed"
    <3>1. PICK d \in Deliveries : MarkCompleted(d) /\ delivery[d].event = e
      <4>1. CASE \E d \in Deliveries : Claim(d)
        BY <1>0, <2>2, <4>1 DEF Claim, WebhookTypeOK
      <4>2. CASE \E d \in Deliveries : MarkCompleted(d)
        BY <1>0, <2>2, <4>2 DEF MarkCompleted, WebhookTypeOK
      <4>3. CASE UNCHANGED webhookEvents
        BY <2>2, <4>3
      <4> QED BY <4>1, <4>2, <4>3
           DEF WebhookNext, Emit, Deliver, DeliveryStep, ReadStatus, Reply, Fault, SeedPlan,
               Spend, Handle, HandleCreditPack, HandleSubscriptionUpsert,
               HandleSubscriptionDeleted, HandleSubscriptionCheckout, HandleInvoicePaid,
               InvoicePaidThrows, HandlePaymentFailed, HandleOther, HandlerDone, claimVars,
               webhookVars, vars
    <3> QED BY <1>0, <3>1, DoneStays DEF DeliveriesInv, MarkCompleted, At
  <2> QED BY <2>1, <2>2
<1>3. AckedIsCompleted'
  <2>1. ASSUME NEW d \in Deliveries, Reply(d)
        PROVE  \A e \in acked' : webhookEvents[e] = "completed"
    BY <1>0, <2>1 DEF Reply, At, DeliveriesInv, AckedIsCompleted
  <2>2. (\E d \in Deliveries : Reply(d)) \/ UNCHANGED acked
    BY DEF WebhookNext, Emit, Deliver, DeliveryStep, Claim, ReadStatus, MarkCompleted, Fault,
           SeedPlan, Spend, Handle, HandleCreditPack, HandleSubscriptionUpsert,
           HandleSubscriptionDeleted, HandleSubscriptionCheckout, HandleInvoicePaid,
           InvoicePaidThrows, HandlePaymentFailed, HandleOther, HandlerDone, Goto,
           claimVars, webhookVars, vars
  <2>3. \A e \in acked' : webhookEvents[e] = "completed" /\ e \in Events
    BY <1>0, <2>1, <2>2 DEF AckedIsCompleted, WebhookTypeOK
  <2> QED BY <1>0, <2>3, CompletedStays DEF AckedIsCompleted
<1> QED BY <1>1, <1>2, <1>3 DEF ClaimInv

LEMMA InitWebhookInv == WebhookInit => WebhookInv
<1> SUFFICES ASSUME WebhookInit PROVE WebhookInv
  OBVIOUS
<1>1. CreditTypeOK /\ LedgerReconciles
  BY InitInv DEF WebhookInit, CreditInv
<1>2. Len(Emission) \in Nat
  BY WebhookAssumption
<1>3. BookTypeOK
  BY <1>2, WebhookAssumption DEF WebhookInit, BookTypeOK
<1>4. UserTypeOK
  BY WebhookAssumption DEF WebhookInit, UserTypeOK, Statuses
<1>5. ClaimInv
  BY DEF WebhookInit, ClaimInv, DeliveriesInv, CompletedIsDone, AckedIsCompleted
<1>6. PeriodIsGranted
  <2>1. \A e \in Events : Body[e].period \in 1..MaxPeriod /\ Body[e].user \in Users
    BY WebhookAssumption DEF EventBody, Periods
  <2> QED BY <2>1, WebhookAssumption DEF WebhookInit, PeriodIsGranted
<1>7. OwnCustomer
  BY DEF WebhookInit, OwnCustomer
<1> QED BY <1>1, <1>3, <1>4, <1>5, <1>6, <1>7, WebhookTypeParts DEF WebhookInv

LEMMA WebhookInvStep == WebhookInv /\ [WebhookNext]_vars => WebhookInv'
<1> SUFFICES ASSUME WebhookInv, [WebhookNext]_vars PROVE WebhookInv'
  OBVIOUS
<1> QED BY WebhookTypeStep, ClaimStep, PeriodStep, CustomerStep DEF WebhookInv

\* The strengthened invariant, from which the following theorems are read off.
THEOREM WebhookInvariant == WebhookSpec => []WebhookInv
  BY InitWebhookInv, WebhookInvStep, PTL DEF WebhookSpec

-----------------------------------------------------------------------------
(* What follows.                                                           *)

\* Every delivery, billing field and bucket stays well formed: a reset or a
\* spend between two queries of a handler makes no bucket negative.
THEOREM WebhookTypeCorrect == WebhookSpec => []WebhookTypeOK
<1>1. WebhookInv => WebhookTypeOK
  BY DEF WebhookInv
<1> QED BY WebhookInvariant, <1>1, PTL

\* Grants, renewals and cancellations are explained by the ledger.
THEOREM WebhookReconciles == WebhookSpec => []LedgerReconciles
<1>1. WebhookInv => LedgerReconciles
  BY DEF WebhookInv
<1> QED BY WebhookInvariant, <1>1, PTL

\* What Stripe was told is done has been committed, whatever crashed.
THEOREM AckedAlwaysApplied == WebhookSpec => []AckedIsApplied
<1>1. WebhookInv => AckedIsApplied
  BY DEF WebhookInv, ClaimInv, AckedIsCompleted, CompletedIsDone, Done, AckedIsApplied,
         WebhookTypeOK
<1> QED BY WebhookInvariant, <1>1, PTL

-----------------------------------------------------------------------------
(* Pack grants.                                                            *)

Bought(u) ==
  \E e \in Emitted :
    /\ Body[e].kind = "credit_pack" /\ Body[e].user = u
    /\ ~ KeyUsed(Body[e].key) /\ KeyUsed(Body[e].key)'
    /\ purchasedCredits'[u] = purchasedCredits[u] + Body[e].credits

PackGrantStep ==
  \A u \in Users : purchasedCredits'[u] > purchasedCredits[u] => Bought(u)

\* The grant of a pack raises one bucket, and only with an unused key.
LEMMA PackGrant ==
  ASSUME CreditTypeOK, NEW v \in Users, NEW amount \in Nat, NEW key \in Keys,
         GrantCredits(v, amount, "purchased", key),
         NEW u \in Users, purchasedCredits'[u] > purchasedCredits[u]
  PROVE  /\ u = v /\ ~ KeyUsed(key) /\ KeyUsed(key)'
         /\ purchasedCredits'[u] = purchasedCredits[u] + amount
<1>1. ~ KeyUsed(key)
  BY DEF GrantCredits, creditVars, CreditTypeOK
<1>2. /\ purchasedCredits' = [purchasedCredits EXCEPT ![v] = @ + amount]
      /\ idempotencyKeys' = idempotencyKeys \cup ({v} \X ({key} \ {NoKey}))
  BY <1>1 DEF GrantCredits
<1>3. <<v, key>> \in idempotencyKeys'
  BY <1>2, CreditsAssumption
<1>4. KeyUsed(key)'
  BY <1>3 DEF KeyUsed
<1> QED BY <1>1, <1>2, <1>4 DEF CreditTypeOK

\* Every other step leaves the bought credits alone or spends one.
LEMMA PackActions ==
  ASSUME WebhookTypeOK, [WebhookNext]_vars
  PROVE  \/ \E d \in Deliveries : HandleCreditPack(d)
         \/ \A u \in Users : purchasedCredits'[u] <= purchasedCredits[u]
<1>0. purchasedCredits \in [Users -> Nat] /\ users \subseteq Users
  BY DEF WebhookTypeOK, CreditTypeOK
<1>1. CASE \E u \in Users : Spend(u)
  BY <1>0, <1>1 DEF Spend, SpendCreditOn
<1>2. CASE UNCHANGED purchasedCredits
  BY <1>0, <1>2
<1>3. \/ \E u \in Users : Spend(u)
      \/ \E d \in Deliveries : HandleCreditPack(d)
      \/ UNCHANGED purchasedCredits
  BY DEF WebhookNext, Emit, Deliver, DeliveryStep, Claim, ReadStatus, Handle,
         HandleSubscriptionCheckout, HandleSubscriptionUpsert, HandleSubscriptionDeleted,
         HandleInvoicePaid, ResetSubscriptionCredits, InvoicePaidThrows,
         HandlePaymentFailed, HandleOther, MarkCompleted, Reply, Fault, SeedPlan, vars,
         creditVars
<1> QED BY <1>1, <1>2, <1>3

\* Credits are added to a pack bucket for a pack Stripe sold to that user, and
\* its key is used up with the grant.
THEOREM PackGrantsAlwaysBought == WebhookSpec => PackGrantsAreBought
<1>1. WebhookInv /\ [WebhookNext]_vars => [PackGrantStep]_vars
  <2> SUFFICES ASSUME WebhookInv, [WebhookNext]_vars,
                      NEW u \in Users, purchasedCredits'[u] > purchasedCredits[u]
               PROVE  Bought(u)
    BY DEF PackGrantStep
  <2>0. WebhookTypeOK /\ CreditTypeOK /\ DeliveriesInv
    BY DEF WebhookInv, WebhookTypeOK, ClaimInv
  <2>1. purchasedCredits[u] \in Nat /\ purchasedCredits'[u] \in Nat
    BY <2>0, WebhookInvStep DEF WebhookInv, WebhookTypeOK, CreditTypeOK
  <2>2. PICK d \in Deliveries : HandleCreditPack(d)
    BY <2>0, <2>1, PackActions
  <2>3. delivery[d] # Idle
    BY <2>2 DEF HandleCreditPack, Handles, At
  <2>4. PICK e \in Emitted : e = delivery[d].event
    BY <2>0, <2>3 DEF DeliveriesInv
  <2> DEFINE b == Body[e]
  <2>5. b \in EventBody
    BY <2>0, <2>3, <2>4, DeliveryBody
  <2>6. /\ b.kind = "credit_pack"
        /\ GrantCredits(b.user, b.credits, "purchased", b.key)
    BY <2>2, <2>4 DEF HandleCreditPack, Handles
  <2>7. b.user \in Users /\ b.credits \in Nat /\ b.key \in Keys
    BY <2>5 DEF EventBody
  <2>8. /\ u = b.user /\ ~ KeyUsed(b.key) /\ KeyUsed(b.key)'
        /\ purchasedCredits'[u] = purchasedCredits[u] + b.credits
    BY <2>0, <2>6, <2>7, PackGrant
  <2> QED BY <2>6, <2>8 DEF Bought
<1> QED BY WebhookInvariant, <1>1, PTL DEF WebhookSpec, PackGrantsAreBought, PackGrantStep, Bought

-----------------------------------------------------------------------------
(* Nothing is granted twice.                                               *)

\* A pack that was granted has its key used.
PacksOnce ==
  \A e \in Events : Body[e].kind = "credit_pack" =>
    /\ applied[Effect[e]] <= 1
    /\ applied[Effect[e]] = 1 => KeyUsed(Body[e].key)

\* An account is in the period that it was granted.
PeriodsOnce ==
  \A e \in Events : Body[e].kind = "invoice_paid" =>
    /\ applied[Effect[e]] <= 1
    /\ applied[Effect[e]] = 1 => creditsPeriodEnd[Body[e].user] = Body[e].period

\* Stripe tells of one billing period of each user.
OnePeriodEach ==
  \A e, f \in Events :
    /\ Body[e].kind = "invoice_paid" /\ Body[f].kind = "invoice_paid"
    /\ Body[e].user = Body[f].user
    => Body[e].period = Body[f].period

\* What counting an event does to the count of a fact.
LEMMA CountMoves ==
  ASSUME WebhookTypeOK, NEW e \in Events, Count(e), NEW f \in Events
  PROVE  /\ applied[Effect[f]] \in Nat
         /\ Effect[f] # Effect[e] => applied'[Effect[f]] = applied[Effect[f]]
         /\ Effect[f] = Effect[e] /\ applied[Effect[f]] = 0 => applied'[Effect[f]] = 1
<1>1. Effect[e] \in Effects /\ Effect[f] \in Effects
  BY DEF Effects
<1>2. applied \in [Effects -> 0..MaxApplied] /\ MaxApplied \in Nat \ {0}
  BY WebhookAssumption DEF WebhookTypeOK
<1>3. applied[Effect[f]] \in 0..MaxApplied
  BY <1>1, <1>2
<1> QED BY <1>1, <1>2, <1>3 DEF Count

\* A step counts an event whose handler it runs, and only for a reason.
LEMMA WhatCounts ==
  ASSUME WebhookTypeOK, OwnCustomer, [WebhookNext]_vars
  PROVE  \/ UNCHANGED <<applied, creditsPeriodEnd>>
         \/ \E e \in Events :
              /\ Count(e)
              /\ \/ /\ Body[e].kind = "credit_pack" /\ ~ KeyUsed(Body[e].key)
                    /\ KeyUsed(Body[e].key)' /\ UNCHANGED creditsPeriodEnd
                 \/ /\ Body[e].kind = "invoice_paid"
                    /\ creditsPeriodEnd[Body[e].user] # Body[e].period
                    /\ creditsPeriodEnd' =
                         [creditsPeriodEnd EXCEPT ![Body[e].user] = Body[e].period]
                 \/ /\ Body[e].kind = "subscription_deleted"
                    /\ UNCHANGED creditsPeriodEnd
<1>1. ASSUME NEW d \in Deliveries, HandleCreditPack(d), NEW e, e = delivery[d].event,
             ~ UNCHANGED applied
      PROVE  /\ e \in Events /\ Count(e) /\ Body[e].kind = "credit_pack"
             /\ ~ KeyUsed(Body[e].key) /\ KeyUsed(Body[e].key)'
             /\ UNCHANGED creditsPeriodEnd
  <2>1. /\ e \in Events /\ Body[e].kind = "credit_pack"
        /\ Body[e].user \in Users /\ Body[e].key \in Keys
    BY <1>1, DeliveryBody DEF HandleCreditPack, Handles, At, EventBody
  <2>2. ~ KeyUsed(Body[e].key) /\ Count(e) /\ UNCHANGED creditsPeriodEnd
    BY <1>1 DEF HandleCreditPack, userVars
  <2>3. GrantCredits(Body[e].user, Body[e].credits, "purchased", Body[e].key)
    BY <1>1 DEF HandleCreditPack
  <2>4. idempotencyKeys' =
          idempotencyKeys \cup ({Body[e].user} \X ({Body[e].key} \ {NoKey}))
    BY <2>2, <2>3 DEF GrantCredits
  <2>5. <<Body[e].user, Body[e].key>> \in idempotencyKeys'
    BY <2>1, <2>4, CreditsAssumption
  <2>6. KeyUsed(Body[e].key)'
    BY <2>1, <2>5 DEF KeyUsed
  <2> QED BY <2>1, <2>2, <2>6
<1>2. ASSUME NEW d \in Deliveries, HandleInvoicePaid(d), NEW e, e = delivery[d].event,
             ~ UNCHANGED <<applied, creditsPeriodEnd>>
      PROVE  /\ e \in Events /\ Count(e) /\ Body[e].kind = "invoice_paid"
             /\ creditsPeriodEnd[Body[e].user] # Body[e].period
             /\ creditsPeriodEnd' =
                  [creditsPeriodEnd EXCEPT ![Body[e].user] = Body[e].period]
  <2>1. e \in Events /\ Body[e].kind = "invoice_paid"
    BY <1>2, DeliveryBody DEF HandleInvoicePaid, Handles, At
  <2>2. PICK u \in UsersOf(Body[e].customer) :
          /\ ~ PeriodGranted(u, Body[e]) /\ Count(e)
          /\ creditsPeriodEnd' = [creditsPeriodEnd EXCEPT ![u] = Body[e].period]
    BY <1>2 DEF HandleInvoicePaid
  <2>3. u = Body[e].user
    BY <2>1, NamedUser
  <2> QED BY <2>1, <2>2, <2>3 DEF PeriodGranted
<1>3. ASSUME NEW d \in Deliveries, HandleSubscriptionDeleted(d),
             NEW e, e = delivery[d].event
      PROVE  /\ UNCHANGED creditsPeriodEnd
             /\ \/ UNCHANGED applied
                \/ e \in Events /\ Count(e) /\ Body[e].kind = "subscription_deleted"
  BY <1>3, DeliveryBody DEF HandleSubscriptionDeleted, Handles, At
<1>4. \/ \E d \in Deliveries : \/ HandleCreditPack(d) \/ HandleInvoicePaid(d)
                               \/ HandleSubscriptionDeleted(d)
      \/ UNCHANGED <<applied, creditsPeriodEnd>>
  BY DEF WebhookNext, Emit, Deliver, DeliveryStep, Claim, ReadStatus, MarkCompleted, Reply,
         Fault, SeedPlan, Spend, Handle, HandleSubscriptionUpsert,
         HandleSubscriptionCheckout, InvoicePaidThrows, HandlePaymentFailed, HandleOther,
         userVars, webhookVars, vars
<1>5. ASSUME NEW d \in Deliveries, HandleCreditPack(d)
      PROVE  UNCHANGED creditsPeriodEnd
  BY <1>5 DEF HandleCreditPack, userVars
<1> QED BY <1>1, <1>2, <1>3, <1>4, <1>5

LEMMA PacksStep ==
  ASSUME WebhookTypeOK, OwnCustomer, PacksOnce, [WebhookNext]_vars
  PROVE  PacksOnce'
<1> SUFFICES ASSUME NEW f \in Events, Body[f].kind = "credit_pack"
             PROVE  /\ applied'[Effect[f]] <= 1
                    /\ applied'[Effect[f]] = 1 => KeyUsed(Body[f].key)'
  BY DEF PacksOnce
<1>1. /\ applied[Effect[f]] <= 1
      /\ applied[Effect[f]] = 1 => KeyUsed(Body[f].key)
      /\ KeyUsed(Body[f].key) => KeyUsed(Body[f].key)'
  BY KeysGrow DEF PacksOnce, KeyUsed
<1>2. CASE UNCHANGED applied
  BY <1>1, <1>2
<1>3. ASSUME NEW e \in Events, Count(e), Effect[f] # Effect[e]
      PROVE  UNCHANGED applied[Effect[f]]
  BY <1>3, CountMoves
<1>4. ASSUME NEW e \in Events, Count(e), Effect[f] = Effect[e], ~ KeyUsed(Body[e].key),
             KeyUsed(Body[e].key)'
      PROVE  applied'[Effect[f]] = 1 /\ KeyUsed(Body[f].key)'
  <2>1. Body[f].key = Body[e].key
    BY <1>4, FactAssumption
  <2>2. applied[Effect[f]] = 0
    BY <1>1, <1>4, <2>1, CountMoves
  <2>3. applied'[Effect[f]] = 1
    BY <1>4, <2>2, CountMoves
  <2> QED BY <1>4, <2>1, <2>3
<1>5. \A e \in Events : Effect[f] = Effect[e] => Body[e].kind = "credit_pack"
  BY FactAssumption
<1> QED BY <1>1, <1>2, <1>3, <1>4, <1>5, WhatCounts

LEMMA PeriodsStep ==
  ASSUME OnePeriodEach, WebhookTypeOK, OwnCustomer, PeriodsOnce, [WebhookNext]_vars
  PROVE  PeriodsOnce'
<1> SUFFICES ASSUME NEW f \in Events, Body[f].kind = "invoice_paid"
             PROVE  /\ applied'[Effect[f]] <= 1
                    /\ applied'[Effect[f]] = 1
                         => creditsPeriodEnd'[Body[f].user] = Body[f].period
  BY DEF PeriodsOnce
<1>0. Body[f].user \in Users /\ creditsPeriodEnd \in [Users -> Periods \cup {0}]
  BY WebhookAssumption DEF EventBody, WebhookTypeOK
<1>1. /\ applied[Effect[f]] <= 1
      /\ applied[Effect[f]] = 1 => creditsPeriodEnd[Body[f].user] = Body[f].period
  BY DEF PeriodsOnce
<1>2. CASE UNCHANGED <<applied, creditsPeriodEnd>>
  BY <1>1, <1>2
<1>3. ASSUME NEW e \in Events, Count(e), Effect[f] # Effect[e]
      PROVE  applied'[Effect[f]] = applied[Effect[f]]
  BY <1>3, CountMoves
<1>4. ASSUME NEW e \in Events, Body[e].kind = "invoice_paid",
             creditsPeriodEnd' = [creditsPeriodEnd EXCEPT ![Body[e].user] = Body[e].period]
      PROVE  \/ creditsPeriodEnd'[Body[f].user] = creditsPeriodEnd[Body[f].user]
             \/ creditsPeriodEnd'[Body[f].user] = Body[f].period
  <2>1. CASE Body[f].user = Body[e].user
    <3>1. Body[f].period = Body[e].period
      BY <1>4, <2>1 DEF OnePeriodEach
    <3> QED BY <1>0, <1>4, <2>1, <3>1
  <2>2. CASE Body[f].user # Body[e].user
    BY <1>0, <1>4, <2>2
  <2> QED BY <2>1, <2>2
<1>5. ASSUME NEW e \in Events, Count(e), Effect[f] = Effect[e],
             creditsPeriodEnd[Body[e].user] # Body[e].period,
             creditsPeriodEnd' = [creditsPeriodEnd EXCEPT ![Body[e].user] = Body[e].period]
      PROVE  applied'[Effect[f]] = 1 /\ creditsPeriodEnd'[Body[f].user] = Body[f].period
  <2>1. Body[f].user = Body[e].user /\ Body[f].period = Body[e].period
    BY <1>5, FactAssumption
  <2>2. applied[Effect[f]] = 0
    BY <1>1, <1>5, <2>1, CountMoves
  <2>3. applied'[Effect[f]] = 1
    BY <1>5, <2>2, CountMoves
  <2> QED BY <1>0, <1>5, <2>1, <2>3
<1>6. \A e \in Events : Effect[f] = Effect[e] => Body[e].kind = "invoice_paid"
  BY FactAssumption
<1> QED BY <1>1, <1>2, <1>3, <1>4, <1>5, <1>6, WhatCounts

LEMMA NothingCounted ==
  ASSUME WebhookInit, NEW e \in Events
  PROVE  applied[Effect[e]] = 0
  BY DEF WebhookInit, Effects

\* A pack is granted once, however often its session is reported, under
\* whatever event ids and with whatever crashes in between.
THEOREM PacksGrantedOnce == WebhookSpec => []PacksOnce
<1>1. WebhookInit => PacksOnce
  BY NothingCounted DEF PacksOnce
<1>2. WebhookInv /\ PacksOnce /\ [WebhookNext]_vars => PacksOnce'
  BY PacksStep DEF WebhookInv
<1> QED BY WebhookInvariant, <1>1, <1>2, PTL DEF WebhookSpec

\* So is the billing period of an account that has no other one. (With a second
\* period it may not be, see AppliedOnce.)
THEOREM GrantedAlwaysOnce ==
  ASSUME OnePeriodEach
  PROVE  WebhookSpec => []GrantedOnce
<1>1. WebhookInit => PeriodsOnce
  BY NothingCounted DEF PeriodsOnce
<1>2. WebhookInv /\ PeriodsOnce /\ [WebhookNext]_vars => PeriodsOnce'
  BY PeriodsStep DEF WebhookInv
<1>3. PacksOnce /\ PeriodsOnce => GrantedOnce
  BY DEF PacksOnce, PeriodsOnce, GrantedOnce
<1> QED BY WebhookInvariant, PacksGrantedOnce, <1>1, <1>2, <1>3, PTL DEF WebhookSpec
=============================================================================
