-------------------------- MODULE MCStripeWebhook --------------------------
(* Small instances of StripeWebhook for TLC: one customer's history with    *)
(* Stripe, chosen by the constant Story.                                    *)
EXTENDS StripeWebhook, TLC

CONSTANTS u1, u2, c1, c2, pro, s1, Story

Event(kind, customer, period, status) ==
  [kind |-> kind, user |-> u1, customer |-> customer, plan |-> pro, period |-> period,
   credits |-> 2, key |-> s1, status |-> status]

Pack == Event("credit_pack", c1, 1, "incomplete")
Checkout == Event("subscription_checkout", c1, 1, "incomplete")
Paid(n) == Event("invoice_paid", c1, n, "active")
Failed == Event("payment_failed", c1, 1, "past_due")
Updated(status) == Event("subscription_updated", c1, 1, status)
Deleted == Event("subscription_deleted", c1, 1, "incomplete")
Other == Event("other", c1, 1, "incomplete")

\* "grants": a pack and a subscription are bought and canceled again; Stripe
\*    fires the first invoice twice.
\* "first": a checkout for the customer that a concurrent checkout may have
\*    overwritten, its first invoice and what else arrives with them.
\* "renewal": two billing periods.
\* "dunning": a payment fails and is repeated.
Stories ==
  [grants |-> <<Pack, Paid(1), Paid(1), Deleted>>,
   first |-> <<Checkout, Paid(1), Updated("active"), Failed, Other>>,
   renewal |-> <<Paid(1), Paid(2)>>,
   dunning |-> <<Failed, Paid(1)>>]

MCEvents == 1..Len(Stories[Story])
MCBody == Stories[Story]
MCEmission == [n \in MCEvents |-> n]
MCEffect == [e \in MCEvents |-> IF MCBody[e].kind = "invoice_paid"
                                THEN <<"period", MCBody[e].period>>
                                ELSE <<"event", e>>]
MCCustomersOf == [u \in Users |-> IF u = u1 THEN {c1, c2} ELSE {}]

MCCredits == [plan \in Plans |-> 2]

\* Deliveries are interchangeable (safety runs only).
MCSymmetry == Permutations(Deliveries)
=============================================================================
