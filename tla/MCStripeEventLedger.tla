------------------------- MODULE MCStripeEventLedger -------------------------
(* Small histories for the Stripe billing ledger: one workspace with its    *)
(* subscription, a second one, and one of the demo.                         *)
EXTENDS StripeEventLedger

CONSTANTS w1, w2, demo

Obj(type, n) == <<type, n>>
Cus(n) == Obj("customer", n)
Sub(n) == Obj("subscription", n)
AllObjects ==
    {Cus(1), Cus(2), Sub(1), Sub(2)}
    \cup ({"checkout_session", "payment_intent", "invoice", "charge"} \X {1})
    \cup {Obj("checkout_session", 2), Obj("tax_id", 1)}

\* A payload without candidates of its own; a checkout names its workspace.
Event(id, at, type, outcome, refs) ==
    [id |-> id, at |-> at, type |-> type, outcome |-> outcome,
     candidate |-> None, conflict |-> FALSE, refs |-> refs]
Checkout(id, at, w, c, s, n) ==
    [Event(id, at, "checkout.session.completed", "active",
           {Cus(c), Sub(s), Obj("checkout_session", n)}) EXCEPT !.candidate = w]
Start == Checkout(1, 0, w1, 1, 1, 1)
Paid(id, at) == Event(id, at, "invoice.paid", None, {Cus(1), Sub(1)})
Ended(id, at) == Event(id, at, "customer.subscription.deleted", None, {Cus(1), Sub(1)})
PastDue(id, at) ==
    Event(id, at, "customer.subscription.updated", "past_due", {Cus(1), Sub(1)})

\* A dunned subscription that ends, with a payment made after its end.
Ending == {Start, PastDue(2, 2), Ended(3, 4), Paid(4, 6)}
\* Two events in one second, and a new subscription after the end.
Restart == {Start, PastDue(2, 2), Ended(3, 3), Checkout(4, 6, w1, 1, 2, 2)}
\* A reversal that only its charge places, before the one that names it.
Reversal ==
    {Start, Event(2, 2, "payment_intent.succeeded", None,
                  {Cus(1), Obj("payment_intent", 1)}),
     Event(3, 3, "refund.created", None, {Obj("charge", 1)}),
     Event(4, 4, "charge.refunded", None,
           {Cus(1), Obj("payment_intent", 1), Obj("charge", 1)})}
\* Another workspace's checkout names the customer of the first.
Tenants ==
    {Start, Checkout(2, 1, w2, 2, 2, 2), Checkout(3, 4, w2, 1, 1, 1)}
\* An id comes back as another event, of another tenant.
Collision == {Start, Paid(2, 2), Checkout(2, 2, w2, 2, 2, 2)}
\* The demo checks out, before an invoice of its own.
Demonstration ==
    {Checkout(1, 1, demo, 1, 1, 1), Paid(2, 3),
     Event(3, 4, "invoice.updated", None, {Cus(1), Sub(1)})}
\* Tax ids, two of them in one second.
Taxes ==
    {Start, Event(2, 2, "customer.tax_id.created", None,
                  {Cus(1), Obj("tax_id", 1)}),
     Event(3, 3, "customer.tax_id.updated", None, {Cus(1), Obj("tax_id", 1)}),
     Event(4, 4, "customer.tax_id.deleted", None, {Cus(1), Obj("tax_id", 1)})}

SmallHistories ==
    {Ending, Restart, Reversal, Tenants, Collision, Demonstration, Taxes}
=============================================================================
