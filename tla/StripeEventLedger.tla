-------------------------- MODULE StripeEventLedger --------------------------
(***************************************************************************)
(* The ledger that turns signed Stripe events into the billing state of a  *)
(* workspace.  Stripe emits events and delivers each any number of times,  *)
(* in any order; the event transaction places an event at a workspace by   *)
(* the objects bound to it and projects it, or ignores it, or freezes the  *)
(* stream until an operator commits a snapshot read from Stripe.           *)
(***************************************************************************)
EXTENDS Integers, FiniteSets

CONSTANTS Workspaces,   \* workspaces
          Demo,         \* those of the demo, which no event may change
          Ids,          \* Stripe event ids
          Objects,      \* Stripe objects, pairs <<type, id>>
          Histories,    \* what Stripe may emit: sets of deliveries
          PerSecond,    \* instants of the model in a second of Stripe's clock
          Freshness,    \* instants after which a snapshot is too old
          MaxTime,      \* bound: the last instant
          MaxActs,      \* bound: snapshots read, administrations, gate switches
          Governed,     \* bound: the workspaces an administrator writes
          None          \* no value

CheckoutTypes == {"checkout.session.completed",
                  "checkout.session.async_payment_succeeded",
                  "checkout.session.async_payment_failed"}
PaymentTypes == {"payment_intent.processing", "payment_intent.succeeded",
                 "payment_intent.payment_failed"}
InvoiceTypes == {"invoice.paid", "invoice.updated", "invoice.payment_failed"}
SubscriptionTypes == {"customer.subscription.created",
                      "customer.subscription.updated",
                      "customer.subscription.resumed",
                      "customer.subscription.paused",
                      "customer.subscription.deleted"}
ReversalTypes == {"charge.refunded", "refund.created", "refund.updated",
                  "refund.failed", "charge.dispute.created"}
TaxTypes == {"customer.tax_id.created", "customer.tax_id.updated",
             "customer.tax_id.deleted"}
EventTypes == UNION {CheckoutTypes, PaymentTypes, InvoiceTypes,
                     SubscriptionTypes, ReversalTypes, TaxTypes}

Statuses == {"none", "pending_sepa_mandate", "active", "past_due",
             "payment_failed", "suspended", "manual_suspended", "cancelled"}
Accesses == {"active", "archived_readonly"}

\* The statuses a projection may hold.
Projectable == Statuses \ {"none", "manual_suspended"}

\* One signed payload: "outcome" is what the object in it says (a completed checkout
\* was paid or not), "conflict" that its own workspace candidates disagree.  A
\* different payload under the same id differs in what is fingerprinted.
Deliveries ==
    {d \in [id : Ids, at : 0..MaxTime, type : EventTypes,
            outcome : Projectable \cup {None}, candidate : Workspaces \cup {None},
            conflict : BOOLEAN, refs : SUBSET Objects] :
        d.type = "checkout.session.completed" => d.outcome # None}

\* The workspace and the customer an object is bound to.
Owners == [workspace : Workspaces, customer : Objects]

ASSUME TimeAssumption ==
    /\ PerSecond \in Nat \ {0} /\ MaxTime \in Nat
    /\ Freshness \in Nat /\ MaxActs \in Nat
ASSUME HistoryAssumption ==
    /\ Histories \subseteq SUBSET Deliveries
    /\ Demo \subseteq Workspaces /\ Governed \subseteq Workspaces
    /\ None \notin Workspaces \cup Objects \cup Statuses \cup Owners

Streams == {"lifecycle", "tax"}
Keys == Workspaces \X Streams

VARIABLES
    now,         \* the instant; what Stripe emitted so far lies before it
    history,     \* the events Stripe emits in this behaviour
    enabled,     \* the third key of the gate: project, or only capture
    workspace,   \* the billing columns of each workspace
    stream,      \* the stream row of each workspace and stream
    binding,     \* the workspace and customer a Stripe object belongs to
    event,       \* the event rows
    receipts,    \* the rows of committed reconciliations
    attempt,     \* what the operator of a stream has in hand
    acts,        \* what operators and administrators did so far
    touched      \* history: an administrator wrote the status since a snapshot

vars == <<now, history, enabled, workspace, stream, binding, event, receipts,
          attempt, acts, touched>>
ledgerVars == <<workspace, stream, binding, event, receipts>>
operatorVars == <<attempt, acts>>

Idle == [phase |-> "idle"]
Absent == [state |-> "absent"]

Init ==
    /\ now = 0
    /\ history \in Histories
    /\ enabled = TRUE
    /\ workspace = [w \in Workspaces |->
          [customer |-> None, subscription |-> None,
           status |-> "none", access |-> "active"]]
    /\ stream = [k \in Keys |->
          [state |-> "absent", last |-> -1, subscription |-> None,
           terminal |-> FALSE, revision |-> 0]]
    /\ binding = [o \in Objects |-> None]
    /\ event = [e \in Ids |-> Absent]
    /\ receipts = {}
    /\ attempt = [k \in Keys |-> Idle]
    /\ acts = 0
    /\ touched = [w \in Workspaces |-> FALSE]

-----------------------------------------------------------------------------
(* What a payload says                                                      *)

Second(t) == t \div PerSecond
Created(d) == Second(d.at)

Mode(d) ==
    CASE d.type \in CheckoutTypes -> "checkout"
      [] d.type \in PaymentTypes  -> "customer_transaction"
      [] d.type \in ReversalTypes -> "reversal"
      [] d.type \in TaxTypes      -> "tax"
      [] OTHER                    -> "customer_subscription"

StreamOf(d) == IF Mode(d) = "tax" THEN "tax" ELSE "lifecycle"

\* The object of a type an event refers to.
Ref(d, type) ==
    LET found == {o \in d.refs : o[1] = type}
    IN  IF found = {} THEN None ELSE CHOOSE o \in found : TRUE
RefTypes(d) == {o[1] : o \in d.refs}

\* The types of objects that place an event of a mode, and those it must name.
AnchorTypes ==
    [checkout |-> {"customer", "subscription", "checkout_session",
                   "payment_intent"},
     customer_transaction |-> {"customer", "payment_intent"},
     customer_subscription |-> {"customer", "subscription"},
     reversal |-> {"customer", "payment_intent", "charge", "refund", "dispute"},
     tax |-> {"customer", "tax_id"}]
RequiredTypes ==
    [checkout |-> {"checkout_session", "customer"},
     customer_transaction |-> {"customer", "payment_intent"},
     customer_subscription |-> {"customer", "subscription"},
     reversal |-> {},
     tax |-> {"customer", "tax_id"}]

\* The status and the access a payload projects; None leaves the column alone.
ProjectedStatus(d) ==
    CASE d.type = "customer.subscription.deleted" -> "cancelled"
      [] d.type \in {"payment_intent.succeeded", "invoice.paid",
                     "checkout.session.async_payment_succeeded"} -> "active"
      [] d.type = "payment_intent.processing" -> "pending_sepa_mandate"
      [] d.type \in {"checkout.session.async_payment_failed",
                     "payment_intent.payment_failed"} -> "payment_failed"
      [] d.type \in ReversalTypes \cup TaxTypes \cup {"invoice.updated"} -> None
      [] OTHER -> d.outcome

ProjectedAccess(d) ==
    CASE d.type \in {"payment_intent.succeeded", "invoice.paid",
                     "checkout.session.async_payment_succeeded"} -> "active"
      [] d.type = "customer.subscription.deleted" -> "archived_readonly"
      [] d.type \in SubscriptionTypes /\ d.outcome = "cancelled"
            -> "archived_readonly"
      [] OTHER -> None

\* Payments and reversals say nothing of a subscription, whatever they refer to.
ProjectedSubscription(d) ==
    IF Mode(d) \in {"checkout", "customer_subscription"}
    THEN Ref(d, "subscription") ELSE None

\* Mutant of Or: the coalesce forgotten.
Overwritten(value, old) == value

\* A column the projection holds, or its old value.
Or(value, old) == IF value = None THEN old ELSE value

\* The projection of a row: a manual suspension keeps its status and access.
Written(row, status, access, customer, subscription) ==
    LET manual == row.status = "manual_suspended" IN
    [customer |-> Or(customer, row.customer),
     subscription |-> Or(subscription, row.subscription),
     status |-> IF manual THEN row.status ELSE Or(status, row.status),
     access |-> IF manual THEN row.access ELSE Or(access, row.access)]

\* Fail closed: suspended and read-only, unless by hand or of the demo.
Closed(w, row) ==
    IF w \in Demo \/ row.status = "manual_suspended" THEN row
    ELSE [row EXCEPT !.status = "suspended", !.access = "archived_readonly"]

-----------------------------------------------------------------------------
(* Placing an event at a workspace                                          *)

Pending(e) == event[e].state \in {"unresolved", "reconciliation_needed"}

BoundTo(w) == {o \in Objects : binding[o] # None /\ binding[o].workspace = w}

\* The event does not even name what its mode is placed by.
Missing(d) ==
    \/ ~ RequiredTypes[Mode(d)] \subseteq RefTypes(d)
    \/ Mode(d) = "reversal" /\ RefTypes(d) \cap AnchorTypes.reversal = {}

Candidates(d) ==
    {w \in Workspaces :
        \/ \E o \in d.refs \cap BoundTo(w) : o[1] \in AnchorTypes[Mode(d)]
        \/ workspace[w].customer \in d.refs
        \/ Mode(d) = "customer_subscription"
           /\ workspace[w].subscription \in d.refs
        \/ Mode(d) = "checkout" /\ d.candidate = w}

\* Its anchors, or its own candidates, name more than one workspace.
Contradicts(d) ==
    \/ d.conflict
    \/ Cardinality(Candidates(d)) > 1
    \/ Candidates(d) # {} /\ d.candidate \notin Candidates(d) \cup {None}

\* The row it is placed at belongs to another customer or subscription.
Mismatches(d, w) ==
    \/ /\ Ref(d, "customer") \notin {None, workspace[w].customer}
       /\ ~ (Mode(d) = "checkout" /\ workspace[w].customer = None)
    \/ /\ Mode(d) = "customer_subscription"
       /\ workspace[w].subscription \notin {None, Ref(d, "subscription")}

\* Every workspace the old or the new payload of a reused id leads to.
Touching(old, d) ==
    LET refs == old.delivery.refs \cup d.refs IN
    {w \in Workspaces :
        \/ w \in {old.workspace, old.delivery.candidate, d.candidate}
        \/ refs \cap BoundTo(w) # {}
        \/ workspace[w].customer \in refs
        \/ workspace[w].subscription \in refs}

\* An earlier event nobody placed yet may be this workspace's.
PriorPending(d, w) ==
    \E e \in Ids \ {d.id} :
        /\ Pending(e)
        /\ StreamOf(event[e].delivery) = StreamOf(d)
        /\ \/ w \in {event[e].workspace, event[e].delivery.candidate}
           \/ event[e].delivery.refs
              \cap (d.refs \cup {workspace[w].customer} \cup BoundTo(w)) # {}

\* The stream row, made if there is none: only the first signed checkout of a
\* pristine workspace starts in sync.
Current(d, w) ==
    LET s == stream[<<w, StreamOf(d)>>]
        pristine == /\ enabled /\ Mode(d) = "checkout"
                    /\ workspace[w].customer = None
                    /\ workspace[w].subscription = None
                    /\ BoundTo(w) = {}
    IN  IF s.state # "absent" THEN s
        ELSE [s EXCEPT !.state = IF pristine THEN "in_sync"
                                 ELSE "reconciliation_needed",
                       !.subscription = Ref(d, "subscription")]

NewSubscription(d, s) ==
    d.type \in CheckoutTypes
    /\ Ref(d, "subscription") \notin {None, s.subscription}

Held(d, w) ==
    LET s == Current(d, w) IN
    ~ enabled \/ s.state = "reconciliation_needed" \/ PriorPending(d, w)

Stale(d, w) == Created(d) < Current(d, w).last

\* Mutants of Disputed: without the end of a subscription; without the second.
DisputedInOneSecond(d, w) == Created(d) = Current(d, w).last

DisputedByItsEnd(d, w) ==
    LET s == Current(d, w) IN
    /\ StreamOf(d) = "lifecycle" /\ s.terminal
    /\ ProjectedStatus(d) = "active" /\ ~ NewSubscription(d, s)

\* An event of the same second, or a payment after the end of a subscription.
Disputed(d, w) ==
    LET s == Current(d, w) IN
    \/ Created(d) = s.last
    \/ /\ StreamOf(d) = "lifecycle" /\ s.terminal
       /\ ProjectedStatus(d) = "active" /\ ~ NewSubscription(d, s)

EffectiveCustomer(d, w) == Or(Ref(d, "customer"), workspace[w].customer)

\* A stream row cannot be made without a customer.
HasRow(d, w) ==
    EffectiveCustomer(d, w) # None \/ stream[<<w, StreamOf(d)>>].state # "absent"

Owner(w, customer) == [workspace |-> w, customer |-> customer]

\* Mutant of Bindable: a binding to another workspace is overwritten.
BindableAnyway(objects, w, customer) == TRUE

\* No object is bound elsewhere; otherwise the transaction is rolled back.
Bindable(objects, w, customer) ==
    \A o \in objects : binding[o] \in {None, Owner(w, customer)}

Bind(objects, w, customer) ==
    binding' = [o \in Objects |-> IF o \in objects THEN Owner(w, customer)
                                  ELSE binding[o]]

-----------------------------------------------------------------------------
(* The event transaction                                                    *)

Arrives(d) == d \in history /\ d.at <= now
IsNew(d) == Arrives(d) /\ event[d.id].state = "absent"
IsPlaced(d, w) ==
    /\ IsNew(d) /\ ~ Missing(d) /\ ~ Contradicts(d)
    /\ Candidates(d) = {w}

Store(d, state, w) ==
    event' = [event EXCEPT ![d.id] =
        [state |-> state, workspace |-> w, delivery |-> d]]

\* Mark one stream of some workspaces, and close them if it is the lifecycle.
Freeze(where, s) ==
    /\ stream' = [k \in Keys |->
          IF k[1] \in where /\ k[2] = s /\ workspace[k[1]].customer # None
          THEN [stream[k] EXCEPT
                  !.state = "reconciliation_needed",
                  !.subscription = IF stream[k].state = "absent" /\ s = "lifecycle"
                                   THEN workspace[k[1]].subscription ELSE @]
          ELSE stream[k]]
    /\ workspace' = [w \in Workspaces |->
          IF w \in where /\ s = "lifecycle" THEN Closed(w, workspace[w])
          ELSE workspace[w]]

\* The event stays pending at this workspace, whose row s goes to freeze.
FreezeAt(d, w, s) ==
    /\ Store(d, "reconciliation_needed", w)
    /\ stream' = [stream EXCEPT ![<<w, StreamOf(d)>>] =
          [s EXCEPT !.state = "reconciliation_needed"]]
    /\ workspace' = [workspace EXCEPT ![w] =
          IF StreamOf(d) = "lifecycle" THEN Closed(w, @) ELSE @]
    /\ UNCHANGED binding

Outside == UNCHANGED <<now, history, enabled, operatorVars, receipts, touched>>

\* An id comes back with another payload.
Collide(d) ==
    /\ Arrives(d) /\ event[d.id].state # "absent"
    /\ event[d.id].delivery # d
    /\ event' = [event EXCEPT ![d.id].state = "reconciliation_needed"]
    /\ Freeze(Touching(event[d.id], d),
              IF "lifecycle" \in {StreamOf(event[d.id].delivery), StreamOf(d)}
              THEN "lifecycle" ELSE "tax")
    /\ UNCHANGED binding /\ Outside

\* Nothing places it yet.
LeaveUnresolved(d) ==
    /\ IsNew(d)
    /\ Missing(d) \/ (Candidates(d) = {} /\ ~ d.conflict)
    /\ Store(d, "unresolved", None)
    /\ UNCHANGED <<workspace, stream, binding>> /\ Outside

\* It is placed at several workspaces: all of them close.
RecordContradiction(d) ==
    /\ IsNew(d) /\ ~ Missing(d) /\ Contradicts(d)
    /\ \E home \in Workspaces \cup {None} :
          /\ IF Cardinality(Candidates(d)) = 1 THEN home \in Candidates(d)
             ELSE home = None
          /\ Store(d, "reconciliation_needed", home)
    /\ Freeze(Candidates(d), StreamOf(d))
    /\ UNCHANGED binding /\ Outside

RecordMismatch(d, w) ==
    /\ IsPlaced(d, w) /\ Mismatches(d, w)
    /\ LET s == stream[<<w, StreamOf(d)>>] IN
       FreezeAt(d, w, [s EXCEPT !.subscription =
           IF s.state = "absent" THEN Ref(d, "subscription") ELSE @])
    /\ Outside

Hold(d, w) ==
    /\ IsPlaced(d, w) /\ ~ Mismatches(d, w) /\ HasRow(d, w)
    /\ Held(d, w) \/ (~ Stale(d, w) /\ Disputed(d, w))
    /\ FreezeAt(d, w, Current(d, w))
    /\ Outside

IgnoreStale(d, w) ==
    /\ IsPlaced(d, w) /\ ~ Mismatches(d, w) /\ ~ Held(d, w) /\ Stale(d, w)
    /\ Store(d, "ignored", w)
    /\ UNCHANGED <<workspace, stream, binding>> /\ Outside

\* A manual suspension survives a projection with a status; the demo, any.
Protected(d, w) ==
    w \in Demo \/ (/\ workspace[w].status = "manual_suspended"
                   /\ ProjectedStatus(d) # None)

Apply(d, w) ==
    LET s == Current(d, w)
        customer == EffectiveCustomer(d, w)
        lifecycle == StreamOf(d) = "lifecycle"
    IN
    /\ IsPlaced(d, w) /\ ~ Mismatches(d, w)
    /\ ~ Held(d, w) /\ ~ Stale(d, w) /\ ~ Disputed(d, w)
    /\ customer # None
    /\ w \in Demo \/ Bindable(d.refs, w, customer)
    /\ Store(d, IF Protected(d, w) THEN "ignored" ELSE "applied", w)
    /\ workspace' = IF Protected(d, w) \/ ~ lifecycle THEN workspace
                    ELSE [workspace EXCEPT ![w] =
                        Written(@, ProjectedStatus(d), ProjectedAccess(d),
                                Ref(d, "customer"), ProjectedSubscription(d))]
    /\ IF w \in Demo THEN UNCHANGED binding ELSE Bind(d.refs, w, customer)
    /\ stream' = [stream EXCEPT ![<<w, StreamOf(d)>>] =
          [state |-> "in_sync", last |-> Created(d),
           subscription |-> Or(Ref(d, "subscription"), s.subscription),
           terminal |-> IF d.type = "customer.subscription.deleted" THEN TRUE
                        ELSE s.terminal /\ ~ NewSubscription(d, s),
           revision |-> s.revision + 1]]
    /\ Outside

-----------------------------------------------------------------------------
(* The operator: read a snapshot, prepare a command, commit it              *)

\* What Stripe says of a subscription at an instant: the object stays canceled once it
\* has ended, whatever is paid after.
StatusAt(subscription, t) ==
    LET said == {d \in history :
                    /\ subscription \in d.refs /\ d.at <= t
                    /\ ProjectedStatus(d) # None}
    IN  IF said = {} THEN None
        ELSE IF \E d \in said : d.type = "customer.subscription.deleted" THEN "cancelled"
        ELSE ProjectedStatus(CHOOSE d \in said : \A x \in said : x.at <= d.at)

\* The subscriptions of a customer, as Stripe lists them.
Listed(customer, t) ==
    {Ref(d, "subscription") : d \in {x \in history :
                                x.at <= t /\ customer \in x.refs}} \ {None}

Readable == {"active", "past_due", "payment_failed", "suspended", "cancelled"}

\* The customer and subscription to read: those of the workspace, or of a
\* pending checkout that names it.
Targets(w) ==
    {[customer |-> workspace[w].customer,
      subscription |-> workspace[w].subscription]}
    \cup {[customer |-> Ref(d, "customer"), subscription |-> Ref(d, "subscription")] :
            d \in {event[e].delivery : e \in {i \in Ids : Pending(i)
                        /\ event[i].delivery.candidate = w}}}

\* The first of the two reads, and the list of the customer's subscriptions; the
\* snapshot carries the instant before them.
StartSnapshot(w, s) ==
    /\ attempt[<<w, s>>] = Idle /\ acts < MaxActs
    /\ \E target \in Targets(w) :
          LET status == StatusAt(target.subscription, now) IN
          /\ target.customer # None
          /\ s = "lifecycle" =>
                /\ status \in Readable
                /\ Listed(target.customer, now) = {target.subscription}
          /\ attempt' = [attempt EXCEPT ![<<w, s>>] =
                [phase |-> "reading", request |-> acts + 1, observed |-> now,
                 status |-> IF s = "lifecycle" THEN status ELSE None,
                 customer |-> target.customer,
                 subscription |-> IF s = "lifecycle" THEN target.subscription
                                  ELSE None]]
    /\ acts' = acts + 1
    /\ UNCHANGED <<now, history, enabled, ledgerVars, touched>>

\* Mutant of FinishSnapshot: the snapshot dated when it is complete, unread again.
FinishSnapshotLate(w, s) ==
    LET a == attempt[<<w, s>>] IN
    /\ a.phase = "reading"
    /\ attempt' = [attempt EXCEPT ![<<w, s>>] =
                     [a EXCEPT !.phase = "read", !.observed = now]]
    /\ UNCHANGED <<now, history, enabled, ledgerVars, acts, touched>>

\* The second read must say the same; otherwise the snapshot is dropped.
FinishSnapshot(w, s) ==
    LET a == attempt[<<w, s>>] IN
    /\ a.phase = "reading"
    /\ attempt' = [attempt EXCEPT ![<<w, s>>] =
          IF s = "tax" \/ StatusAt(a.subscription, now) = a.status
          THEN [a EXCEPT !.phase = "read"] ELSE Idle]
    /\ UNCHANGED <<now, history, enabled, ledgerVars, acts, touched>>

\* Mutant of Attributable: the events already placed at the workspace forgotten.
AttributableByItsObjects(w, s, customer, objects) ==
    {e \in Ids :
        /\ Pending(e) /\ StreamOf(event[e].delivery) = s
        /\ event[e].workspace = None
        /\ \/ event[e].delivery.candidate = w
           \/ customer \in event[e].delivery.refs}

\* The pending events a snapshot of this identity must account for.
Attributable(w, s, customer, objects) ==
    {e \in Ids :
        /\ Pending(e) /\ StreamOf(event[e].delivery) = s
        /\ \/ event[e].workspace = w
           \/ /\ event[e].workspace = None
              /\ \/ event[e].delivery.candidate = w
                 \/ customer \in event[e].delivery.refs
                 \/ \E o \in event[e].delivery.refs \cap objects :
                       o[1] # "customer"}

Fresh(a) == now - a.observed <= Freshness

\* Read the ledger and build the command; the adapter covers neither payments
\* without a subscription nor reversals.
Prepare(w, s) ==
    LET a == attempt[<<w, s>>]
        own == {a.customer, a.subscription} \ {None}
        pendingRefs == UNION {event[e].delivery.refs :
                                e \in Attributable(w, s, a.customer, BoundTo(w))}
        objects == {o \in BoundTo(w) \cup own \cup pendingRefs :
                      o[1] = "customer" => o = a.customer}
        bindings == IF s = "lifecycle" THEN objects
                    ELSE {o \in objects : o[1] \in {"customer", "tax_id"}}
        resolved == Attributable(w, s, a.customer, bindings)
    IN
    /\ a.phase = "read" /\ w \notin Demo /\ Fresh(a)
    /\ s = "lifecycle" =>
          \A e \in resolved : event[e].delivery.type
              \in CheckoutTypes \cup InvoiceTypes \cup SubscriptionTypes
    /\ \A e \in resolved : Created(event[e].delivery) < Second(a.observed)
    /\ stream[<<w, s>>].last < Second(a.observed)
    /\ attempt' = [attempt EXCEPT ![<<w, s>>] =
          [phase |-> "attempted", request |-> a.request,
           observed |-> a.observed, status |-> a.status,
           customer |-> a.customer, subscription |-> a.subscription,
           revision |-> stream[<<w, s>>].revision,
           resolved |-> resolved, bindings |-> bindings]]
    /\ UNCHANGED <<now, history, enabled, ledgerVars, acts, touched>>

\* A checkout among the resolved events may give the workspace its customer.
Bootstraps(w, c) ==
    \E e \in c.resolved : LET d == event[e].delivery IN
        /\ Mode(d) = "checkout" /\ d.candidate = w /\ ~ d.conflict
        /\ Ref(d, "checkout_session") \in c.bindings
        /\ Ref(d, "customer") \in {None, c.customer}

Identity(w, s, c) ==
    /\ workspace[w].customer = c.customer
       \/ (workspace[w].customer = None /\ s = "lifecycle" /\ Bootstraps(w, c))
    /\ s = "lifecycle" =>
          (workspace[w].subscription = None \/ c.subscription # None)

Resolvable(w, s, c) ==
    \A e \in c.resolved :
        /\ Pending(e) /\ StreamOf(event[e].delivery) = s
        /\ event[e].workspace \in {None, w}
        /\ Ref(event[e].delivery, "customer") = c.customer
           \/ (/\ Ref(event[e].delivery, "customer") = None
               /\ event[e].delivery.refs \cap c.bindings # {})

Committed(w, s, c) == \E r \in receipts : r.request = c.request

Commits(w, s, c) ==
    LET row == stream[<<w, s>>] IN
    /\ Fresh(c) /\ Identity(w, s, c)
    /\ row.state = "in_sync" => c.resolved # {}
    /\ row.revision = c.revision
    /\ Resolvable(w, s, c)
    /\ Attributable(w, s, c.customer, c.bindings) \subseteq c.resolved
    /\ row.last < Second(c.observed)
    /\ \A e \in c.resolved : Created(event[e].delivery) < Second(c.observed)
    /\ Bindable(c.bindings, w, c.customer)

\* Mutant of Thawed: the cut of the row stays that of its last event.
ThawedAtItsEvent(row, s, c) ==
    [row EXCEPT !.state = "in_sync", !.subscription = c.subscription,
                !.terminal = IF s = "lifecycle" THEN c.status = "cancelled" ELSE @,
                !.revision = @ + 1]

\* The row a snapshot leaves: in sync up to the snapshot's second.
Thawed(row, s, c) ==
    [state |-> "in_sync", last |-> Second(c.observed),
     subscription |-> c.subscription,
     terminal |-> IF s = "lifecycle" THEN c.status = "cancelled"
                  ELSE row.terminal,
     revision |-> row.revision + 1]

\* The canonical state replaces the projection and thaws the stream.
Reconcile(w, s, c) ==
    LET terminal == c.status \in {"suspended", "cancelled"} IN
    /\ stream' = [stream EXCEPT ![<<w, s>>] = Thawed(@, s, c)]
    /\ workspace' = IF s = "tax" \/ w \in Demo THEN workspace
                    ELSE [workspace EXCEPT ![w] =
                        Written(@, c.status,
                                IF terminal THEN "archived_readonly" ELSE "active",
                                c.customer, c.subscription)]
    /\ Bind(c.bindings, w, c.customer)
    /\ event' = [e \in Ids |->
          IF e \in c.resolved
          THEN [event[e] EXCEPT !.state = "reconciled", !.workspace = w]
          ELSE event[e]]
    /\ receipts' = receipts \cup
          {[request |-> c.request, key |-> <<w, s>>, revision |-> c.revision + 1,
            cutoff |-> Second(c.observed)]}
    /\ touched' = [touched EXCEPT ![w] =
          @ /\ (s = "tax" \/ workspace[w].status = "manual_suspended")]

\* The command, sent or recovered from its journal, reaches the database; an
\* answer that is lost leaves it to be recovered.
Commit(w, s) ==
    LET c == attempt[<<w, s>>] IN
    /\ c.phase = "attempted"
    /\ IF ~ Committed(w, s, c) /\ Commits(w, s, c) THEN Reconcile(w, s, c)
       ELSE UNCHANGED <<ledgerVars, touched>>
    /\ \/ attempt' = [attempt EXCEPT ![<<w, s>>] = Idle]
       \/ UNCHANGED attempt
    /\ UNCHANGED <<now, history, enabled, acts>>

\* A snapshot that is not used any more.
Abandon(w, s) ==
    /\ attempt[<<w, s>>].phase \in {"reading", "read"}
    /\ attempt' = [attempt EXCEPT ![<<w, s>>] = Idle]
    /\ UNCHANGED <<now, history, enabled, ledgerVars, acts, touched>>

-----------------------------------------------------------------------------
(* The administrator, the gate and time                                     *)

\* Suspend by hand, or lift a suspension or mark as paid: both write the
\* status past the ledger.
Administer(w, status) ==
    /\ workspace' = [workspace EXCEPT ![w].status = status]
    /\ touched' = [touched EXCEPT ![w] = TRUE]
    /\ acts < MaxActs /\ acts' = acts + 1
    /\ UNCHANGED <<now, history, enabled, stream, binding, event, receipts,
                   attempt>>

Toggle ==
    /\ enabled' = ~ enabled
    /\ acts < MaxActs /\ acts' = acts + 1
    /\ UNCHANGED <<now, history, ledgerVars, attempt, touched>>

Tick ==
    /\ now < MaxTime
    /\ now' = now + 1
    /\ UNCHANGED <<history, enabled, ledgerVars, operatorVars, touched>>

Deliver(d) ==
    \/ Collide(d)
    \/ LeaveUnresolved(d)
    \/ RecordContradiction(d)
    \/ \E w \in Workspaces :
          \/ RecordMismatch(d, w)
          \/ Hold(d, w)
          \/ IgnoreStale(d, w)
          \/ Apply(d, w)

Operate(w, s) ==
    \/ StartSnapshot(w, s)
    \/ FinishSnapshot(w, s)
    \/ Prepare(w, s)
    \/ Commit(w, s)
    \/ Abandon(w, s)

Next ==
    \/ \E d \in history : Deliver(d)
    \/ \E w \in Workspaces, s \in Streams : Operate(w, s)
    \/ \E w \in Governed, status \in {"manual_suspended", "active"} :
          Administer(w, status)
    \/ Toggle
    \/ Tick

Spec == Init /\ [][Next]_vars

-----------------------------------------------------------------------------
(* Properties                                                               *)

Rows == [state : {"unresolved", "reconciliation_needed", "ignored", "applied",
                  "reconciled"},
         workspace : Workspaces \cup {None}, delivery : Deliveries]

ObjectOrNone == Objects \cup {None}

\* The columns of every row hold values of their types.
TypeOK ==
    /\ now \in 0..MaxTime /\ history \in Histories /\ enabled \in BOOLEAN
    /\ workspace \in [Workspaces ->
          [customer : ObjectOrNone, subscription : ObjectOrNone,
           status : Statuses, access : Accesses]]
    /\ stream \in [Keys ->
          [state : {"absent", "in_sync", "reconciliation_needed"},
           last : -1..MaxTime, subscription : ObjectOrNone,
           terminal : BOOLEAN, revision : Nat]]
    /\ binding \in [Objects -> {None} \cup Owners]
    /\ event \in [Ids -> {Absent} \cup Rows]
    /\ acts \in 0..MaxActs
    /\ touched \in [Workspaces -> BOOLEAN]

\* A signed event that could not be projected keeps the lifecycle stream of its
\* workspace out of sync until a snapshot accounts for it, whatever arrives in
\* between and under whatever identity it comes back.
PendingFreezes ==
    \A e \in Ids, w \in Workspaces :
        /\ Pending(e) /\ event[e].workspace = w
        /\ StreamOf(event[e].delivery) = "lifecycle"
        /\ workspace[w].customer # None
        => stream[<<w, "lifecycle">>].state # "in_sync"

\* A customer and a subscription belong to one workspace, and the ledger's
\* bindings say the same as the workspace's own columns.
OneTenant ==
    \A w \in Workspaces :
        LET row == workspace[w] IN
        /\ row.customer # None => binding[row.customer] = Owner(w, row.customer)
        /\ row.subscription # None
              => binding[row.subscription] = Owner(w, row.customer)

\* The receipts of a stream are a chain: a later revision has a later cut, and
\* neither the row nor a second send of a command falls behind one.
ReceiptsAreOrdered ==
    \A r \in receipts :
        /\ r.revision <= stream[r.key].revision /\ r.cutoff <= stream[r.key].last
        /\ \A other \in receipts \ {r} :
              /\ other.request # r.request
              /\ other.key = r.key =>
                    (other.revision < r.revision <=> other.cutoff < r.cutoff)

Cutoffs(w) == {r.cutoff : r \in {x \in receipts : x.key = <<w, "lifecycle">>}}

\* The events projected at a workspace since its last snapshot that say a status.
Projected(w) ==
    {d \in {event[e].delivery : e \in {i \in Ids :
                event[i].state = "applied" /\ event[i].workspace = w}} :
        /\ ProjectedStatus(d) # None
        /\ \A c \in Cutoffs(w) : c < Created(d)}

\* Unless an administrator wrote it, the status of a workspace in sync is what
\* its newest projected event says, or else what Stripe said at or after the
\* cut of its last snapshot: no late event and no slow operator puts an older
\* state over a newer one.  Newer is what was created later: see EndIsKept.
NewestStatusWins ==
    \A w \in Workspaces \ Demo :
        LET row == workspace[w]
            said == Projected(w)
        IN  stream[<<w, "lifecycle">>].state = "in_sync" /\ ~ touched[w] =>
            IF said # {} THEN
               \E d \in said : /\ ProjectedStatus(d) = row.status
                               /\ \A x \in said : x.at <= d.at
            ELSE \A c \in Cutoffs(w) :
               \E t \in 0..now : /\ Second(t) >= c
                                 /\ StatusAt(row.subscription, t) = row.status

\* docs/operations/STRIPE_BILLING_EVENT_LEDGER.md:42-44 says that the end of a subscription
\* is kept, also when a payment was created after it: once the end was received and the
\* stream is in sync, no workspace that nobody wrote by hand is active with it.
EndIsKept ==
    \A w \in Workspaces \ Demo, e \in Ids :
        /\ event[e].state \in {"ignored", "applied", "reconciled"}
        /\ event[e].workspace = w
        /\ event[e].delivery.type = "customer.subscription.deleted"
        /\ workspace[w].subscription \in event[e].delivery.refs
        /\ stream[<<w, "lifecycle">>].state = "in_sync" /\ ~ touched[w]
        => workspace[w].status # "active"

\* A webhook that makes a workspace active found its stream in sync, and either
\* no ended subscription or a checkout of a new one.
NoRevival ==
    [][\A w \in Workspaces :
          LET s == stream[<<w, "lifecycle">>] IN
          /\ workspace[w].status # "active" /\ workspace'[w].status = "active"
          /\ event' # event /\ receipts' = receipts
          => /\ s.state # "reconciliation_needed"
             /\ s.terminal => stream'[<<w, "lifecycle">>].subscription # s.subscription
      ]_vars

\* Each stream is a cut through Stripe's time that only moves forward, and out
\* of a freeze only with a new receipt.
Cut == INSTANCE ProjectionCut WITH
          cut <- [k \in Keys |-> stream[k].last],
          revision <- [k \in Keys |-> stream[k].revision],
          frozen <- [k \in Keys |-> stream[k].state = "reconciliation_needed"]
FollowsTheCut == Cut!Spec
=============================================================================
