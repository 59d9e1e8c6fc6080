----------------------- MODULE StripeEventLedgerProofs -----------------------
(* What the Stripe billing ledger guarantees for any number of workspaces,   *)
(* objects and events, whatever Stripe emits and in whatever order it        *)
(* arrives: its rows keep their types, a pending event keeps its stream out  *)
(* of sync, objects stay with one workspace, receipts are a chain, an ended  *)
(* subscription is not revived, no older state is put over a newer one, and  *)
(* every stream follows ProjectionCut.                                       *)
EXTENDS StripeEventLedger, TLAPS

WorkspaceRows ==
    [customer : ObjectOrNone, subscription : ObjectOrNone,
     status : Statuses, access : Accesses]
StreamRows ==
    [state : {"absent", "in_sync", "reconciliation_needed"},
     last : -1..MaxTime, subscription : ObjectOrNone,
     terminal : BOOLEAN, revision : Nat]
Snapshots ==
    [phase : {"reading", "read"}, request : 1..MaxActs, observed : 0..MaxTime,
     status : Statuses \cup {None}, customer : Objects,
     subscription : ObjectOrNone]
Commands ==
    [phase : {"attempted"}, request : 1..MaxActs, observed : 0..MaxTime,
     status : Statuses \cup {None}, customer : Objects,
     subscription : ObjectOrNone, revision : Nat, resolved : SUBSET Ids,
     bindings : SUBSET Objects]

\* What an operator has in hand.
Attempting == attempt \in [Keys -> {Idle} \cup Snapshots \cup Commands]

\* The same of a customer and a subscription, wherever they stand together.
IsIdentity(customer, subscription) ==
    /\ customer # None => customer[1] = "customer"
    /\ subscription # None => subscription[1] = "subscription"

\* Columns hold objects of their kind, a command binds what it writes, and no
\* workspace has a subscription without a customer.
Identified ==
    /\ \A w \in Workspaces :
          /\ IsIdentity(workspace[w].customer, workspace[w].subscription)
          /\ workspace[w].subscription # None => workspace[w].customer # None
    /\ \A k \in Keys : attempt[k] # Idle =>
          IsIdentity(attempt[k].customer, attempt[k].subscription)
    /\ \A k \in Keys : attempt[k] \in Commands =>
          /\ attempt[k].customer \in attempt[k].bindings
          /\ k[2] = "lifecycle" =>
                attempt[k].subscription \in attempt[k].bindings \cup {None}

Typed == TypeOK /\ Attempting

-----------------------------------------------------------------------------
(* What a payload says                                                      *)

LEMMA SecondOK ==
    ASSUME NEW t \in 0..MaxTime
    PROVE  Second(t) \in 0..MaxTime
BY TimeAssumption DEF Second

LEMMA RefOK ==
    ASSUME NEW d \in Deliveries, NEW type
    PROVE  /\ Ref(d, type) \in d.refs \cup {None}
           /\ Ref(d, type) \in ObjectOrNone
           /\ Ref(d, type) # None => Ref(d, type)[1] = type
<1> DEFINE found == {o \in d.refs : o[1] = type}
<1>1. d.refs \subseteq Objects
  BY DEF Deliveries
<1>2. CASE found = {}
  BY <1>2 DEF Ref, ObjectOrNone
<1>3. CASE found # {}
  <2>1. (CHOOSE o \in found : TRUE) \in found
    BY <1>3
  <2>2. Ref(d, type) = CHOOSE o \in found : TRUE
    BY <1>3 DEF Ref
  <2> QED  BY <1>1, <2>1, <2>2 DEF ObjectOrNone
<1> QED  BY <1>2, <1>3

LEMMA ProjectedSubscriptionOK ==
    ASSUME NEW d \in Deliveries
    PROVE  /\ ProjectedSubscription(d) \in {None, Ref(d, "subscription")}
           /\ ProjectedSubscription(d) \in ObjectOrNone
BY RefOK DEF ProjectedSubscription, ObjectOrNone

LEMMA StreamOfOK ==
    ASSUME NEW d
    PROVE  StreamOf(d) \in Streams
BY DEF StreamOf, Streams

LEMMA ProjectedOK ==
    ASSUME NEW d \in Deliveries
    PROVE  /\ ProjectedStatus(d) \in Projectable \cup {None}
           /\ ProjectedStatus(d) \in Statuses \cup {None}
           /\ ProjectedAccess(d) \in Accesses \cup {None}
<1>1. d.outcome \in Projectable \cup {None}
  BY DEF Deliveries
<1>2. ProjectedStatus(d) \in Projectable \cup {None}
  BY <1>1 DEF ProjectedStatus, Projectable, Statuses
<1>3. ProjectedAccess(d) \in Accesses \cup {None}
  BY DEF ProjectedAccess, Accesses
<1> QED  BY <1>2, <1>3 DEF Projectable

LEMMA WrittenOK ==
    ASSUME NEW row \in WorkspaceRows,
           NEW status \in Statuses \cup {None}, NEW access \in Accesses \cup {None},
           NEW customer \in ObjectOrNone, NEW subscription \in ObjectOrNone
    PROVE  LET new == Written(row, status, access, customer, subscription) IN
           /\ new \in WorkspaceRows
           /\ new.customer = Or(customer, row.customer)
           /\ new.subscription = Or(subscription, row.subscription)
           /\ new.status \in {status, row.status}
BY DEF Written, WorkspaceRows, Or

LEMMA ClosedOK ==
    ASSUME NEW w, NEW row \in WorkspaceRows
    PROVE  /\ Closed(w, row) \in WorkspaceRows
           /\ Closed(w, row).customer = row.customer
           /\ Closed(w, row).subscription = row.subscription
           /\ Closed(w, row).status \in {"suspended", row.status}
BY DEF Closed, WorkspaceRows, Statuses, Accesses

LEMMA CurrentOK ==
    ASSUME TypeOK, NEW d \in Deliveries, NEW w \in Workspaces
    PROVE  LET s == stream[<<w, StreamOf(d)>>] IN
           /\ Current(d, w) \in StreamRows
           /\ Current(d, w).last = s.last /\ Current(d, w).revision = s.revision
           /\ Current(d, w).terminal = s.terminal
           /\ s.state # "absent" => Current(d, w) = s
           /\ s.state = "absent" =>
                 Current(d, w).subscription = Ref(d, "subscription")
<1>1. <<w, StreamOf(d)>> \in Keys
  BY StreamOfOK DEF Keys
<1>2. stream[<<w, StreamOf(d)>>] \in StreamRows
  BY <1>1 DEF TypeOK, StreamRows
<1>3. Ref(d, "subscription") \in ObjectOrNone
  BY RefOK
<1> QED  BY <1>2, <1>3 DEF Current, StreamRows

-----------------------------------------------------------------------------
(* Steps that freeze                                                        *)

\* Streams only go out of sync and workspaces only close.
Freezing ==
    /\ workspace' \in [Workspaces -> WorkspaceRows]
    /\ stream' \in [Keys -> StreamRows]
    /\ \A w \in Workspaces :
          /\ workspace'[w].customer = workspace[w].customer
          /\ workspace'[w].subscription = workspace[w].subscription
          /\ workspace'[w].status \in {"suspended", workspace[w].status}
    /\ \A k \in Keys :
          /\ stream'[k].last = stream[k].last
          /\ stream'[k].revision = stream[k].revision
          /\ stream'[k].state \in {stream[k].state, "reconciliation_needed"}

LEMMA FreezeOK ==
    ASSUME TypeOK, NEW where, NEW s \in Streams, Freeze(where, s)
    PROVE  /\ Freezing
           /\ \A w \in where \cap Workspaces : workspace[w].customer # None =>
                 stream'[<<w, s>>].state = "reconciliation_needed"
<1>1. /\ workspace \in [Workspaces -> WorkspaceRows]
      /\ stream \in [Keys -> StreamRows]
  BY DEF TypeOK, WorkspaceRows, StreamRows
<1>2. \A w \in Workspaces : <<w, s>> \in Keys
  BY DEF Keys
<1>3. ASSUME NEW w \in Workspaces
      PROVE  /\ workspace'[w] \in WorkspaceRows
             /\ workspace'[w].customer = workspace[w].customer
             /\ workspace'[w].subscription = workspace[w].subscription
             /\ workspace'[w].status \in {"suspended", workspace[w].status}
  <2>1. workspace'[w] \in {Closed(w, workspace[w]), workspace[w]}
    BY DEF Freeze
  <2> QED  BY <1>1, <2>1, ClosedOK
<1>4. ASSUME NEW k \in Keys
      PROVE  /\ stream'[k] \in StreamRows
             /\ stream'[k].last = stream[k].last
             /\ stream'[k].revision = stream[k].revision
             /\ stream'[k].state \in {stream[k].state, "reconciliation_needed"}
             /\ k[1] \in where /\ k[2] = s /\ workspace[k[1]].customer # None
                   => stream'[k].state = "reconciliation_needed"
  <2>1. k[1] \in Workspaces /\ stream[k] \in StreamRows
    BY <1>1 DEF Keys
  <2>2. workspace[k[1]].subscription \in ObjectOrNone
    BY <1>1, <2>1 DEF WorkspaceRows
  <2> QED  BY <2>1, <2>2 DEF Freeze, StreamRows
<1>5. /\ workspace' \in [Workspaces -> WorkspaceRows]
      /\ stream' \in [Keys -> StreamRows]
  BY <1>3, <1>4 DEF Freeze
<1> QED  BY <1>2, <1>3, <1>4, <1>5 DEF Freezing

LEMMA FreezeAtOK ==
    ASSUME TypeOK, NEW d \in Deliveries, NEW w \in Workspaces,
           NEW s \in StreamRows, FreezeAt(d, w, s),
           s.last = stream[<<w, StreamOf(d)>>].last,
           s.revision = stream[<<w, StreamOf(d)>>].revision
    PROVE  /\ Freezing
           /\ stream'[<<w, StreamOf(d)>>].state = "reconciliation_needed"
<1>1. /\ workspace \in [Workspaces -> WorkspaceRows]
      /\ stream \in [Keys -> StreamRows]
  BY DEF TypeOK, WorkspaceRows, StreamRows
<1>2. <<w, StreamOf(d)>> \in Keys
  BY StreamOfOK DEF Keys
<1>3. ASSUME NEW v \in Workspaces
      PROVE  /\ workspace'[v] \in WorkspaceRows
             /\ workspace'[v].customer = workspace[v].customer
             /\ workspace'[v].subscription = workspace[v].subscription
             /\ workspace'[v].status \in {"suspended", workspace[v].status}
  <2>1. workspace'[v] \in {Closed(v, workspace[v]), workspace[v]}
    BY <1>1 DEF FreezeAt
  <2> QED  BY <1>1, <2>1, ClosedOK
<1>4. [s EXCEPT !.state = "reconciliation_needed"] \in StreamRows
  BY DEF StreamRows
<1>5. stream' = [stream EXCEPT ![<<w, StreamOf(d)>>] =
                   [s EXCEPT !.state = "reconciliation_needed"]]
  BY DEF FreezeAt
<1>6. stream' \in [Keys -> StreamRows]
  BY <1>1, <1>4, <1>5
<1>7. ASSUME NEW k \in Keys
      PROVE  /\ stream'[k].last = stream[k].last
             /\ stream'[k].revision = stream[k].revision
             /\ stream'[k].state \in {stream[k].state, "reconciliation_needed"}
  BY <1>1, <1>2, <1>5 DEF StreamRows
<1>8. stream'[<<w, StreamOf(d)>>].state = "reconciliation_needed"
  BY <1>1, <1>2, <1>5 DEF StreamRows
<1>9. workspace' \in [Workspaces -> WorkspaceRows]
  BY <1>1, <1>3 DEF FreezeAt
<1> QED  BY <1>3, <1>6, <1>7, <1>8, <1>9 DEF Freezing

LEMMA MismatchFreezes ==
    ASSUME TypeOK, NEW d \in Deliveries, NEW w \in Workspaces, RecordMismatch(d, w)
    PROVE  /\ Freezing
           /\ stream'[<<w, StreamOf(d)>>].state = "reconciliation_needed"
<1> DEFINE s == stream[<<w, StreamOf(d)>>]
           t == [s EXCEPT !.subscription =
                   IF s.state = "absent" THEN Ref(d, "subscription") ELSE @]
<1>1. s \in StreamRows
  BY StreamOfOK DEF TypeOK, StreamRows, Keys
<1>2. Ref(d, "subscription") \in ObjectOrNone
  BY RefOK
<1>3. t \in StreamRows /\ t.last = s.last /\ t.revision = s.revision
  BY <1>1, <1>2 DEF StreamRows
<1>4. FreezeAt(d, w, t)
  BY DEF RecordMismatch
<1> QED  BY <1>3, <1>4, FreezeAtOK

LEMMA HoldFreezes ==
    ASSUME TypeOK, NEW d \in Deliveries, NEW w \in Workspaces, Hold(d, w)
    PROVE  /\ Freezing
           /\ stream'[<<w, StreamOf(d)>>].state = "reconciliation_needed"
<1>1. FreezeAt(d, w, Current(d, w))
  BY DEF Hold
<1> QED  BY <1>1, CurrentOK, FreezeAtOK

-----------------------------------------------------------------------------
(* Types                                                                    *)

LEMMA HistoryOK ==
    ASSUME TypeOK, NEW d \in history
    PROVE  d \in Deliveries
BY HistoryAssumption DEF TypeOK

LEMMA StoreOK ==
    ASSUME TypeOK, NEW d \in Deliveries,
           NEW state \in {"unresolved", "reconciliation_needed", "ignored",
                          "applied", "reconciled"},
           NEW w \in Workspaces \cup {None}, Store(d, state, w)
    PROVE  event' \in [Ids -> {Absent} \cup Rows]
<1>1. event \in [Ids -> {Absent} \cup Rows] /\ d.id \in Ids
  BY DEF TypeOK, Deliveries
<1>2. [state |-> state, workspace |-> w, delivery |-> d] \in Rows
  BY DEF Rows
<1> QED  BY <1>1, <1>2 DEF Store

LEMMA BindOK ==
    ASSUME TypeOK, NEW objects, NEW w \in Workspaces, NEW customer \in Objects,
           Bind(objects, w, customer)
    PROVE  binding' \in [Objects -> {None} \cup Owners]
BY DEF TypeOK, Bind, Owner, Owners

LEMMA InSyncOK ==
    ASSUME NEW last \in 0..MaxTime, NEW subscription \in ObjectOrNone,
           NEW terminal \in BOOLEAN, NEW revision \in Nat
    PROVE  [state |-> "in_sync", last |-> last, subscription |-> subscription,
            terminal |-> terminal, revision |-> revision + 1] \in StreamRows
BY DEF StreamRows

\* What an applied event writes.
LEMMA ApplyOK ==
    ASSUME TypeOK, NEW d \in Deliveries, NEW w \in Workspaces, Apply(d, w)
    PROVE  /\ workspace' \in [Workspaces -> WorkspaceRows]
           /\ stream' \in [Keys -> StreamRows]
           /\ binding' \in [Objects -> {None} \cup Owners]
           /\ event' \in [Ids -> {Absent} \cup Rows]
<1> DEFINE customer == EffectiveCustomer(d, w)
<1>1. /\ workspace \in [Workspaces -> WorkspaceRows]
      /\ stream \in [Keys -> StreamRows]
      /\ binding \in [Objects -> {None} \cup Owners]
  BY DEF TypeOK, WorkspaceRows, StreamRows
<1>2. /\ Ref(d, "customer") \in ObjectOrNone
      /\ Ref(d, "subscription") \in ObjectOrNone
  BY RefOK
<1>3. customer \in Objects
  <2>1. workspace[w].customer \in ObjectOrNone /\ customer # None
    BY <1>1 DEF WorkspaceRows, Apply
  <2> QED  BY <1>2, <2>1 DEF EffectiveCustomer, Or, ObjectOrNone
<1>4. workspace' \in [Workspaces -> WorkspaceRows]
  <2>1. Written(workspace[w], ProjectedStatus(d), ProjectedAccess(d),
                Ref(d, "customer"), ProjectedSubscription(d)) \in WorkspaceRows
    BY <1>1, <1>2, ProjectedOK, ProjectedSubscriptionOK, WrittenOK
  <2>2. \/ workspace' = workspace
        \/ workspace' = [workspace EXCEPT ![w] =
              Written(@, ProjectedStatus(d), ProjectedAccess(d),
                      Ref(d, "customer"), ProjectedSubscription(d))]
    BY DEF Apply
  <2> QED  BY <1>1, <2>1, <2>2
<1>5. stream' \in [Keys -> StreamRows]
  <2> DEFINE s == Current(d, w)
             row == [state |-> "in_sync", last |-> Created(d),
                     subscription |-> Or(Ref(d, "subscription"), s.subscription),
                     terminal |-> IF d.type = "customer.subscription.deleted"
                                  THEN TRUE
                                  ELSE s.terminal /\ ~ NewSubscription(d, s),
                     revision |-> s.revision + 1]
  <2>1. s \in StreamRows
    BY CurrentOK
  <2>2. Created(d) \in 0..MaxTime
    BY SecondOK DEF Created, Deliveries
  <2>3. Or(Ref(d, "subscription"), s.subscription) \in ObjectOrNone
    BY <1>2, <2>1 DEF Or, StreamRows
  <2>4. NewSubscription(d, s) \in BOOLEAN
    BY DEF NewSubscription
  <2>5. row.terminal \in BOOLEAN
    BY <2>1, <2>4 DEF StreamRows
  <2>6. row \in StreamRows
    <3>1. s.revision \in Nat
      BY <2>1 DEF StreamRows
    <3> HIDE DEF s
    <3> QED  BY <2>2, <2>3, <2>5, <3>1, InSyncOK
  <2>7. stream' = [stream EXCEPT ![<<w, StreamOf(d)>>] = row]
    BY DEF Apply
  <2> QED  BY <1>1, <2>6, <2>7
<1>6. binding' \in [Objects -> {None} \cup Owners]
  BY <1>1, <1>3, BindOK DEF Apply
<1>7. event' \in [Ids -> {Absent} \cup Rows]
  <2>1. Store(d, IF Protected(d, w) THEN "ignored" ELSE "applied", w)
    BY DEF Apply
  <2> QED  BY <2>1, StoreOK
<1> QED  BY <1>4, <1>5, <1>6, <1>7

\* What a committed snapshot writes.
LEMMA ReconcileOK ==
    ASSUME TypeOK, NEW w \in Workspaces, NEW s \in Streams, NEW c \in Commands,
           Commits(w, s, c), Reconcile(w, s, c)
    PROVE  /\ workspace' \in [Workspaces -> WorkspaceRows]
           /\ stream' \in [Keys -> StreamRows]
           /\ binding' \in [Objects -> {None} \cup Owners]
           /\ event' \in [Ids -> {Absent} \cup Rows]
           /\ touched' \in [Workspaces -> BOOLEAN]
<1>1. /\ workspace \in [Workspaces -> WorkspaceRows]
      /\ stream \in [Keys -> StreamRows]
      /\ event \in [Ids -> {Absent} \cup Rows]
      /\ touched \in [Workspaces -> BOOLEAN]
  BY DEF TypeOK, WorkspaceRows, StreamRows
<1>2. <<w, s>> \in Keys
  BY DEF Keys
<1>3. workspace' \in [Workspaces -> WorkspaceRows]
  <2> DEFINE access == IF c.status \in {"suspended", "cancelled"}
                       THEN "archived_readonly" ELSE "active"
  <2>1. access \in Accesses \cup {None}
    BY DEF Accesses
  <2>2. c.status \in Statuses \cup {None} /\ c.customer \in ObjectOrNone
        /\ c.subscription \in ObjectOrNone
    BY DEF Commands, ObjectOrNone
  <2>3. Written(workspace[w], c.status, access, c.customer, c.subscription)
           \in WorkspaceRows
    BY <1>1, <2>1, <2>2, WrittenOK
  <2>4. workspace' \in {workspace, [workspace EXCEPT ![w] =
           Written(@, c.status, access, c.customer, c.subscription)]}
    BY DEF Reconcile
  <2> QED  BY <1>1, <2>3, <2>4
<1>4. stream' \in [Keys -> StreamRows]
  <2>1. Second(c.observed) \in 0..MaxTime
    BY SecondOK DEF Commands
  <2>2. Thawed(stream[<<w, s>>], s, c) \in StreamRows
    <3>1. /\ stream[<<w, s>>].revision \in Nat
          /\ stream[<<w, s>>].terminal \in BOOLEAN
          /\ c.subscription \in ObjectOrNone
      BY <1>1, <1>2 DEF StreamRows, Commands
    <3>2. (IF s = "lifecycle" THEN c.status = "cancelled"
           ELSE stream[<<w, s>>].terminal) \in BOOLEAN
      BY <3>1
    <3> QED  BY <2>1, <3>1, <3>2, InSyncOK DEF Thawed
  <2> QED  BY <1>1, <2>2 DEF Reconcile
<1>5. binding' \in [Objects -> {None} \cup Owners]
  BY BindOK DEF Reconcile, Commands
<1>6. event' \in [Ids -> {Absent} \cup Rows]
  <2>1. ASSUME NEW e \in Ids
        PROVE  event'[e] \in {Absent} \cup Rows
    <3>1. CASE e \in c.resolved
      <4>1. Pending(e)
        BY <3>1 DEF Commits, Resolvable
      <4>2. event[e] \in Rows
        BY <1>1, <4>1 DEF Pending, Absent
      <4>3. event'[e] = [event[e] EXCEPT !.state = "reconciled", !.workspace = w]
        BY <3>1 DEF Reconcile
      <4> QED  BY <4>2, <4>3 DEF Rows
    <3>2. CASE e \notin c.resolved
      BY <1>1, <3>2 DEF Reconcile
    <3> QED  BY <3>1, <3>2
  <2> QED  BY <2>1 DEF Reconcile
<1>7. touched' \in [Workspaces -> BOOLEAN]
  BY <1>1 DEF Reconcile
<1> QED  BY <1>3, <1>4, <1>5, <1>6, <1>7

\* A delivery keeps what does not belong to the ledger.
LEMMA DeliverKeeps ==
    ASSUME NEW d, Deliver(d)
    PROVE  UNCHANGED <<now, history, enabled, attempt, acts, receipts, touched>>
BY DEF Deliver, Collide, LeaveUnresolved, RecordContradiction, RecordMismatch,
       Hold, IgnoreStale, Apply, Outside, operatorVars

\* What each kind of delivery does to the rows of workspaces and streams.
LEMMA DeliverFreezesOrApplies ==
    ASSUME TypeOK, NEW d \in history, Deliver(d)
    PROVE  \/ Freezing /\ UNCHANGED binding
           \/ UNCHANGED <<workspace, stream, binding>>
           \/ \E w \in Workspaces : Apply(d, w)
<1>1. d \in Deliveries
  BY HistoryOK
<1>2. CASE Collide(d)
  <2>1. PICK s \in Streams : Freeze(Touching(event[d.id], d), s)
    BY <1>2 DEF Collide, Streams
  <2> QED  BY <1>2, <2>1, FreezeOK DEF Collide
<1>3. CASE LeaveUnresolved(d)
  BY <1>3 DEF LeaveUnresolved
<1>4. CASE RecordContradiction(d)
  BY <1>4, FreezeOK, StreamOfOK DEF RecordContradiction
<1>5. ASSUME NEW w \in Workspaces, RecordMismatch(d, w)
      PROVE  Freezing /\ UNCHANGED binding
  BY <1>1, <1>5, MismatchFreezes DEF RecordMismatch, FreezeAt
<1>6. ASSUME NEW w \in Workspaces, Hold(d, w)
      PROVE  Freezing /\ UNCHANGED binding
  BY <1>1, <1>6, HoldFreezes DEF Hold, FreezeAt
<1>7. ASSUME NEW w \in Workspaces, IgnoreStale(d, w)
      PROVE  UNCHANGED <<workspace, stream, binding>>
  BY <1>7 DEF IgnoreStale
<1> QED  BY <1>2, <1>3, <1>4, <1>5, <1>6, <1>7 DEF Deliver

LEMMA EventsTyped ==
    ASSUME TypeOK, NEW d \in history, Deliver(d)
    PROVE  event' \in [Ids -> {Absent} \cup Rows]
<1>1. d \in Deliveries
  BY HistoryOK
<1>2. event \in [Ids -> {Absent} \cup Rows] /\ d.id \in Ids
  BY <1>1 DEF TypeOK, Deliveries
<1>3. CASE Collide(d)
  <2>1. event[d.id] \in Rows
    BY <1>2, <1>3 DEF Collide, Absent
  <2>2. [event[d.id] EXCEPT !.state = "reconciliation_needed"] \in Rows
    BY <2>1 DEF Rows
  <2>3. event' = [event EXCEPT ![d.id] =
                    [event[d.id] EXCEPT !.state = "reconciliation_needed"]]
    BY <1>3 DEF Collide
  <2> QED  BY <1>2, <2>2, <2>3
<1>4. CASE LeaveUnresolved(d)
  BY <1>1, <1>4, StoreOK DEF LeaveUnresolved
<1>5. CASE RecordContradiction(d)
  BY <1>1, <1>5, StoreOK DEF RecordContradiction
<1>6. ASSUME NEW w \in Workspaces, RecordMismatch(d, w) \/ Hold(d, w)
      PROVE  event' \in [Ids -> {Absent} \cup Rows]
  BY <1>1, <1>6, StoreOK DEF RecordMismatch, Hold, FreezeAt
<1>7. ASSUME NEW w \in Workspaces, IgnoreStale(d, w)
      PROVE  event' \in [Ids -> {Absent} \cup Rows]
  BY <1>1, <1>7, StoreOK DEF IgnoreStale
<1>8. ASSUME NEW w \in Workspaces, Apply(d, w)
      PROVE  event' \in [Ids -> {Absent} \cup Rows]
  BY <1>1, <1>8, ApplyOK
<1> QED  BY <1>3, <1>4, <1>5, <1>6, <1>7, <1>8 DEF Deliver

LEMMA TypedDeliver ==
    ASSUME Typed, NEW d \in history, Deliver(d)
    PROVE  Typed'
<1>1. d \in Deliveries /\ TypeOK
  BY HistoryOK DEF Typed
<1>2. UNCHANGED <<now, history, enabled, attempt, acts, receipts, touched>>
  BY DeliverKeeps
<1>3. event' \in [Ids -> {Absent} \cup Rows]
  BY <1>1, EventsTyped
<1>4. /\ workspace' \in [Workspaces -> WorkspaceRows]
      /\ stream' \in [Keys -> StreamRows]
      /\ binding' \in [Objects -> {None} \cup Owners]
  <2>1. /\ workspace \in [Workspaces -> WorkspaceRows]
        /\ stream \in [Keys -> StreamRows]
        /\ binding \in [Objects -> {None} \cup Owners]
    BY <1>1 DEF TypeOK, WorkspaceRows, StreamRows
  <2>2. ASSUME NEW w \in Workspaces, Apply(d, w)
        PROVE  /\ workspace' \in [Workspaces -> WorkspaceRows]
               /\ stream' \in [Keys -> StreamRows]
               /\ binding' \in [Objects -> {None} \cup Owners]
    BY <1>1, <2>2, ApplyOK
  <2> QED  BY <1>1, <2>1, <2>2, DeliverFreezesOrApplies DEF Freezing
<1> QED
  BY <1>2, <1>3, <1>4
  DEF Typed, TypeOK, Attempting, WorkspaceRows, StreamRows

LEMMA TargetsOK ==
    ASSUME TypeOK, NEW w \in Workspaces, NEW target \in Targets(w)
    PROVE  /\ target.customer \in ObjectOrNone /\ target.subscription \in ObjectOrNone
           /\ \/ target = [customer |-> workspace[w].customer,
                           subscription |-> workspace[w].subscription]
              \/ IsIdentity(target.customer, target.subscription)
<1>1. CASE target = [customer |-> workspace[w].customer,
                     subscription |-> workspace[w].subscription]
  BY <1>1 DEF TypeOK
<1>2. CASE \E e \in Ids :
              /\ Pending(e)
              /\ target = [customer |-> Ref(event[e].delivery, "customer"),
                           subscription |-> Ref(event[e].delivery, "subscription")]
  <2>1. PICK e \in Ids :
              /\ Pending(e)
              /\ target = [customer |-> Ref(event[e].delivery, "customer"),
                           subscription |-> Ref(event[e].delivery, "subscription")]
    BY <1>2
  <2>2. event[e].delivery \in Deliveries
    BY <2>1 DEF Pending, TypeOK, Absent, Rows
  <2>3. /\ Ref(event[e].delivery, "customer") \in ObjectOrNone
        /\ Ref(event[e].delivery, "subscription") \in ObjectOrNone
        /\ Ref(event[e].delivery, "customer") # None =>
              Ref(event[e].delivery, "customer")[1] = "customer"
        /\ Ref(event[e].delivery, "subscription") # None =>
              Ref(event[e].delivery, "subscription")[1] = "subscription"
    BY <2>2, RefOK
  <2> QED  BY <2>1, <2>3 DEF IsIdentity
<1> QED  BY <1>1, <1>2 DEF Targets

\* Which of its phases an operator is in.
LEMMA PhaseOK ==
    ASSUME Attempting, NEW k \in Keys
    PROVE  /\ attempt[k].phase \in {"reading", "read"} => attempt[k] \in Snapshots
           /\ attempt[k].phase = "attempted" => attempt[k] \in Commands
BY DEF Attempting, Idle, Snapshots, Commands

LEMMA TypedOperate ==
    ASSUME Typed, NEW w \in Workspaces, NEW s \in Streams, Operate(w, s)
    PROVE  Typed'
<1> DEFINE k == <<w, s>>
           a == attempt[k]
           More == {Idle} \cup Snapshots \cup Commands
<1>1. TypeOK /\ attempt \in [Keys -> More] /\ k \in Keys /\ Attempting
  BY DEF Typed, Attempting, Keys
<1>2. /\ now \in 0..MaxTime /\ acts \in 0..MaxActs
      /\ stream \in [Keys -> StreamRows]
  BY <1>1 DEF TypeOK, StreamRows
<1>3. CASE StartSnapshot(w, s)
  <2>1. PICK target \in Targets(w) :
           LET status == StatusAt(target.subscription, now) IN
           /\ target.customer # None
           /\ s = "lifecycle" => status \in Readable
           /\ attempt' = [attempt EXCEPT ![k] =
                 [phase |-> "reading", request |-> acts + 1, observed |-> now,
                  status |-> IF s = "lifecycle" THEN status ELSE None,
                  customer |-> target.customer,
                  subscription |-> IF s = "lifecycle" THEN target.subscription
                                   ELSE None]]
    BY <1>3 DEF StartSnapshot
  <2> DEFINE status == IF s = "lifecycle" THEN StatusAt(target.subscription, now)
                       ELSE None
             new == [phase |-> "reading", request |-> acts + 1, observed |-> now,
                     status |-> status, customer |-> target.customer,
                     subscription |-> IF s = "lifecycle" THEN target.subscription
                                      ELSE None]
  <2>2. status \in Statuses \cup {None}
    BY <2>1 DEF Readable, Statuses
  <2>3. target.customer \in Objects /\ target.subscription \in ObjectOrNone
    BY <1>1, <2>1, TargetsOK DEF ObjectOrNone
  <2>4. acts + 1 \in 1..MaxActs
    BY <1>2, <1>3, TimeAssumption DEF StartSnapshot
  <2>5. new \in Snapshots
    <3> HIDE DEF status
    <3> QED  BY <1>2, <2>2, <2>3, <2>4 DEF Snapshots, ObjectOrNone
  <2>6. attempt' \in [Keys -> More]
    BY <1>1, <2>1, <2>5
  <2>7. acts' \in 0..MaxActs
    BY <1>3, <2>4 DEF StartSnapshot
  <2>8. UNCHANGED <<now, history, enabled, ledgerVars, touched>>
    BY <1>3 DEF StartSnapshot
  <2> QED  BY <1>1, <2>6, <2>7, <2>8
           DEF Typed, TypeOK, Attempting, ledgerVars
<1>4. CASE FinishSnapshot(w, s)
  <2>1. a \in Snapshots
    BY <1>1, <1>4, PhaseOK DEF FinishSnapshot
  <2>2. [a EXCEPT !.phase = "read"] \in Snapshots
    BY <2>1 DEF Snapshots
  <2>3. attempt' \in [Keys -> More]
    BY <1>1, <1>4, <2>2 DEF FinishSnapshot
  <2>4. UNCHANGED <<now, history, enabled, ledgerVars, acts, touched>>
    BY <1>4 DEF FinishSnapshot
  <2> QED  BY <1>1, <2>3, <2>4 DEF Typed, TypeOK, Attempting, ledgerVars
<1>5. CASE Prepare(w, s)
  <2>1. a \in Snapshots
    BY <1>1, <1>5, PhaseOK DEF Prepare
  <2>2. PICK resolved \in SUBSET Ids, bindings \in SUBSET Objects :
           attempt' = [attempt EXCEPT ![k] =
              [phase |-> "attempted", request |-> a.request,
               observed |-> a.observed, status |-> a.status,
               customer |-> a.customer, subscription |-> a.subscription,
               revision |-> stream[k].revision,
               resolved |-> resolved, bindings |-> bindings]]
    <3> DEFINE own == {a.customer, a.subscription} \ {None}
               pendingRefs == UNION {event[e].delivery.refs :
                                e \in Attributable(w, s, a.customer, BoundTo(w))}
               objects == {o \in BoundTo(w) \cup own \cup pendingRefs :
                             o[1] = "customer" => o = a.customer}
               bindings == IF s = "lifecycle" THEN objects
                           ELSE {o \in objects : o[1] \in {"customer", "tax_id"}}
    <3>1. own \subseteq Objects
      BY <2>1 DEF Snapshots, ObjectOrNone
    <3>2. ASSUME NEW e \in Attributable(w, s, a.customer, BoundTo(w))
          PROVE  event[e].delivery.refs \subseteq Objects
      <4>1. e \in Ids /\ Pending(e)
        BY DEF Attributable
      <4>2. event[e].delivery \in Deliveries
        BY <1>1, <4>1 DEF Pending, TypeOK, Absent, Rows
      <4> QED  BY <4>2 DEF Deliveries
    <3>3. pendingRefs \subseteq Objects
      BY <3>2
    <3>4. bindings \in SUBSET Objects
      BY <3>1, <3>3 DEF BoundTo
    <3>5. Attributable(w, s, a.customer, bindings) \in SUBSET Ids
      BY DEF Attributable
    <3> QED  BY <1>5, <3>4, <3>5 DEF Prepare
  <2>3. stream[k].revision \in Nat
    BY <1>1, <1>2 DEF StreamRows
  <2>4. [phase |-> "attempted", request |-> a.request,
         observed |-> a.observed, status |-> a.status,
         customer |-> a.customer, subscription |-> a.subscription,
         revision |-> stream[k].revision,
         resolved |-> resolved, bindings |-> bindings] \in Commands
    BY <2>1, <2>3 DEF Snapshots, Commands
  <2>5. attempt' \in [Keys -> More]
    BY <1>1, <2>2, <2>4
  <2>6. UNCHANGED <<now, history, enabled, ledgerVars, acts, touched>>
    BY <1>5 DEF Prepare
  <2> QED  BY <1>1, <2>5, <2>6 DEF Typed, TypeOK, Attempting, ledgerVars
<1>6. CASE Commit(w, s)
  <2>1. a \in Commands
    BY <1>1, <1>6, PhaseOK DEF Commit
  <2>2. UNCHANGED <<now, history, enabled, acts>>
    BY <1>6 DEF Commit
  <2>3. attempt' \in [Keys -> More]
    BY <1>1, <1>6 DEF Commit
  <2>4. CASE Commits(w, s, a) /\ Reconcile(w, s, a)
    BY <1>1, <2>1, <2>2, <2>3, <2>4, ReconcileOK
    DEF Typed, TypeOK, Attempting, WorkspaceRows, StreamRows
  <2>5. CASE UNCHANGED <<ledgerVars, touched>>
    BY <1>1, <2>2, <2>3, <2>5 DEF Typed, TypeOK, Attempting, ledgerVars
  <2> QED  BY <1>6, <2>4, <2>5 DEF Commit
<1>7. CASE Abandon(w, s)
  <2>1. attempt' \in [Keys -> More]
    BY <1>1, <1>7 DEF Abandon
  <2>2. UNCHANGED <<now, history, enabled, ledgerVars, acts, touched>>
    BY <1>7 DEF Abandon
  <2> QED  BY <1>1, <2>1, <2>2 DEF Typed, TypeOK, Attempting, ledgerVars
<1> QED  BY <1>3, <1>4, <1>5, <1>6, <1>7 DEF Operate

LEMMA TypedOutside ==
    ASSUME Typed,
           \/ \E w \in Governed, status \in {"manual_suspended", "active"} :
                 Administer(w, status)
           \/ Toggle \/ Tick
    PROVE  Typed'
<1>1. ASSUME NEW w \in Governed, NEW status \in {"manual_suspended", "active"},
             Administer(w, status)
      PROVE  Typed'
  <2>1. status \in Statuses
    BY DEF Statuses
  <2>2. workspace' \in [Workspaces -> WorkspaceRows]
    <3>1. workspace \in [Workspaces -> WorkspaceRows]
      BY DEF Typed, TypeOK, WorkspaceRows
    <3>2. w \in Workspaces
      BY HistoryAssumption
    <3>3. [workspace[w] EXCEPT !.status = status] \in WorkspaceRows
      BY <2>1, <3>1, <3>2 DEF WorkspaceRows
    <3>4. workspace' = [workspace EXCEPT ![w] =
                          [workspace[w] EXCEPT !.status = status]]
      BY <1>1 DEF Administer
    <3> QED  BY <3>1, <3>3, <3>4
  <2>3. touched' \in [Workspaces -> BOOLEAN]
    BY <1>1 DEF Typed, TypeOK, Administer
  <2>5. acts' \in 0..MaxActs
    BY <1>1, TimeAssumption DEF Typed, TypeOK, Administer
  <2>4. UNCHANGED <<now, history, enabled, stream, binding, event, receipts, attempt>>
    BY <1>1 DEF Administer
  <2> QED  BY <2>2, <2>3, <2>4, <2>5 DEF Typed, TypeOK, Attempting, WorkspaceRows
<1>2. CASE Toggle
  BY <1>2, TimeAssumption DEF Typed, TypeOK, Attempting, Toggle, ledgerVars
<1>3. CASE Tick
  BY <1>3, TimeAssumption
  DEF Typed, TypeOK, Attempting, Tick, ledgerVars, operatorVars
<1> QED  BY <1>1, <1>2, <1>3

LEMMA TypedInit ==
    ASSUME Init
    PROVE  Typed
<1>1. TypeOK
  BY TimeAssumption
  DEF Init, TypeOK, ObjectOrNone, Statuses, Accesses, Absent
<1>2. Attempting
  BY DEF Init, Attempting
<1> QED  BY <1>1, <1>2 DEF Typed

LEMMA TypedStep ==
    ASSUME Typed, [Next]_vars
    PROVE  Typed'
<1>1. CASE UNCHANGED vars
  BY <1>1 DEF Typed, TypeOK, Attempting, vars
<1>2. CASE Next
  BY <1>2, TypedDeliver, TypedOperate, TypedOutside DEF Next
<1> QED  BY <1>1, <1>2

\* The columns of every row hold values of their types: TypeOK, whatever arrives.
THEOREM TypesHold == Spec => []TypeOK
<1>1. Spec => []Typed
  BY TypedInit, TypedStep, PTL DEF Spec
<1>2. Typed => TypeOK
  BY DEF Typed
<1> QED  BY <1>1, <1>2, PTL

-----------------------------------------------------------------------------
(* The ledger implements ProjectionCut                                      *)

LEMMA FreezingIsFreeze ==
    ASSUME Freezing, UNCHANGED receipts
    PROVE  Cut!Freeze
<1>1. \A k \in Keys : /\ stream'[k].last = stream[k].last
                      /\ stream'[k].revision = stream[k].revision
                      /\ stream[k].state = "reconciliation_needed"
                            => stream'[k].state = "reconciliation_needed"
  BY DEF Freezing
<1> QED  BY <1>1 DEF Cut!Freeze

LEMMA OnePoint ==
    ASSUME NEW dom, NEW k \in dom, NEW f, NEW g,
           f = [j \in dom |-> f[j]], g = [j \in dom |-> g[j]],
           \A j \in dom \ {k} : f[j] = g[j]
    PROVE  f = [g EXCEPT ![k] = f[k]]
<1> DEFINE h == [g EXCEPT ![k] = f[k]]
<1>1. h = [j \in dom |-> h[j]] /\ \A j \in dom : h[j] = f[j]
  OBVIOUS
<1> QED  BY <1>1

LEMMA MovedIsAdvance ==
    ASSUME TypeOK, NEW k \in Keys, NEW row,
           stream' = [stream EXCEPT ![k] = row], row.state = "in_sync",
           row.last > stream[k].last, row.revision = stream[k].revision + 1
    PROVE  Cut!Advance(k)
<1>1. stream \in [Keys -> StreamRows]
  BY DEF TypeOK, StreamRows
<1>2. stream'[k] = row /\ \A other \in Keys \ {k} : stream'[other] = stream[other]
  BY <1>1
<1> DEFINE cuts == [j \in Keys |-> stream[j].last]
           revisions == [j \in Keys |-> stream[j].revision]
           frozen == [j \in Keys |-> stream[j].state = "reconciliation_needed"]
<1>6. \A j \in Keys \ {k} : /\ stream'[j].last = stream[j].last
                            /\ stream'[j].revision = stream[j].revision
  BY <1>2
<1>3. cuts'[k] > cuts[k] /\ cuts' = [cuts EXCEPT ![k] = cuts'[k]]
  <2>1. cuts' = [cuts EXCEPT ![k] = cuts'[k]]
    <3>1. /\ cuts = [j \in Keys |-> cuts[j]]
          /\ cuts' = [j \in Keys |-> cuts'[j]]
      OBVIOUS
    <3>2. \A j \in Keys \ {k} : cuts'[j] = cuts[j]
      BY <1>6
    <3> HIDE DEF cuts
    <3> QED  BY <3>1, <3>2, OnePoint
  <2>2. cuts'[k] = row.last /\ cuts[k] = stream[k].last
    BY <1>2
  <2> QED  BY <2>1, <2>2
<1>4. revisions' = [revisions EXCEPT ![k] = revisions[k] + 1]
  <2>1. stream'[k].revision = revisions[k] + 1
    BY <1>2
  <2> QED  BY <1>6, <2>1, Zenon
<1>5. frozen' = [frozen EXCEPT ![k] = FALSE]
  <2>1. ~ (stream'[k].state = "reconciliation_needed")
    BY <1>2
  <2>2. \A j \in Keys \ {k} : (stream'[j].state = "reconciliation_needed")
                              <=> (stream[j].state = "reconciliation_needed")
    BY <1>2
  <2> QED  BY <2>1, <2>2, Zenon
<1> QED  BY <1>3, <1>4, <1>5 DEF Cut!Advance

\* Where an event may be applied, and what it leaves.
LEMMA ApplyMoves ==
    ASSUME TypeOK, NEW d \in Deliveries, NEW w \in Workspaces, Apply(d, w)
    PROVE  LET k == <<w, StreamOf(d)>> IN
           /\ k \in Keys /\ stream[k].state # "reconciliation_needed"
           /\ \E row : /\ stream' = [stream EXCEPT ![k] = row]
                       /\ row.state = "in_sync" /\ row.last > stream[k].last
                       /\ row.revision = stream[k].revision + 1
<1> DEFINE k == <<w, StreamOf(d)>>
           s == Current(d, w)
           row == [state |-> "in_sync", last |-> Created(d),
                   subscription |-> Or(Ref(d, "subscription"), s.subscription),
                   terminal |-> IF d.type = "customer.subscription.deleted" THEN TRUE
                                ELSE s.terminal /\ ~ NewSubscription(d, s),
                   revision |-> s.revision + 1]
<1>1. k \in Keys /\ stream[k] \in StreamRows
  BY StreamOfOK DEF TypeOK, StreamRows, Keys
<1>2. /\ s.last = stream[k].last /\ s.revision = stream[k].revision
      /\ stream[k].state # "absent" => s = stream[k]
  BY CurrentOK
<1>3. stream[k].state # "reconciliation_needed"
  BY <1>2 DEF Apply, Held
<1>4. Created(d) > stream[k].last
  <2>1. Created(d) \in Int /\ stream[k].last \in Int
    BY <1>1, SecondOK DEF Created, Deliveries, StreamRows
  <2>2. ~ (Created(d) < s.last) /\ Created(d) # s.last
    BY DEF Apply, Stale, Disputed
  <2> QED  BY <1>2, <2>1, <2>2
<1>5. stream' = [stream EXCEPT ![k] = row]
  BY DEF Apply
<1>6. row.state = "in_sync" /\ row.last > stream[k].last
      /\ row.revision = stream[k].revision + 1
  BY <1>2, <1>4
<1> QED  BY <1>1, <1>3, <1>5, <1>6

LEMMA CutDeliver ==
    ASSUME TypeOK, NEW d \in history, Deliver(d)
    PROVE  Cut!Next \/ UNCHANGED Cut!vars
<1>1. d \in Deliveries /\ UNCHANGED receipts
  BY HistoryOK, DeliverKeeps
<1>2. CASE Freezing
  BY <1>1, <1>2, FreezingIsFreeze DEF Cut!Next
<1>3. CASE UNCHANGED stream
  BY <1>1, <1>3 DEF Cut!vars
<1>4. ASSUME NEW w \in Workspaces, Apply(d, w)
      PROVE  Cut!Next
  <2> DEFINE k == <<w, StreamOf(d)>>
  <2>1. k \in Keys /\ stream[k].state # "reconciliation_needed" /\ Cut!Advance(k)
    BY <1>1, <1>4, ApplyMoves, MovedIsAdvance
  <2>2. Cut!Project(k)
    BY <1>1, <2>1 DEF Cut!Project
  <2> QED  BY <2>1, <2>2 DEF Cut!Next
<1> QED  BY <1>2, <1>3, <1>4, DeliverFreezesOrApplies

LEMMA CutOperate ==
    ASSUME Typed, NEW w \in Workspaces, NEW s \in Streams, Operate(w, s)
    PROVE  Cut!Next \/ UNCHANGED Cut!vars
<1> DEFINE k == <<w, s>>
           c == attempt[k]
<1>1. TypeOK /\ Attempting /\ k \in Keys /\ stream[k] \in StreamRows
  BY DEF Typed, TypeOK, StreamRows, Keys
<1>2. CASE UNCHANGED <<stream, receipts>>
  BY <1>2 DEF Cut!vars
<1>3. CASE c \in Commands /\ ~ Committed(w, s, c) /\ Commits(w, s, c)
           /\ Reconcile(w, s, c)
  <2>1. stream' = [stream EXCEPT ![k] = Thawed(stream[k], s, c)]
    BY <1>3 DEF Reconcile
  <2>2. stream[k].last < Second(c.observed)
    BY <1>3 DEF Commits
  <2>3. Second(c.observed) \in Int /\ stream[k].last \in Int
    BY <1>1, <1>3, SecondOK DEF Commands, StreamRows
  <2>4. /\ Thawed(stream[k], s, c).state = "in_sync"
        /\ Thawed(stream[k], s, c).last > stream[k].last
        /\ Thawed(stream[k], s, c).revision = stream[k].revision + 1
    BY <2>2, <2>3 DEF Thawed
  <2>5. Cut!Advance(k)
    BY <1>1, <2>1, <2>4, MovedIsAdvance
  <2>6. receipts \subseteq receipts' /\ receipts' # receipts
    <3>1. PICK r : r.request = c.request /\ receipts' = receipts \cup {r}
      BY <1>3 DEF Reconcile
    <3>2. r \notin receipts
      BY <1>3, <3>1 DEF Committed
    <3> QED  BY <3>1, <3>2
  <2> QED  BY <1>1, <2>5, <2>6 DEF Cut!Thaw, Cut!Next
<1> QED
  BY <1>1, <1>2, <1>3, PhaseOK
  DEF Operate, StartSnapshot, FinishSnapshot, Prepare, Commit, Abandon, ledgerVars

LEMMA CutStep ==
    ASSUME Typed, [Next]_vars
    PROVE  Cut!Next \/ UNCHANGED Cut!vars
<1>1. TypeOK
  BY DEF Typed
<1>2. CASE UNCHANGED <<stream, receipts>>
  BY <1>2 DEF Cut!vars
<1> QED
  BY <1>1, <1>2, CutDeliver, CutOperate
  DEF Next, vars, Administer, Toggle, Tick, ledgerVars

\* Every stream is a cut through Stripe's time that only moves forward, and out of
\* a freeze only with a new receipt: FollowsTheCut.
THEOREM LedgerFollowsTheCut == Spec => FollowsTheCut
<1>1. Init => Cut!Init
  <2> SUFFICES ASSUME Init PROVE Cut!Init
    OBVIOUS
  <2>1. \A k \in Keys : stream[k].last = -1 /\ stream[k].revision = 0
    BY DEF Init
  <2>2. \A k \in Keys : ~ (stream[k].state = "reconciliation_needed")
    BY DEF Init
  <2>3. [k \in Keys |-> stream[k].state = "reconciliation_needed"]
           = [k \in Keys |-> FALSE]
    BY <2>2, Zenon
  <2> QED  BY <2>1, <2>3 DEF Init, Cut!Init
<1>2. Typed /\ [Next]_vars => [Cut!Next]_(Cut!vars)
  BY CutStep
<1>3. Spec => []Typed
  BY TypedInit, TypedStep, PTL DEF Spec
<1> QED  BY <1>1, <1>2, <1>3, PTL DEF Spec, FollowsTheCut, Cut!Spec

-----------------------------------------------------------------------------
(* Pending events keep their streams frozen                                 *)

LEMMA OnlyItsRow ==
    ASSUME NEW d, d.id \in Ids, event \in [Ids -> {Absent} \cup Rows], Deliver(d),
           NEW e \in Ids, e # d.id
    PROVE  event'[e] = event[e]
<1>1. ASSUME NEW state, NEW w, Store(d, state, w)
      PROVE  event'[e] = event[e]
  BY <1>1 DEF Store
<1>2. CASE Collide(d)
  BY <1>2 DEF Collide
<1>3. CASE LeaveUnresolved(d)
  BY <1>1, <1>3 DEF LeaveUnresolved
<1>4. CASE RecordContradiction(d)
  BY <1>1, <1>4 DEF RecordContradiction
<1>5. ASSUME NEW w \in Workspaces, RecordMismatch(d, w) \/ Hold(d, w)
      PROVE  event'[e] = event[e]
  BY <1>1, <1>5 DEF RecordMismatch, Hold, FreezeAt
<1>6. ASSUME NEW w \in Workspaces, IgnoreStale(d, w) \/ Apply(d, w)
      PROVE  event'[e] = event[e]
  BY <1>1, <1>6 DEF IgnoreStale, Apply
<1> QED  BY <1>2, <1>3, <1>4, <1>5, <1>6 DEF Deliver

LEMMA PendingDeliver ==
    ASSUME TypeOK, PendingFreezes, NEW d \in history, Deliver(d)
    PROVE  PendingFreezes'
<1>1. d \in Deliveries /\ d.id \in Ids
  BY HistoryOK DEF Deliveries
<1>2. event \in [Ids -> {Absent} \cup Rows]
  BY DEF TypeOK
<1> SUFFICES ASSUME NEW e \in Ids, NEW w \in Workspaces,
                    event'[e].state \in {"unresolved", "reconciliation_needed"},
                    event'[e].workspace = w,
                    StreamOf(event'[e].delivery) = "lifecycle",
                    workspace'[w].customer # None
             PROVE  stream'[<<w, "lifecycle">>].state # "in_sync"
  BY DEF PendingFreezes, Pending
<1> DEFINE k == <<w, "lifecycle">>
<1>3. k \in Keys
  BY DEF Keys, Streams
<1>4. CASE e # d.id
  <2>1. event'[e] = event[e]
    BY <1>1, <1>2, <1>4, OnlyItsRow
  <2>2. workspace[w].customer # None => stream[k].state # "in_sync"
    BY <2>1 DEF PendingFreezes, Pending
  <2>3. CASE Freezing \/ UNCHANGED <<workspace, stream>>
    BY <1>3, <2>2, <2>3 DEF Freezing
  <2>4. ASSUME NEW v \in Workspaces, Apply(d, v)
        PROVE  stream'[k].state # "in_sync"
    <3>1. CASE v = w /\ StreamOf(d) = "lifecycle"
      <4>1. ~ PriorPending(d, w)
        BY <2>4, <3>1 DEF Apply, Held
      <4>2. PriorPending(d, w)
        BY <1>4, <2>1, <3>1 DEF PriorPending, Pending
      <4> QED  BY <4>1, <4>2
    <3>2. CASE v # w \/ StreamOf(d) # "lifecycle"
      <4>1. workspace'[w] = workspace[w]
        BY <2>4, <3>2 DEF Apply, TypeOK
      <4>2. stream'[k] = stream[k]
        BY <1>3, <2>4, <3>2 DEF Apply, TypeOK
      <4> QED  BY <2>2, <4>1, <4>2
    <3> QED  BY <3>1, <3>2
  <2> QED  BY <2>3, <2>4, DeliverFreezesOrApplies
<1>5. CASE e = d.id
  <2>1. CASE Collide(d)
    <3>1. event[e] \in Rows
      BY <1>2, <1>5, <2>1 DEF Collide, Absent
    <3>2. event'[e].workspace = event[e].workspace
          /\ event'[e].delivery = event[e].delivery
      BY <1>2, <1>5, <2>1, <3>1 DEF Collide, Rows
    <3>3. Freeze(Touching(event[e], d), "lifecycle")
      BY <1>5, <2>1, <3>2 DEF Collide
    <3>4. w \in Touching(event[e], d)
      BY <3>2 DEF Touching
    <3>5. Freezing /\ (workspace[w].customer # None
             => stream'[k].state = "reconciliation_needed")
      BY <3>3, <3>4, FreezeOK DEF Streams
    <3> QED  BY <3>5 DEF Freezing
  <2>2. CASE LeaveUnresolved(d)
    BY <1>2, <1>5, <2>2, HistoryAssumption DEF LeaveUnresolved, Store
  <2>3. CASE RecordContradiction(d)
    <3>1. PICK home \in Workspaces \cup {None} :
             /\ IF Cardinality(Candidates(d)) = 1 THEN home \in Candidates(d)
                ELSE home = None
             /\ Store(d, "reconciliation_needed", home)
      BY <2>3 DEF RecordContradiction
    <3>2. home = w /\ event'[e].delivery = d
      BY <1>2, <1>5, <3>1 DEF Store
    <3>3. w \in Candidates(d)
      BY <3>1, <3>2, HistoryAssumption
    <3>4. Freeze(Candidates(d), "lifecycle")
      BY <2>3, <3>2 DEF RecordContradiction
    <3>5. Freezing /\ (workspace[w].customer # None
             => stream'[k].state = "reconciliation_needed")
      BY <3>3, <3>4, FreezeOK DEF Streams
    <3> QED  BY <3>5 DEF Freezing
  <2>4. ASSUME NEW v \in Workspaces, RecordMismatch(d, v) \/ Hold(d, v)
        PROVE  stream'[k].state # "in_sync"
    <3>1. Store(d, "reconciliation_needed", v)
      BY <2>4 DEF RecordMismatch, Hold, FreezeAt
    <3>2. v = w /\ StreamOf(d) = "lifecycle"
      BY <1>2, <1>5, <3>1 DEF Store
    <3>3. stream'[<<v, StreamOf(d)>>].state = "reconciliation_needed"
      BY <1>1, <2>4, MismatchFreezes, HoldFreezes
    <3> QED  BY <3>2, <3>3
  <2>5. ASSUME NEW v \in Workspaces, IgnoreStale(d, v) \/ Apply(d, v)
        PROVE  FALSE
    <3>1. PICK state \in {"ignored", "applied"} : Store(d, state, v)
      BY <2>5 DEF IgnoreStale, Apply
    <3> QED  BY <1>2, <1>5, <3>1 DEF Store
  <2> QED  BY <2>1, <2>2, <2>3, <2>4, <2>5 DEF Deliver
<1> QED  BY <1>4, <1>5

LEMMA PendingStep ==
    ASSUME Typed, PendingFreezes, [Next]_vars
    PROVE  PendingFreezes'
<1>1. TypeOK /\ Attempting
  BY DEF Typed
<1>2. CASE UNCHANGED <<event, stream, workspace>>
  BY <1>2 DEF PendingFreezes, Pending
<1>3. ASSUME NEW v \in Workspaces, NEW s \in Streams, NEW c \in Commands,
             Commits(v, s, c), Reconcile(v, s, c)
      PROVE  PendingFreezes'
  <2> SUFFICES ASSUME NEW e \in Ids, NEW w \in Workspaces,
                      event'[e].state \in {"unresolved", "reconciliation_needed"},
                      event'[e].workspace = w,
                      StreamOf(event'[e].delivery) = "lifecycle",
                      workspace'[w].customer # None
               PROVE  stream'[<<w, "lifecycle">>].state # "in_sync"
    BY DEF PendingFreezes, Pending
  <2> DEFINE k == <<w, "lifecycle">>
  <2>1. event' = [i \in Ids |->
                    IF i \in c.resolved
                    THEN [event[i] EXCEPT !.state = "reconciled", !.workspace = v]
                    ELSE event[i]]
    BY <1>3 DEF Reconcile
  <2>2. e \notin c.resolved
    <3> SUFFICES ASSUME e \in c.resolved PROVE FALSE
      OBVIOUS
    <3>1. event[e] \in Rows
      BY <1>1, <1>3 DEF Commits, Resolvable, Pending, TypeOK, Absent
    <3> QED  BY <2>1, <3>1 DEF Rows
  <2>3. event'[e] = event[e]
    BY <2>1, <2>2
  <2>4. workspace[w].customer # None => stream[k].state # "in_sync"
    BY <2>3 DEF PendingFreezes, Pending
  <2>5. ~ (v = w /\ s = "lifecycle")
    <3> SUFFICES ASSUME v = w, s = "lifecycle" PROVE FALSE
      OBVIOUS
    <3>1. e \in Attributable(v, s, c.customer, c.bindings)
      BY <2>3 DEF Attributable, Pending
    <3> QED  BY <1>3, <2>2, <3>1 DEF Commits
  <2>6. workspace'[w] = workspace[w]
    <3>1. CASE s = "tax"
      BY <1>3, <3>1 DEF Reconcile
    <3>2. CASE s # "tax"
      <4>1. v # w
        BY <2>5, <3>2 DEF Streams
      <4> QED  BY <1>1, <1>3, <4>1 DEF Reconcile, TypeOK
    <3> QED  BY <3>1, <3>2
  <2>7. stream'[k] = stream[k]
    BY <1>1, <1>3, <2>5 DEF Reconcile, TypeOK, Keys, Streams
  <2> QED  BY <2>4, <2>6, <2>7
<1>4. ASSUME NEW v \in Workspaces, NEW s \in Streams, Operate(v, s)
      PROVE  PendingFreezes'
  <2>1. <<v, s>> \in Keys
    BY DEF Keys
  <2>2. CASE UNCHANGED ledgerVars
    BY <1>2, <2>2 DEF ledgerVars
  <2> QED
    BY <1>1, <1>3, <1>4, <2>1, <2>2, PhaseOK
    DEF Operate, StartSnapshot, FinishSnapshot, Prepare, Commit, Abandon
<1>5. ASSUME NEW v \in Governed, NEW status, Administer(v, status)
      PROVE  PendingFreezes'
  <2>1. /\ UNCHANGED <<event, stream>>
        /\ \A w \in Workspaces : workspace'[w].customer = workspace[w].customer
    BY <1>1, <1>5 DEF Administer, TypeOK
  <2> QED  BY <2>1 DEF PendingFreezes, Pending
<1> QED
  BY <1>1, <1>2, <1>4, <1>5, PendingDeliver
  DEF Next, vars, Toggle, Tick, ledgerVars

\* A pending event keeps the stream of its workspace out of sync until a snapshot
\* accounts for it: PendingFreezes.
THEOREM PendingEventsFreeze == Spec => []PendingFreezes
<1>1. Init => PendingFreezes
  BY DEF Init, PendingFreezes, Pending, Absent
<1>2. Typed /\ PendingFreezes /\ [Next]_vars => PendingFreezes'
  BY PendingStep
<1>3. Spec => []Typed
  BY TypedInit, TypedStep, PTL DEF Spec
<1> QED  BY <1>1, <1>2, <1>3, PTL DEF Spec

-----------------------------------------------------------------------------
(* Objects stay with one workspace                                          *)

\* A transaction that could bind its objects moves no object that is bound.
LEMMA BindKeeps ==
    ASSUME NEW objects, NEW w, NEW customer, NEW o \in Objects,
           NEW owner \in Owners, binding[o] = owner,
           Bindable(objects, w, customer), Bind(objects, w, customer)
    PROVE  binding'[o] = owner
<1>1. owner # None
  BY HistoryAssumption
<1> QED  BY <1>1 DEF Bindable, Bind

\* A workspace takes over at most what the transaction binds.
Takes(w, objects, customer) ==
    LET old == workspace[w]
        new == workspace'[w]
    IN  /\ new.customer = customer /\ old.customer \in {None, customer}
        /\ customer \in objects \cup {old.customer}
        /\ new.subscription \in objects \cup {old.subscription, None}

LEMMA TenantBound ==
    ASSUME TypeOK, OneTenant, Identified, NEW w \in Workspaces,
           NEW objects \in SUBSET Objects, NEW customer \in Objects,
           Bindable(objects, w, customer), Bind(objects, w, customer),
           \A v \in Workspaces :
              \/ /\ workspace'[v].customer = workspace[v].customer
                 /\ workspace'[v].subscription = workspace[v].subscription
              \/ v = w /\ Takes(v, objects, customer)
    PROVE  OneTenant'
<1> SUFFICES ASSUME NEW v \in Workspaces
             PROVE  /\ workspace'[v].customer # None
                          => binding'[workspace'[v].customer]
                               = Owner(v, workspace'[v].customer)
                    /\ workspace'[v].subscription # None
                          => binding'[workspace'[v].subscription]
                               = Owner(v, workspace'[v].customer)
  BY DEF OneTenant
<1> DEFINE old == workspace[v]
           new == workspace'[v]
<1>1. old.customer \in ObjectOrNone /\ old.subscription \in ObjectOrNone
  BY DEF TypeOK
<1>2. old.subscription # None => old.customer # None
  BY DEF Identified
<1>3. old.customer # None => binding'[old.customer] = Owner(v, old.customer)
  <2> SUFFICES ASSUME old.customer # None
               PROVE  binding'[old.customer] = Owner(v, old.customer)
    OBVIOUS
  <2>1. old.customer \in Objects /\ binding[old.customer] = Owner(v, old.customer)
    BY <1>1 DEF OneTenant, ObjectOrNone
  <2>2. Owner(v, old.customer) \in Owners
    BY <2>1 DEF Owner, Owners
  <2> QED  BY <2>1, <2>2, BindKeeps
<1>4. old.subscription # None
         => binding'[old.subscription] = Owner(v, old.customer)
  <2> SUFFICES ASSUME old.subscription # None
               PROVE  binding'[old.subscription] = Owner(v, old.customer)
    OBVIOUS
  <2>1. old.subscription \in Objects /\ old.customer \in Objects
        /\ binding[old.subscription] = Owner(v, old.customer)
    BY <1>1, <1>2 DEF OneTenant, ObjectOrNone
  <2>2. Owner(v, old.customer) \in Owners
    BY <2>1 DEF Owner, Owners
  <2> QED  BY <2>1, <2>2, BindKeeps
<1>5. CASE new.customer = old.customer /\ new.subscription = old.subscription
  BY <1>3, <1>4, <1>5
<1>6. CASE v = w /\ Takes(v, objects, customer)
  <2>1. \A o \in objects : binding'[o] = Owner(v, customer)
    BY <1>6 DEF Bind
  <2>2. binding'[new.customer] = Owner(v, new.customer)
    <3>1. CASE customer \in objects
      BY <1>6, <2>1, <3>1 DEF Takes
    <3>2. CASE customer = old.customer
      <4>1. old.customer # None
        BY <3>2, HistoryAssumption
      <4> QED  BY <1>3, <1>6, <3>2, <4>1 DEF Takes
    <3> QED  BY <1>6, <3>1, <3>2 DEF Takes
  <2>3. new.subscription # None
           => binding'[new.subscription] = Owner(v, new.customer)
    <3>1. CASE new.subscription \in objects
      BY <1>6, <2>1, <3>1 DEF Takes
    <3>2. CASE new.subscription = old.subscription
      BY <1>2, <1>4, <1>6, <3>2 DEF Takes
    <3> QED  BY <1>6, <3>1, <3>2 DEF Takes
  <2> QED  BY <2>2, <2>3
<1> QED  BY <1>5, <1>6

LEMMA TenantApply ==
    ASSUME TypeOK, OneTenant, Identified, NEW d \in Deliveries,
           NEW w \in Workspaces, Apply(d, w), UNCHANGED attempt
    PROVE  OneTenant' /\ Identified'
<1> DEFINE customer == EffectiveCustomer(d, w)
           found == Ref(d, "customer")
           taken == ProjectedSubscription(d)
           old == workspace[w]
<1>1. workspace \in [Workspaces -> WorkspaceRows]
  BY DEF TypeOK, WorkspaceRows
<1>2. /\ found \in ObjectOrNone /\ found \in d.refs \cup {None}
      /\ taken \in ObjectOrNone /\ taken \in d.refs \cup {None}
      /\ IsIdentity(found, taken)
  BY RefOK, ProjectedSubscriptionOK DEF IsIdentity
<1>3. IsIdentity(old.customer, old.subscription) /\ customer # None
  BY DEF Identified, Apply
<1>4. customer = Or(found, old.customer) /\ old.customer \in ObjectOrNone
  BY <1>1 DEF EffectiveCustomer, WorkspaceRows
<1>5. customer \in Objects /\ d.refs \in SUBSET Objects
  BY <1>2, <1>3, <1>4 DEF Or, ObjectOrNone, Deliveries
<1>6. CASE workspace' = workspace
  <2>1. Identified'
    BY <1>6 DEF Identified
  <2>2. CASE UNCHANGED binding
    BY <1>6, <2>1, <2>2 DEF OneTenant
  <2>3. CASE Bindable(d.refs, w, customer) /\ Bind(d.refs, w, customer)
    BY <1>5, <1>6, <2>1, <2>3, TenantBound
  <2> QED  BY <2>1, <2>2, <2>3 DEF Apply
<1>7. CASE ~ Protected(d, w) /\ workspace' = [workspace EXCEPT ![w] =
              Written(@, ProjectedStatus(d), ProjectedAccess(d), found, taken)]
  <2>1. Bindable(d.refs, w, customer) /\ Bind(d.refs, w, customer)
    BY <1>7 DEF Apply, Protected
  <2>2. /\ workspace'[w].customer = customer
        /\ workspace'[w].subscription = Or(taken, old.subscription)
    <3> DEFINE new == Written(old, ProjectedStatus(d), ProjectedAccess(d), found, taken)
    <3>1. workspace'[w] = new
      BY <1>1, <1>7
    <3>2. old \in WorkspaceRows
      BY <1>1
    <3>3. new.customer = Or(found, old.customer)
          /\ new.subscription = Or(taken, old.subscription)
      <4> HIDE DEF found, taken, old
      <4> QED  BY <1>2, <3>2, ProjectedOK, WrittenOK
    <3> QED  BY <1>4, <3>1, <3>3
  <2>3. \A v \in Workspaces \ {w} : workspace'[v] = workspace[v]
    BY <1>1, <1>7
  <2>4. found \in {None, old.customer} \/ old.customer = None
    BY DEF Apply, Mismatches
  <2>5. Takes(w, d.refs, customer)
    BY <1>2, <1>3, <1>4, <2>2, <2>4 DEF Takes, Or
  <2>6. OneTenant'
    BY <1>5, <2>1, <2>3, <2>5, TenantBound
  <2>7. IsIdentity(workspace'[w].customer, workspace'[w].subscription)
    BY <1>2, <1>3, <1>4, <2>2 DEF IsIdentity, Or
  <2>8. Identified'
    BY <1>3, <2>2, <2>3, <2>7 DEF Identified
  <2> QED  BY <2>6, <2>8
<1> QED  BY <1>6, <1>7 DEF Apply

LEMMA TenantReconcile ==
    ASSUME TypeOK, OneTenant, Identified, NEW w \in Workspaces, NEW s \in Streams,
           attempt[<<w, s>>] \in Commands,
           Commits(w, s, attempt[<<w, s>>]), Reconcile(w, s, attempt[<<w, s>>])
    PROVE  /\ OneTenant'
           /\ \A v \in Workspaces :
                 /\ IsIdentity(workspace'[v].customer, workspace'[v].subscription)
                 /\ workspace'[v].subscription # None
                       => workspace'[v].customer # None
<1> DEFINE c == attempt[<<w, s>>]
           old == workspace[w]
<1>1. workspace \in [Workspaces -> WorkspaceRows] /\ <<w, s>> \in Keys
  BY DEF TypeOK, WorkspaceRows, Keys
<1>2. /\ c.customer \in Objects /\ c.bindings \in SUBSET Objects
      /\ c.subscription \in ObjectOrNone /\ c.status \in Statuses \cup {None}
      /\ c.customer # None
  BY HistoryAssumption DEF Commands
<1>3. c # Idle
  BY DEF Commands, Idle
<1>4. /\ IsIdentity(c.customer, c.subscription)
      /\ c.customer \in c.bindings
      /\ s = "lifecycle" => c.subscription \in c.bindings \cup {None}
  BY <1>1, <1>3 DEF Identified
<1>5. Bindable(c.bindings, w, c.customer) /\ Bind(c.bindings, w, c.customer)
  BY DEF Commits, Reconcile
<1>6. CASE workspace' = workspace
  BY <1>2, <1>5, <1>6, TenantBound DEF Identified
<1>7. CASE s = "lifecycle" /\ \E access \in Accesses :
              workspace' = [workspace EXCEPT ![w] =
                 Written(@, c.status, access, c.customer, c.subscription)]
  <2>1. /\ workspace'[w].customer = c.customer
        /\ workspace'[w].subscription = Or(c.subscription, old.subscription)
    <3>1. PICK access \in Accesses : workspace' = [workspace EXCEPT ![w] =
                 Written(@, c.status, access, c.customer, c.subscription)]
      BY <1>7
    <3>2. c.customer \in ObjectOrNone /\ access \in Accesses \cup {None}
      BY <1>2 DEF ObjectOrNone
    <3>3. Or(c.customer, old.customer) = c.customer
      BY <1>2 DEF Or
    <3> QED  BY <1>1, <1>2, <3>1, <3>2, <3>3, WrittenOK
  <2>2. \A v \in Workspaces \ {w} : workspace'[v] = workspace[v]
    BY <1>1, <1>7
  <2>3. /\ old.customer \in {None, c.customer}
        /\ old.subscription = None \/ c.subscription # None
    BY <1>7 DEF Commits, Identity
  <2>4. Takes(w, c.bindings, c.customer)
    BY <1>4, <1>7, <2>1, <2>3 DEF Takes, Or
  <2>5. OneTenant'
    BY <1>2, <1>5, <2>2, <2>4, TenantBound
  <2>6. IsIdentity(workspace'[w].customer, workspace'[w].subscription)
    BY <1>4, <2>1, <2>3 DEF IsIdentity, Or
  <2> QED  BY <1>2, <2>1, <2>2, <2>5, <2>6 DEF Identified
<1> QED  BY <1>6, <1>7 DEF Reconcile, Accesses, Streams

\* A snapshot or a command keeps the identity it is about.
LEMMA HandIdentified ==
    ASSUME Attempting, Identified, NEW k \in Keys, workspace' = workspace,
           NEW hand, attempt' = [attempt EXCEPT ![k] = hand],
           hand # Idle => IsIdentity(hand.customer, hand.subscription),
           hand \in Commands =>
              /\ hand.customer \in hand.bindings
              /\ k[2] = "lifecycle" =>
                    hand.subscription \in hand.bindings \cup {None}
    PROVE  Identified'
<1>1. \A j \in Keys : attempt'[j] = attempt[j] \/ (j = k /\ attempt'[j] = hand)
  BY DEF Attempting
<1> QED  BY <1>1 DEF Identified

LEMMA TenantOperate ==
    ASSUME Typed, OneTenant, Identified, NEW w \in Workspaces, NEW s \in Streams,
           Operate(w, s)
    PROVE  OneTenant' /\ Identified'
<1> DEFINE k == <<w, s>>
           a == attempt[k]
<1>1. TypeOK /\ Attempting /\ k \in Keys
  BY DEF Typed, Keys
<1>2. a \in Snapshots \cup Commands => IsIdentity(a.customer, a.subscription)
  BY <1>1 DEF Identified, Idle, Snapshots, Commands
<1>3. ASSUME UNCHANGED ledgerVars, Identified'
      PROVE  OneTenant' /\ Identified'
  BY <1>3 DEF OneTenant, ledgerVars
<1>4. CASE StartSnapshot(w, s)
  <2>1. PICK target \in Targets(w) :
           /\ target.customer # None
           /\ attempt' = [attempt EXCEPT ![k] =
                 [phase |-> "reading", request |-> acts + 1, observed |-> now,
                  status |-> IF s = "lifecycle"
                             THEN StatusAt(target.subscription, now) ELSE None,
                  customer |-> target.customer,
                  subscription |-> IF s = "lifecycle" THEN target.subscription
                                   ELSE None]]
    BY <1>4 DEF StartSnapshot
  <2>2. IsIdentity(target.customer, target.subscription)
    BY <1>1, TargetsOK DEF Identified
  <2> DEFINE hand == [phase |-> "reading", request |-> acts + 1, observed |-> now,
                      status |-> IF s = "lifecycle"
                                 THEN StatusAt(target.subscription, now) ELSE None,
                      customer |-> target.customer,
                      subscription |-> IF s = "lifecycle"
                                       THEN target.subscription ELSE None]
  <2>3. IsIdentity(hand.customer, hand.subscription) /\ hand \notin Commands
    BY <2>2 DEF IsIdentity, Commands
  <2>4. attempt' = [attempt EXCEPT ![k] = hand] /\ UNCHANGED ledgerVars
    BY <1>4, <2>1 DEF StartSnapshot
  <2>5. workspace' = workspace
    BY <2>4 DEF ledgerVars
  <2>6. Identified'
    <3> HIDE DEF hand, k
    <3> QED  BY <1>1, <2>3, <2>4, <2>5, HandIdentified
  <2> QED  BY <1>3, <2>4, <2>6
<1>5. CASE FinishSnapshot(w, s)
  <2>1. a \in Snapshots
    BY <1>1, <1>5, PhaseOK DEF FinishSnapshot
  <2> DEFINE hand == IF s = "tax" \/ StatusAt(a.subscription, now) = a.status
                     THEN [a EXCEPT !.phase = "read"] ELSE Idle
  <2>2. hand # Idle => IsIdentity(hand.customer, hand.subscription)
    BY <1>2, <2>1 DEF Snapshots
  <2>3. hand \notin Commands
    BY <2>1 DEF Snapshots, Commands, Idle
  <2>4. attempt' = [attempt EXCEPT ![k] = hand] /\ UNCHANGED ledgerVars
    BY <1>5 DEF FinishSnapshot
  <2>5. workspace' = workspace
    BY <2>4 DEF ledgerVars
  <2>6. Identified'
    <3> HIDE DEF hand, k
    <3> QED  BY <1>1, <2>2, <2>3, <2>4, <2>5, HandIdentified
  <2> QED  BY <1>3, <2>4, <2>6
<1>6. CASE Prepare(w, s)
  <2>1. a \in Snapshots
    BY <1>1, <1>6, PhaseOK DEF Prepare
  <2>2. a.customer # None /\ IsIdentity(a.customer, a.subscription)
    BY <1>2, <2>1, HistoryAssumption DEF Snapshots
  <2>3. PICK resolved, bindings :
           /\ a.customer \in bindings
           /\ s = "lifecycle" => a.subscription \in bindings \cup {None}
           /\ attempt' = [attempt EXCEPT ![k] =
                 [phase |-> "attempted", request |-> a.request,
                  observed |-> a.observed, status |-> a.status,
                  customer |-> a.customer, subscription |-> a.subscription,
                  revision |-> stream[k].revision,
                  resolved |-> resolved, bindings |-> bindings]]
    <3> DEFINE own == {a.customer, a.subscription} \ {None}
               pendingRefs == UNION {event[e].delivery.refs :
                                e \in Attributable(w, s, a.customer, BoundTo(w))}
               objects == {o \in BoundTo(w) \cup own \cup pendingRefs :
                             o[1] = "customer" => o = a.customer}
               bindings == IF s = "lifecycle" THEN objects
                           ELSE {o \in objects : o[1] \in {"customer", "tax_id"}}
    <3>1. a.customer \in objects
      BY <2>2
    <3>2. a.subscription \in objects \cup {None}
      BY <2>2 DEF IsIdentity
    <3>3. a.customer \in bindings
      BY <2>2, <3>1 DEF IsIdentity
    <3>4. s = "lifecycle" => a.subscription \in bindings \cup {None}
      BY <3>2
    <3>5. attempt' = [attempt EXCEPT ![k] =
             [phase |-> "attempted", request |-> a.request,
              observed |-> a.observed, status |-> a.status,
              customer |-> a.customer, subscription |-> a.subscription,
              revision |-> stream[k].revision,
              resolved |-> Attributable(w, s, a.customer, bindings),
              bindings |-> bindings]]
      BY <1>6 DEF Prepare
    <3> HIDE DEF bindings
    <3> QED  BY <3>3, <3>4, <3>5
  <2> DEFINE hand == [phase |-> "attempted", request |-> a.request,
                      observed |-> a.observed, status |-> a.status,
                      customer |-> a.customer, subscription |-> a.subscription,
                      revision |-> stream[k].revision,
                      resolved |-> resolved, bindings |-> bindings]
  <2>4. /\ IsIdentity(hand.customer, hand.subscription)
        /\ hand.customer \in hand.bindings
        /\ k[2] = "lifecycle" => hand.subscription \in hand.bindings \cup {None}
        /\ attempt' = [attempt EXCEPT ![k] = hand]
    BY <2>2, <2>3
  <2>5. UNCHANGED ledgerVars /\ workspace' = workspace
    BY <1>6 DEF Prepare, ledgerVars
  <2>6. Identified'
    <3> HIDE DEF hand, k
    <3> QED  BY <1>1, <2>4, <2>5, HandIdentified
  <2> QED  BY <1>3, <2>5, <2>6
<1>7. CASE Commit(w, s)
  <2>1. a \in Commands
    BY <1>1, <1>7, PhaseOK DEF Commit
  <2>2. attempt' \in {attempt, [attempt EXCEPT ![k] = Idle]}
    BY <1>7 DEF Commit
  <2>3. \A j \in Keys : attempt'[j] \in {attempt[j], Idle}
    BY <1>1, <2>2 DEF Attempting
  <2>4. Idle \notin Commands
    BY DEF Idle, Commands
  <2>5. CASE Commits(w, s, a) /\ Reconcile(w, s, a)
    <3>1. /\ OneTenant'
          /\ \A v \in Workspaces :
                /\ IsIdentity(workspace'[v].customer, workspace'[v].subscription)
                /\ workspace'[v].subscription # None
                      => workspace'[v].customer # None
      BY <1>1, <2>1, <2>5, TenantReconcile
    <3> QED  BY <2>3, <2>4, <3>1 DEF Identified
  <2>6. CASE UNCHANGED ledgerVars
    <3>1. Identified'
      BY <2>3, <2>4, <2>6 DEF Identified, ledgerVars
    <3> QED  BY <1>3, <2>6, <3>1
  <2> QED  BY <1>7, <2>5, <2>6 DEF Commit
<1>8. CASE Abandon(w, s)
  <2>1. attempt' = [attempt EXCEPT ![k] = Idle] /\ UNCHANGED ledgerVars
    BY <1>8 DEF Abandon
  <2>2. Idle \notin Commands
    BY DEF Idle, Commands
  <2>3. workspace' = workspace
    BY <2>1 DEF ledgerVars
  <2>4. Identified'
    BY <1>1, <2>1, <2>2, <2>3, HandIdentified
  <2> QED  BY <1>3, <2>1, <2>4
<1> QED  BY <1>4, <1>5, <1>6, <1>7, <1>8 DEF Operate

LEMMA TenantStep ==
    ASSUME Typed, OneTenant, Identified, [Next]_vars
    PROVE  OneTenant' /\ Identified'
<1>1. TypeOK /\ Attempting
  BY DEF Typed
<1>2. CASE UNCHANGED <<workspace, binding, attempt>>
  BY <1>2 DEF OneTenant, Identified
<1>3. ASSUME UNCHANGED <<binding, attempt>>,
             \A w \in Workspaces :
                /\ workspace'[w].customer = workspace[w].customer
                /\ workspace'[w].subscription = workspace[w].subscription
      PROVE  OneTenant' /\ Identified'
  BY <1>3 DEF OneTenant, Identified
<1>4. ASSUME NEW d \in history, Deliver(d)
      PROVE  OneTenant' /\ Identified'
  <2>1. d \in Deliveries /\ UNCHANGED attempt
    BY <1>1, <1>4, HistoryOK, DeliverKeeps
  <2> QED
    BY <1>1, <1>2, <1>3, <1>4, <2>1, DeliverFreezesOrApplies, TenantApply
    DEF Freezing
<1>5. ASSUME NEW w \in Governed, NEW status, Administer(w, status)
      PROVE  OneTenant' /\ Identified'
  <2>1. \A v \in Workspaces :
           /\ workspace'[v].customer = workspace[v].customer
           /\ workspace'[v].subscription = workspace[v].subscription
    BY <1>1, <1>5 DEF Administer, TypeOK
  <2> QED  BY <1>3, <1>5, <2>1 DEF Administer
<1> QED
  BY <1>2, <1>4, <1>5, TenantOperate
  DEF Next, vars, Toggle, Tick, ledgerVars, operatorVars

\* A customer and a subscription belong to one workspace, and the bindings say
\* the same as its columns: OneTenant.
THEOREM ObjectsHaveOneTenant == Spec => []OneTenant
<1>1. Init => OneTenant /\ Identified
  BY DEF Init, OneTenant, Identified, IsIdentity, Commands, Idle
<1>2. Typed /\ OneTenant /\ Identified /\ [Next]_vars => OneTenant' /\ Identified'
  BY TenantStep
<1>3. Spec => []Typed
  BY TypedInit, TypedStep, PTL DEF Spec
<1> QED  BY <1>1, <1>2, <1>3, PTL DEF Spec

-----------------------------------------------------------------------------
(* Receipts are a chain                                                     *)

ReceiptRows ==
    [request : 1..MaxActs, key : Keys, revision : Nat, cutoff : 0..MaxTime]

Chained == receipts \subseteq ReceiptRows /\ ReceiptsAreOrdered

\* Rows that move forward stay ahead of their receipts.
LEMMA RowsAhead ==
    ASSUME Typed, Chained, Typed', receipts' = receipts,
           \A k \in Keys : /\ stream'[k].revision >= stream[k].revision
                           /\ stream'[k].last >= stream[k].last
    PROVE  Chained'
<1>1. \A k \in Keys : /\ stream[k].revision \in Int /\ stream[k].last \in Int
                      /\ stream'[k].revision \in Int /\ stream'[k].last \in Int
  BY TimeAssumption DEF Typed, TypeOK
<1>2. ASSUME NEW r \in receipts
      PROVE  /\ r.revision <= stream'[r.key].revision
             /\ r.cutoff <= stream'[r.key].last
  <2>1. r.key \in Keys /\ r.revision \in Int /\ r.cutoff \in Int
    BY TimeAssumption DEF Chained, ReceiptRows
  <2>2. /\ r.revision <= stream[r.key].revision
        /\ r.cutoff <= stream[r.key].last
    BY DEF Chained, ReceiptsAreOrdered
  <2> QED  BY <1>1, <2>1, <2>2
<1> QED  BY <1>2 DEF Chained, ReceiptsAreOrdered

LEMMA ChainReconcile ==
    ASSUME Typed, Chained, NEW w \in Workspaces, NEW s \in Streams,
           NEW c \in Commands, ~ Committed(w, s, c), Commits(w, s, c),
           Reconcile(w, s, c)
    PROVE  Chained'
<1> DEFINE k == <<w, s>>
           new == [request |-> c.request, key |-> k, revision |-> c.revision + 1,
                   cutoff |-> Second(c.observed)]
<1>1. k \in Keys /\ stream \in [Keys -> StreamRows]
  BY DEF Keys, Typed, TypeOK, StreamRows
<1>2. Second(c.observed) \in 0..MaxTime
  BY SecondOK DEF Commands
<1>3. new \in ReceiptRows
  BY <1>1, <1>2 DEF ReceiptRows, Commands
<1>4. receipts' = receipts \cup {new}
  BY DEF Reconcile
<1>5. stream[k].revision = c.revision /\ stream[k].last < new.cutoff
  BY DEF Commits
<1>6. stream'[k].revision = new.revision /\ stream'[k].last = new.cutoff
  BY <1>1, <1>5 DEF Reconcile, Thawed
<1>7. \A j \in Keys \ {k} : stream'[j] = stream[j]
  BY <1>1 DEF Reconcile
<1>8. ASSUME NEW r \in receipts
      PROVE  /\ r \in ReceiptRows /\ r.request # new.request
             /\ r.revision <= stream[r.key].revision
             /\ r.cutoff <= stream[r.key].last
             /\ r.key = k => r.revision < new.revision /\ r.cutoff < new.cutoff
             /\ \A other \in receipts \ {r} :
                   /\ other.request # r.request
                   /\ other.key = r.key =>
                         (other.revision < r.revision <=> other.cutoff < r.cutoff)
  <2>1. r \in ReceiptRows /\ r.request # new.request
    BY DEF Chained, Committed
  <2>2. /\ r.revision <= stream[r.key].revision
        /\ r.cutoff <= stream[r.key].last
        /\ \A other \in receipts \ {r} :
              /\ other.request # r.request
              /\ other.key = r.key =>
                    (other.revision < r.revision <=> other.cutoff < r.cutoff)
    BY DEF Chained, ReceiptsAreOrdered
  <2>3. /\ stream[k].revision \in Int /\ stream[k].last \in Int
        /\ r.revision \in Int /\ r.cutoff \in Int /\ new.cutoff \in Int
    BY <1>1, <1>3, <2>1, TimeAssumption DEF StreamRows, ReceiptRows
  <2>4. r.key = k => r.revision < new.revision /\ r.cutoff < new.cutoff
    BY <1>5, <2>2, <2>3
  <2> QED  BY <2>1, <2>2, <2>4
<1>9. \A r \in receipts' : /\ r.revision <= stream'[r.key].revision
                           /\ r.cutoff <= stream'[r.key].last
  <2>1. ASSUME NEW r \in receipts
        PROVE  r.revision <= stream'[r.key].revision
               /\ r.cutoff <= stream'[r.key].last
    <3>1. r.key \in Keys /\ r.revision \in Int /\ r.cutoff \in Int
          /\ new.revision \in Int /\ new.cutoff \in Int
      BY <1>3, <1>8, <2>1, TimeAssumption DEF ReceiptRows
    <3>2. CASE r.key = k
      BY <1>6, <1>8, <2>1, <3>1, <3>2
    <3>3. CASE r.key # k
      BY <1>7, <1>8, <2>1, <3>1, <3>3
    <3> QED  BY <3>2, <3>3
  <2>2. new.revision \in Int /\ new.cutoff \in Int
    BY <1>3, TimeAssumption DEF ReceiptRows
  <2> QED  BY <1>4, <1>6, <2>1, <2>2
<1>10. \A r \in receipts' : \A other \in receipts' \ {r} :
          /\ other.request # r.request
          /\ other.key = r.key =>
                (other.revision < r.revision <=> other.cutoff < r.cutoff)
  <2>1. ASSUME NEW r \in receipts
        PROVE  /\ r.revision \in Int /\ r.cutoff \in Int
               /\ new.revision \in Int /\ new.cutoff \in Int
    BY <1>3, <1>8, <2>1, TimeAssumption DEF ReceiptRows
  <2> HIDE DEF new
  <2>2. new.key = k
    BY DEF new
  <2> QED  BY <1>4, <1>8, <2>1, <2>2
<1>11. receipts' \subseteq ReceiptRows
  BY <1>3, <1>4, <1>8
<1> QED  BY <1>9, <1>10, <1>11 DEF Chained, ReceiptsAreOrdered

LEMMA ChainStep ==
    ASSUME Typed, Chained, [Next]_vars
    PROVE  Chained'
<1>1. TypeOK /\ Attempting /\ Typed'
  BY TypedStep DEF Typed
<1>2. stream \in [Keys -> StreamRows]
  BY <1>1 DEF TypeOK, StreamRows
<1>3. \A k \in Keys : stream[k].revision \in Int /\ stream[k].last \in Int
  BY <1>2, TimeAssumption DEF StreamRows
<1>4. CASE UNCHANGED <<stream, receipts>>
  BY <1>1, <1>3, <1>4, RowsAhead
<1>5. ASSUME NEW d \in history, Deliver(d)
      PROVE  Chained'
  <2>1. d \in Deliveries /\ receipts' = receipts
    BY <1>1, <1>5, HistoryOK, DeliverKeeps
  <2>2. CASE Freezing
    BY <1>1, <1>3, <2>1, <2>2, RowsAhead DEF Freezing
  <2>3. ASSUME NEW w \in Workspaces, Apply(d, w)
        PROVE  Chained'
    <3> DEFINE k == <<w, StreamOf(d)>>
    <3>1. /\ k \in Keys
          /\ \E row : /\ stream' = [stream EXCEPT ![k] = row]
                      /\ row.last > stream[k].last
                      /\ row.revision = stream[k].revision + 1
      BY <1>1, <2>1, <2>3, ApplyMoves
    <3>2. \A j \in Keys : stream'[j].last \in Int
      BY <1>1, TimeAssumption DEF Typed, TypeOK
    <3>3. /\ stream'[k].last >= stream[k].last
          /\ stream'[k].revision >= stream[k].revision
          /\ \A j \in Keys \ {k} : stream'[j] = stream[j]
      BY <1>2, <1>3, <3>1, <3>2
    <3> QED  BY <1>1, <1>3, <2>1, <3>3, RowsAhead
  <2> QED  BY <1>1, <1>4, <1>5, <2>1, <2>2, <2>3, DeliverFreezesOrApplies
<1>6. ASSUME NEW w \in Workspaces, NEW s \in Streams, Operate(w, s)
      PROVE  Chained'
  <2>1. <<w, s>> \in Keys
    BY DEF Keys
  <2>2. CASE UNCHANGED ledgerVars
    BY <1>4, <2>2 DEF ledgerVars
  <2> QED
    BY <1>1, <1>6, <2>1, <2>2, ChainReconcile, PhaseOK
    DEF Operate, StartSnapshot, FinishSnapshot, Prepare, Commit, Abandon
<1> QED
  BY <1>4, <1>5, <1>6
  DEF Next, vars, Administer, Toggle, Tick, ledgerVars

\* The receipts of a stream are a chain of growing revisions and cuts, and no
\* request has two: ReceiptsAreOrdered.
THEOREM ReceiptsAreAChain == Spec => []ReceiptsAreOrdered
<1>1. Init => Chained
  BY DEF Init, Chained, ReceiptsAreOrdered
<1>2. Typed /\ Chained /\ [Next]_vars => Chained'
  BY ChainStep
<1>3. Chained => ReceiptsAreOrdered
  BY DEF Chained
<1>4. Spec => []Typed
  BY TypedInit, TypedStep, PTL DEF Spec
<1> QED  BY <1>1, <1>2, <1>3, <1>4, PTL DEF Spec

-----------------------------------------------------------------------------
(* An ended subscription is not revived                                     *)

Reactivates(w) ==
    LET s == stream[<<w, "lifecycle">>] IN
    /\ workspace[w].status # "active" /\ workspace'[w].status = "active"
    /\ event' # event /\ receipts' = receipts
    => /\ s.state # "reconciliation_needed"
       /\ s.terminal => stream'[<<w, "lifecycle">>].subscription # s.subscription

LEMMA ApplyRevives ==
    ASSUME TypeOK, NEW d \in Deliveries, NEW w \in Workspaces, Apply(d, w),
           workspace[w].status # "active", workspace'[w].status = "active"
    PROVE  LET s == stream[<<w, "lifecycle">>] IN
           /\ s.state # "reconciliation_needed"
           /\ s.terminal => stream'[<<w, "lifecycle">>].subscription # s.subscription
<1> DEFINE k == <<w, "lifecycle">>
           s == stream[k]
           current == Current(d, w)
           taken == Ref(d, "subscription")
<1>1. /\ workspace \in [Workspaces -> WorkspaceRows]
      /\ stream \in [Keys -> StreamRows] /\ k \in Keys
  BY DEF TypeOK, WorkspaceRows, StreamRows, Keys, Streams
<1>2. StreamOf(d) = "lifecycle" /\ ~ Protected(d, w)
  BY DEF Apply
<1>3. s.state # "reconciliation_needed"
  BY <1>2, ApplyMoves
<1>4. ProjectedStatus(d) = "active"
  <2>1. workspace'[w] = Written(workspace[w], ProjectedStatus(d),
                                ProjectedAccess(d), Ref(d, "customer"),
                                ProjectedSubscription(d))
    BY <1>1, <1>2 DEF Apply
  <2> QED  BY <1>1, <2>1, ProjectedOK, ProjectedSubscriptionOK, RefOK, WrittenOK
<1>5. ASSUME s.terminal
      PROVE  stream'[k].subscription # s.subscription
  <2>1. current.terminal /\ (s.state # "absent" => current = s)
        /\ (s.state = "absent" => current.subscription = taken)
    BY <1>2, <1>5, CurrentOK
  <2>2. NewSubscription(d, current)
    BY <1>2, <1>4, <2>1 DEF Apply, Disputed
  <2>3. taken \notin {None, current.subscription}
    BY <2>2 DEF NewSubscription
  <2>4. stream'[k].subscription = taken
    BY <1>1, <1>2, <2>3 DEF Apply, Or
  <2> QED  BY <2>1, <2>3, <2>4
<1> QED  BY <1>3, <1>5

LEMMA RevivalStep ==
    ASSUME Typed, [Next]_vars, NEW w \in Workspaces
    PROVE  Reactivates(w)
<1>1. TypeOK /\ Attempting
  BY DEF Typed
<1>2. CASE UNCHANGED event
  BY <1>2 DEF Reactivates
<1>3. ASSUME NEW d \in history, Deliver(d)
      PROVE  Reactivates(w)
  <2>1. d \in Deliveries
    BY <1>1, <1>3, HistoryOK
  <2>2. CASE Freezing \/ UNCHANGED workspace
    BY <2>2 DEF Freezing, Reactivates
  <2>3. ASSUME NEW v \in Workspaces, Apply(d, v)
        PROVE  Reactivates(w)
    <3>1. CASE v = w
      BY <1>1, <2>1, <2>3, <3>1, ApplyRevives DEF Reactivates
    <3>2. CASE v # w
      <4>1. workspace'[w] = workspace[w]
        BY <1>1, <2>3, <3>2 DEF Apply, TypeOK
      <4> QED  BY <4>1 DEF Reactivates
    <3> QED  BY <3>1, <3>2
  <2> QED  BY <1>1, <1>3, <2>2, <2>3, DeliverFreezesOrApplies
<1>4. ASSUME NEW v \in Workspaces, NEW s \in Streams, Operate(v, s)
      PROVE  Reactivates(w)
  <2>1. CASE UNCHANGED ledgerVars
    BY <1>2, <2>1 DEF ledgerVars
  <2>2. CASE ~ Committed(v, s, attempt[<<v, s>>])
             /\ Reconcile(v, s, attempt[<<v, s>>])
    <3>1. PICK r : /\ r.request = attempt[<<v, s>>].request
                   /\ receipts' = receipts \cup {r}
      BY <2>2 DEF Reconcile
    <3>2. r \notin receipts
      BY <2>2, <3>1 DEF Committed
    <3> QED  BY <3>1, <3>2 DEF Reactivates
  <2> QED
    BY <1>4, <2>1, <2>2
    DEF Operate, StartSnapshot, FinishSnapshot, Prepare, Commit, Abandon
<1> QED
  BY <1>2, <1>3, <1>4 DEF Next, vars, Administer, Toggle, Tick, ledgerVars

\* A webhook that makes a workspace active found its stream in sync, and either no
\* ended subscription or a checkout of a new one: NoRevival.
THEOREM NothingIsRevived == Spec => NoRevival
<1>1. Typed /\ [Next]_vars => \A w \in Workspaces : Reactivates(w)
  BY RevivalStep
<1>2. Spec => []Typed
  BY TypedInit, TypedStep, PTL DEF Spec
<1>3. Typed /\ [Next]_vars => [\A w \in Workspaces : Reactivates(w)]_vars
  BY <1>1
<1>4. Spec => [][\A w \in Workspaces : Reactivates(w)]_vars
  BY <1>2, <1>3, PTL DEF Spec
<1> QED  BY <1>4 DEF NoRevival, Reactivates
-----------------------------------------------------------------------------
(* The newest status wins                                                   *)

\* StatusAt of a given history.
StatusOf(emitted, subscription, t) ==
    LET said == {d \in emitted :
                    /\ subscription \in d.refs /\ d.at <= t
                    /\ ProjectedStatus(d) # None}
    IN  IF said = {} THEN None
        ELSE IF \E d \in said : d.type = "customer.subscription.deleted" THEN "cancelled"
        ELSE ProjectedStatus(CHOOSE d \in said : \A x \in said : x.at <= d.at)

Took(e, w) ==
    /\ event[e].state = "applied" /\ event[e].workspace = w
    /\ StreamOf(event[e].delivery) = "lifecycle"

\* A row is never behind an event it took.
AppliedBehind(w) ==
    \A e \in Ids : Took(e, w) =>
        Created(event[e].delivery) <= stream[<<w, "lifecycle">>].last

\* A suspension by hand is known, what is in sync can be frozen, and a snapshot leaves
\* the subscription it was read of.
RowFits(w) ==
    /\ workspace[w].status = "manual_suspended" => touched[w]
    /\ stream[<<w, "lifecycle">>].state = "in_sync" /\ ~ touched[w]
          => workspace[w].customer # None
    /\ Cutoffs(w) # {} => workspace[w].subscription # None

\* NewestStatusWins of one workspace.
LatestWins(w) ==
    LET row == workspace[w]
        said == Projected(w)
    IN  stream[<<w, "lifecycle">>].state = "in_sync" /\ ~ touched[w] =>
        IF said # {} THEN
           \E d \in said : /\ ProjectedStatus(d) = row.status
                           /\ \A x \in said : x.at <= d.at
        ELSE \A c \in Cutoffs(w) :
           \E t \in 0..now : /\ Second(t) >= c
                             /\ StatusOf(history, row.subscription, t) = row.status

\* What an operator has in hand is what Stripe said when it was read.
Truthful(hand, emitted, t) ==
    hand # Idle =>
        /\ hand.subscription # None /\ hand.status \in Readable
        /\ hand.observed <= t
        /\ hand.status = StatusOf(emitted, hand.subscription, hand.observed)

HandsFit ==
    \A w \in Workspaces : Truthful(attempt[<<w, "lifecycle">>], history, now)

StandsAt(w) == AppliedBehind(w) /\ RowFits(w) /\ LatestWins(w)

NewestFits == HandsFit /\ \A w \in Workspaces \ Demo : StandsAt(w)

\* A later instant is in no earlier second.
LEMMA SecondGrows ==
    ASSUME NEW a \in Nat, NEW b \in Nat, Second(a) < Second(b)
    PROVE  a < b
<1> DEFINE n == PerSecond
<1>1. n \in Nat /\ n > 0
  BY TimeAssumption
<1>2. /\ Second(a) \in Nat /\ n * Second(a) <= a /\ a < n * Second(a) + n
      /\ Second(b) \in Nat /\ n * Second(b) <= b
  BY <1>1 DEF Second
<1>3. n * Second(b) >= n * Second(a) + n
  <2>1. PICK m \in Nat : Second(b) = Second(a) + 1 + m
    <3>1. Second(b) - Second(a) - 1 \in Nat
      BY <1>2
    <3> QED  BY <1>2, <3>1
  <2>2. n * Second(b) = n * Second(a) + n + n * m
    <3> HIDE DEF n
    <3>1. \A x \in Nat : n * (x + 1 + m) = n * x + n + n * m
      BY <1>1
    <3> QED  BY <1>2, <2>1, <3>1
  <2>3. n * m >= 0 /\ n * m \in Nat /\ n * Second(a) \in Nat
    BY <1>1, <1>2
  <2> QED  BY <1>1, <2>2, <2>3
<1> DEFINE p == n * Second(a)
           q == n * Second(b)
<1>4. p \in Nat /\ q \in Nat /\ a < p + n /\ q <= b /\ q >= p + n
  BY <1>1, <1>2, <1>3
<1> HIDE DEF p, q, n
<1> QED  BY <1>1, <1>4

\* What the payloads of a mode say of the status.
LEMMA TaxSaysNothing ==
    ASSUME NEW d, StreamOf(d) = "tax"
    PROVE  ProjectedStatus(d) = None
<1>1. d.type \in TaxTypes
  BY DEF StreamOf, Mode
<1> QED  BY <1>1 DEF ProjectedStatus, ReversalTypes, TaxTypes

LEMMA CheckoutSaysSomething ==
    ASSUME NEW d \in Deliveries, Mode(d) = "checkout"
    PROVE  ProjectedStatus(d) # None
<1>1. d.type \in CheckoutTypes
  BY DEF Mode
<1>2. d.type = "checkout.session.completed" => d.outcome # None
  BY DEF Deliveries
<1>3. "active" # None /\ "payment_failed" # None
  BY HistoryAssumption DEF Statuses
<1> QED
  BY <1>1, <1>2, <1>3
  DEF ProjectedStatus, CheckoutTypes, ReversalTypes, TaxTypes

LEMMA NobodySaysNothing ==
    ASSUME TypeOK, NEW t
    PROVE  StatusOf(history, None, t) = None
<1>1. \A d \in history : None \notin d.refs
  BY HistoryOK, HistoryAssumption DEF Deliveries
<1> QED  BY <1>1 DEF StatusOf

LEMMA StatusIsOfHistory ==
    ASSUME NEW subscription, NEW t
    PROVE  StatusAt(subscription, t) = StatusOf(history, subscription, t)
BY DEF StatusAt, StatusOf

LEMMA NewestIsLatest == NewestFits => NewestStatusWins
BY DEF NewestFits, StandsAt, NewestStatusWins, LatestWins, StatusAt, StatusOf

\* The events that count at a workspace, one by one.
LEMMA ProjectedIs ==
    ASSUME NEW w, NEW d
    PROVE  d \in Projected(w) <=>
              /\ \E e \in Ids : /\ event[e].state = "applied" /\ event[e].workspace = w
                                /\ event[e].delivery = d
              /\ ProjectedStatus(d) # None
              /\ \A c \in Cutoffs(w) : c < Created(d)
BY DEF Projected


\* A step that leaves what decides on a workspace alone.
LEMMA StaysLatest ==
    ASSUME NEW w \in Workspaces, LatestWins(w), TypeOK, now' \in Int, now <= now',
           history' = history, Projected(w)' = Projected(w), Cutoffs(w)' = Cutoffs(w),
           LET k == <<w, "lifecycle">> IN
           stream'[k].state = "in_sync" /\ ~ touched'[w] =>
              /\ stream[k].state = "in_sync" /\ ~ touched[w]
              /\ workspace'[w].status = workspace[w].status
              /\ Cutoffs(w) # {}
                    => workspace'[w].subscription = workspace[w].subscription
    PROVE  LatestWins(w)'
<1> DEFINE said == Projected(w)
           cuts == Cutoffs(w)
           status == workspace[w].status
           subscription == workspace[w].subscription
<1> SUFFICES ASSUME stream'[<<w, "lifecycle">>].state = "in_sync", ~ touched'[w]
             PROVE  IF said # {} THEN
                       \E d \in said : /\ ProjectedStatus(d) = workspace'[w].status
                                       /\ \A x \in said : x.at <= d.at
                    ELSE \A c \in cuts :
                       \E t \in 0..now' :
                          /\ Second(t) >= c
                          /\ StatusOf(history, workspace'[w].subscription, t)
                                = workspace'[w].status
  BY DEF LatestWins
<1>1. /\ workspace'[w].status = status
      /\ cuts # {} => workspace'[w].subscription = subscription
  OBVIOUS
<1>2. IF said # {} THEN
         \E d \in said : /\ ProjectedStatus(d) = status
                         /\ \A x \in said : x.at <= d.at
      ELSE \A c \in cuts :
         \E t \in 0..now : /\ Second(t) >= c
                           /\ StatusOf(history, subscription, t) = status
  BY DEF LatestWins
<1>3. now \in Int
  BY TimeAssumption DEF TypeOK
<1>4. 0..now \subseteq 0..now'
  BY <1>3
<1> HIDE DEF said, cuts, status, subscription
<1>5. CASE said # {}
  BY <1>1, <1>2, <1>5
<1>6. CASE said = {}
  BY <1>1, <1>2, <1>4, <1>6
<1> QED  BY <1>5, <1>6

\* A row that is out of sync, or was written by an administrator, promises nothing.
LEMMA NothingPromised ==
    ASSUME NEW w, stream'[<<w, "lifecycle">>].state # "in_sync" \/ touched'[w]
    PROVE  LatestWins(w)'
BY DEF LatestWins

\* A step that does not come near a workspace.
LEMMA StandsStill ==
    ASSUME NEW w \in Workspaces, StandsAt(w), TypeOK, now' \in Int, now <= now',
           history' = history, Projected(w)' = Projected(w), Cutoffs(w)' = Cutoffs(w),
           workspace'[w] = workspace[w], touched'[w] = touched[w],
           stream'[<<w, "lifecycle">>] = stream[<<w, "lifecycle">>],
           \A e \in Ids : Took(e, w)' => Took(e, w) /\ event'[e] = event[e]
    PROVE  StandsAt(w)'
<1>1. AppliedBehind(w)'
  <2> SUFFICES ASSUME NEW e \in Ids, Took(e, w)'
               PROVE  Created(event'[e].delivery) <= stream'[<<w, "lifecycle">>].last
    BY DEF AppliedBehind
  <2> QED  BY DEF StandsAt, AppliedBehind
<1>2. RowFits(w)'
  BY DEF StandsAt, RowFits
<1>3. LatestWins(w)'
  BY StaysLatest DEF StandsAt
<1> QED  BY <1>1, <1>2, <1>3 DEF StandsAt


\* What a delivery that is not projected leaves in sync, it leaves alone.
LEMMA FreezeSpares ==
    ASSUME TypeOK, NEW d \in history, Deliver(d), NEW w \in Workspaces,
           \A v \in Workspaces : ~ Apply(d, v),
           workspace[w].customer # None,
           stream'[<<w, "lifecycle">>].state = "in_sync"
    PROVE  workspace'[w] = workspace[w] /\ ~ Took(d.id, w)
<1> DEFINE old == event[d.id]
<1>1. d \in Deliveries
  BY HistoryOK
<1>2. ASSUME NEW where, NEW s \in Streams, Freeze(where, s)
      PROVE  /\ w \notin where \/ s = "tax"
             /\ workspace'[w] = workspace[w]
  <2>1. w \notin where \/ s = "tax"
    BY <1>2, FreezeOK DEF Streams
  <2>2. workspace' = [v \in Workspaces |->
           IF v \in where /\ s = "lifecycle" THEN Closed(v, workspace[v])
           ELSE workspace[v]]
    BY <1>2 DEF Freeze
  <2> QED  BY <2>1, <2>2
<1>3. CASE Collide(d)
  <2>1. PICK s \in Streams :
           /\ Freeze(Touching(old, d), s)
           /\ s = "tax" => StreamOf(old.delivery) # "lifecycle"
    BY <1>3 DEF Collide, Streams
  <2>2. old.workspace = w => w \in Touching(old, d)
    BY DEF Touching
  <2> QED  BY <1>2, <2>1, <2>2 DEF Took
<1>4. CASE LeaveUnresolved(d)
  BY <1>4 DEF LeaveUnresolved, IsNew, Took
<1>5. CASE RecordContradiction(d)
  <2>1. Freeze(Candidates(d), StreamOf(d)) /\ old.state = "absent"
    BY <1>5 DEF RecordContradiction, IsNew
  <2> QED  BY <1>2, <2>1, StreamOfOK DEF Took
<1>6. ASSUME NEW v \in Workspaces, RecordMismatch(d, v) \/ Hold(d, v)
      PROVE  workspace'[w] = workspace[w] /\ ~ Took(d.id, w)
  <2>1. PICK s : FreezeAt(d, v, s)
    BY <1>6 DEF RecordMismatch, Hold
  <2>2. old.state = "absent"
    BY <1>6 DEF RecordMismatch, Hold, IsPlaced, IsNew
  <2>3. ~ (v = w /\ StreamOf(d) = "lifecycle")
    BY <1>1, <1>6, MismatchFreezes, HoldFreezes
  <2>4. workspace'[w] = workspace[w]
    BY <2>1, <2>3 DEF FreezeAt, TypeOK
  <2> QED  BY <2>2, <2>4 DEF Took
<1>7. ASSUME NEW v \in Workspaces, IgnoreStale(d, v)
      PROVE  workspace'[w] = workspace[w] /\ ~ Took(d.id, w)
  BY <1>7 DEF IgnoreStale, IsPlaced, IsNew, Took
<1> QED  BY <1>3, <1>4, <1>5, <1>6, <1>7 DEF Deliver

\* Only a projection takes an event.
LEMMA OnlyApplyTakes ==
    ASSUME TypeOK, NEW d \in history, Deliver(d), \A v \in Workspaces : ~ Apply(d, v)
    PROVE  event'[d.id].state # "applied"
<1>1. event \in [Ids -> {Absent} \cup Rows] /\ d.id \in Ids
  BY HistoryOK DEF TypeOK, Deliveries
<1>2. ASSUME NEW state \in {"unresolved", "reconciliation_needed", "ignored"},
             NEW v, Store(d, state, v)
      PROVE  event'[d.id].state # "applied"
  BY <1>1, <1>2 DEF Store
<1>3. CASE Collide(d)
  <2>1. event[d.id] \in Rows
    BY <1>1, <1>3 DEF Collide, Absent
  <2>2. event'[d.id] = [event[d.id] EXCEPT !.state = "reconciliation_needed"]
    BY <1>1, <1>3 DEF Collide
  <2> QED  BY <2>1, <2>2 DEF Rows
<1>4. CASE LeaveUnresolved(d)
  BY <1>2, <1>4 DEF LeaveUnresolved
<1>5. CASE RecordContradiction(d)
  BY <1>2, <1>5 DEF RecordContradiction
<1>6. ASSUME NEW v \in Workspaces, RecordMismatch(d, v) \/ Hold(d, v) \/ IgnoreStale(d, v)
      PROVE  event'[d.id].state # "applied"
  BY <1>2, <1>6 DEF RecordMismatch, Hold, IgnoreStale, FreezeAt
<1> QED  BY <1>3, <1>4, <1>5, <1>6 DEF Deliver

\* The events that count do not change when none is taken that says something, and none
\* that was is lost.
LEMMA SameProjected ==
    ASSUME NEW w, Cutoffs(w)' = Cutoffs(w), NEW i,
           \A e \in Ids \ {i} : event'[e] = event[e],
           i \in Ids /\ event[i].state = "applied" /\ event[i].workspace = w
              => ProjectedStatus(event[i].delivery) = None,
           i \in Ids /\ event'[i].state = "applied" /\ event'[i].workspace = w
              => ProjectedStatus(event'[i].delivery) = None
    PROVE  Projected(w)' = Projected(w)
<1>1. ASSUME NEW d
      PROVE  d \in Projected(w)' <=> d \in Projected(w)
  <2>1. d \in Projected(w) <=>
           /\ \E e \in Ids : /\ event[e].state = "applied" /\ event[e].workspace = w
                             /\ event[e].delivery = d
           /\ ProjectedStatus(d) # None
           /\ \A c \in Cutoffs(w) : c < Created(d)
    BY ProjectedIs
  <2>2. d \in Projected(w)' <=>
           /\ \E e \in Ids : /\ event'[e].state = "applied" /\ event'[e].workspace = w
                             /\ event'[e].delivery = d
           /\ ProjectedStatus(d) # None
           /\ \A c \in Cutoffs(w)' : c < Created(d)
    BY DEF Projected
  <2>3. ASSUME ProjectedStatus(d) # None, NEW e \in Ids
        PROVE  /\ event'[e].state = "applied" /\ event'[e].workspace = w
               /\ event'[e].delivery = d
               <=> /\ event[e].state = "applied" /\ event[e].workspace = w
                   /\ event[e].delivery = d
    <3>1. CASE e # i
      BY <3>1
    <3>2. CASE e = i
      BY <2>3, <3>2
    <3> QED  BY <3>1, <3>2
  <2> QED  BY <2>1, <2>2, <2>3
<1>2. Projected(w)' \subseteq Projected(w) /\ Projected(w) \subseteq Projected(w)'
  BY <1>1
<1> QED  BY <1>2

\* A delivery that is not projected.
LEMMA FreezeStands ==
    ASSUME Typed, Typed', NEW d \in history, Deliver(d), NEW w \in Workspaces, StandsAt(w),
           \A v \in Workspaces : ~ Apply(d, v)
    PROVE  StandsAt(w)'
<1> DEFINE k == <<w, "lifecycle">>
<1>1. /\ TypeOK /\ d \in Deliveries /\ d.id \in Ids /\ k \in Keys
      /\ event \in [Ids -> {Absent} \cup Rows]
      /\ now \in Int /\ now' \in Int
  BY HistoryOK, TimeAssumption DEF Typed, TypeOK, Deliveries, Keys, Streams
<1>2. UNCHANGED <<now, history, attempt, receipts, touched>>
  BY DeliverKeeps
<1>3. Cutoffs(w)' = Cutoffs(w)
  BY <1>2 DEF Cutoffs
<1>4. \A e \in Ids \ {d.id} : event'[e] = event[e]
  BY <1>1, OnlyItsRow
<1>5. event'[d.id].state # "applied"
  BY <1>1, OnlyApplyTakes
<1>6. /\ workspace'[w].customer = workspace[w].customer
      /\ workspace'[w].subscription = workspace[w].subscription
      /\ workspace'[w].status \in {"suspended", workspace[w].status}
      /\ stream'[k].last = stream[k].last
      /\ stream'[k].state \in {stream[k].state, "reconciliation_needed"}
  <2>1. Freezing \/ UNCHANGED <<workspace, stream>>
    BY <1>1, DeliverFreezesOrApplies
  <2> QED  BY <1>1, <2>1 DEF Freezing
<1>7. AppliedBehind(w)'
  <2> SUFFICES ASSUME NEW e \in Ids, event'[e].state = "applied",
                      event'[e].workspace = w,
                      StreamOf(event'[e].delivery) = "lifecycle"
               PROVE  Created(event'[e].delivery) <= stream'[k].last
    BY DEF AppliedBehind, Took
  <2>1. event'[e] = event[e]
    BY <1>4, <1>5
  <2> QED  BY <1>6, <2>1 DEF StandsAt, AppliedBehind, Took
<1>8. RowFits(w)'
  BY <1>2, <1>3, <1>6 DEF StandsAt, RowFits
<1>9. LatestWins(w)'
  <2>1. CASE stream'[k].state # "in_sync" \/ touched'[w]
    BY <2>1, NothingPromised
  <2>2. CASE stream'[k].state = "in_sync" /\ ~ touched'[w]
    <3>1. stream[k].state = "in_sync" /\ ~ touched[w] /\ workspace[w].customer # None
      BY <1>2, <1>6, <2>2 DEF StandsAt, RowFits
    <3>2. workspace'[w] = workspace[w] /\ ~ Took(d.id, w)
      BY <1>1, <2>2, <3>1, FreezeSpares
    <3>3. event[d.id].state = "applied" /\ event[d.id].workspace = w
             => ProjectedStatus(event[d.id].delivery) = None
      <4>1. StreamOf(event[d.id].delivery) \in {"lifecycle", "tax"}
        BY StreamOfOK DEF Streams
      <4> QED  BY <3>2, <4>1, TaxSaysNothing DEF Took
    <3>4. Projected(w)' = Projected(w)
      BY <1>3, <1>4, <1>5, <3>3, SameProjected
    <3> QED  BY <1>1, <1>2, <1>3, <3>1, <3>2, <3>4, StaysLatest DEF StandsAt
  <2> QED  BY <2>1, <2>2
<1> QED  BY <1>7, <1>8, <1>9 DEF StandsAt


\* A projected event at another workspace, or in the other stream.
LEMMA ApplyStandsElsewhere ==
    ASSUME Typed, Typed', NEW d \in history, Deliver(d), NEW v \in Workspaces,
           Apply(d, v), NEW w \in Workspaces, StandsAt(w),
           v # w \/ StreamOf(d) # "lifecycle"
    PROVE  StandsAt(w)'
<1> DEFINE k == <<w, "lifecycle">>
<1>1. /\ TypeOK /\ d \in Deliveries /\ d.id \in Ids /\ k \in Keys
      /\ event \in [Ids -> {Absent} \cup Rows]
      /\ now \in Int /\ now' \in Int
  BY HistoryOK, TimeAssumption DEF Typed, TypeOK, Deliveries, Keys, Streams
<1>2. UNCHANGED <<now, history, attempt, receipts, touched>>
  BY DeliverKeeps
<1>3. Cutoffs(w)' = Cutoffs(w)
  BY <1>2 DEF Cutoffs
<1>4. \A e \in Ids \ {d.id} : event'[e] = event[e]
  BY <1>1, OnlyItsRow
<1>5. /\ event[d.id].state = "absent"
      /\ event'[d.id].workspace = v /\ event'[d.id].delivery = d
  <2>1. PICK state : Store(d, state, v)
    BY DEF Apply
  <2>2. event'[d.id] = [state |-> state, workspace |-> v, delivery |-> d]
    BY <1>1, <2>1 DEF Store
  <2>3. event[d.id].state = "absent"
    BY DEF Apply, IsPlaced, IsNew
  <2> QED  BY <2>2, <2>3
<1>6. workspace'[w] = workspace[w] /\ stream'[k] = stream[k]
  BY <1>1 DEF Apply, TypeOK
<1>7. event'[d.id].workspace = w => ProjectedStatus(event'[d.id].delivery) = None
  <2>1. StreamOf(d) \in {"lifecycle", "tax"}
    BY StreamOfOK DEF Streams
  <2> QED  BY <1>5, <2>1, TaxSaysNothing
<1>8. Projected(w)' = Projected(w)
  BY <1>3, <1>4, <1>5, <1>7, SameProjected
<1>9. \A e \in Ids : Took(e, w)' => Took(e, w) /\ event'[e] = event[e]
  BY <1>4, <1>5 DEF Took
<1> QED  BY <1>1, <1>2, <1>3, <1>6, <1>8, <1>9, StandsStill


\* The rows a projected lifecycle event leaves.
LEMMA ApplyWrites ==
    ASSUME Typed, NEW d \in history, NEW w \in Workspaces \ Demo, Apply(d, w),
           StreamOf(d) = "lifecycle"
    PROVE  LET k == <<w, "lifecycle">>
               row == workspace'[w]
               old == workspace[w] IN
           /\ stream'[k].last = Created(d) /\ stream[k].last < Created(d)
           /\ stream[k].state = "absent" => Mode(d) = "checkout"
           /\ stream[k].state \in {"absent", "in_sync"}
           /\ old.status = "manual_suspended" => row.status = old.status
           /\ old.status # "manual_suspended" =>
                 /\ row.customer # None
                 /\ row.status = Or(ProjectedStatus(d), old.status)
           /\ row.subscription
                 \in {old.subscription, Or(ProjectedSubscription(d), old.subscription)}
           /\ event'[d.id].state \in {"applied", "ignored"}
           /\ old.status # "manual_suspended" => event'[d.id].state = "applied"
           /\ event'[d.id].workspace = w /\ event'[d.id].delivery = d
<1> DEFINE k == <<w, "lifecycle">>
           s == Current(d, w)
           old == workspace[w]
           new == Written(old, ProjectedStatus(d), ProjectedAccess(d),
                          Ref(d, "customer"), ProjectedSubscription(d))
<1>1. /\ TypeOK /\ d \in Deliveries /\ d.id \in Ids /\ k \in Keys /\ w \notin Demo
      /\ workspace \in [Workspaces -> WorkspaceRows] /\ stream \in [Keys -> StreamRows]
      /\ event \in [Ids -> {Absent} \cup Rows]
  BY HistoryOK DEF Typed, TypeOK, Deliveries, Keys, Streams, WorkspaceRows, StreamRows
<1>2. /\ stream[k].state \in {"absent", "in_sync"} /\ stream[k].last < Created(d)
      /\ stream'[k].last = Created(d)
  <2>1. \E row : /\ stream' = [stream EXCEPT ![k] = row]
                 /\ row.last > stream[k].last
    BY <1>1, ApplyMoves
  <2>2. stream[k].state # "reconciliation_needed"
    BY <1>1, ApplyMoves
  <2>3. stream'[k].last = Created(d)
    BY <1>1 DEF Apply
  <2>4. stream'[k].last > stream[k].last
    BY <1>1, <2>1
  <2>5. Created(d) \in Int /\ stream[k].last \in Int
    BY <1>1, SecondOK, TimeAssumption DEF Created, Deliveries, StreamRows
  <2>6. stream[k].state \in {"absent", "in_sync", "reconciliation_needed"}
    BY <1>1 DEF StreamRows
  <2> QED  BY <2>2, <2>3, <2>4, <2>5, <2>6
<1>3. ASSUME stream[k].state = "absent"
      PROVE  Mode(d) = "checkout"
  <2>1. s.state # "reconciliation_needed"
    BY DEF Apply, Held
  <2> QED  BY <1>1, <1>3, <2>1 DEF Current, StreamRows
<1>4. /\ event'[d.id].state = (IF Protected(d, w) THEN "ignored" ELSE "applied")
      /\ event'[d.id].workspace = w /\ event'[d.id].delivery = d
  BY <1>1 DEF Apply, Store
<1>5. workspace'[w] = (IF Protected(d, w) THEN old ELSE new)
  BY <1>1 DEF Apply
<1>6. Protected(d, w) <=> old.status = "manual_suspended" /\ ProjectedStatus(d) # None
  BY <1>1 DEF Protected
<1>7. /\ new.customer = EffectiveCustomer(d, w)
      /\ new.subscription = Or(ProjectedSubscription(d), old.subscription)
      /\ new.status = (IF old.status = "manual_suspended" THEN old.status
                       ELSE Or(ProjectedStatus(d), old.status))
  BY DEF Written, EffectiveCustomer
<1>8. EffectiveCustomer(d, w) # None
  BY DEF Apply
<1> HIDE DEF new, old
<1> QED  BY <1>2, <1>3, <1>4, <1>5, <1>6, <1>7, <1>8 DEF old

\* A projected event is the newest of its workspace, and the row says what it says.
LEMMA ApplyStands ==
    ASSUME Typed, Typed', Chained, NEW d \in history, Deliver(d),
           NEW w \in Workspaces \ Demo, Apply(d, w), StandsAt(w),
           StreamOf(d) = "lifecycle"
    PROVE  StandsAt(w)'
<1> DEFINE k == <<w, "lifecycle">>
           old == workspace[w]
           row == workspace'[w]
<1>1. /\ TypeOK /\ d \in Deliveries /\ d.id \in Ids /\ k \in Keys
      /\ event \in [Ids -> {Absent} \cup Rows]
      /\ event' \in [Ids -> {Absent} \cup Rows]
      /\ now \in Int /\ now' \in Int /\ old.subscription \in ObjectOrNone
  BY HistoryOK, TimeAssumption DEF Typed, TypeOK, Deliveries, Keys, Streams
<1>2. UNCHANGED <<now, history, attempt, receipts, touched>>
  BY DeliverKeeps
<1>3. Cutoffs(w)' = Cutoffs(w)
  BY <1>2 DEF Cutoffs
<1>4. \A e \in Ids \ {d.id} : event'[e] = event[e]
  BY <1>1, OnlyItsRow
<1>5. event[d.id].state = "absent"
  BY DEF Apply, IsPlaced, IsNew
<1>6. /\ stream'[k].last = Created(d) /\ stream[k].last < Created(d)
      /\ stream[k].state = "absent" => Mode(d) = "checkout"
      /\ stream[k].state \in {"absent", "in_sync"}
      /\ old.status = "manual_suspended" => row.status = old.status
      /\ old.status # "manual_suspended" =>
            /\ row.customer # None
            /\ row.status = Or(ProjectedStatus(d), old.status)
      /\ row.subscription
            \in {old.subscription, Or(ProjectedSubscription(d), old.subscription)}
      /\ old.status # "manual_suspended" => event'[d.id].state = "applied"
      /\ event'[d.id].workspace = w /\ event'[d.id].delivery = d
  BY ApplyWrites
<1>7. /\ stream[k].last \in Int /\ Created(d) \in Int
      /\ \A e \in Ids : event[e].state = "applied" =>
            /\ event[e].delivery.at \in Nat /\ Created(event[e].delivery) \in Int
            /\ event[e].delivery \in Deliveries
      /\ d.at \in Nat
  <2>1. \A x \in Deliveries : x.at \in Nat /\ Created(x) \in Int
    BY SecondOK, TimeAssumption DEF Deliveries, Created
  <2>2. \A e \in Ids : event[e].state = "applied" => event[e].delivery \in Deliveries
    BY <1>1 DEF Absent, Rows
  <2>3. stream[k].last \in Int
    BY <1>1, TimeAssumption DEF TypeOK
  <2> QED  BY <1>1, <2>1, <2>2, <2>3
<1>8. \A e \in Ids : Took(e, w) => Created(event[e].delivery) < Created(d)
  <2> SUFFICES ASSUME NEW e \in Ids, Took(e, w)
               PROVE  Created(event[e].delivery) < Created(d)
    OBVIOUS
  <2>1. Created(event[e].delivery) <= stream[k].last
    BY DEF StandsAt, AppliedBehind
  <2> QED  BY <1>6, <1>7, <2>1 DEF Took
<1>9. AppliedBehind(w)'
  <2> SUFFICES ASSUME NEW e \in Ids, event'[e].state = "applied",
                      event'[e].workspace = w,
                      StreamOf(event'[e].delivery) = "lifecycle"
               PROVE  Created(event'[e].delivery) <= stream'[k].last
    BY DEF AppliedBehind, Took
  <2>1. CASE e = d.id
    BY <1>6, <1>7, <2>1
  <2>2. CASE e # d.id
    <3>1. Took(e, w) /\ event'[e] = event[e]
      BY <1>4, <2>2 DEF Took
    <3> QED  BY <1>6, <1>7, <1>8, <3>1 DEF Took
  <2> QED  BY <2>1, <2>2
<1>10. RowFits(w)'
  <2>1. row.status = "manual_suspended" => touched'[w]
    <3>1. ProjectedStatus(d) # "manual_suspended"
      BY <1>1, ProjectedOK, HistoryAssumption DEF Projectable, Statuses
    <3>2. row.status = "manual_suspended" => old.status = "manual_suspended"
      BY <1>6, <3>1 DEF Or
    <3> QED  BY <1>2, <3>2 DEF StandsAt, RowFits
  <2>2. ~ touched'[w] => row.customer # None
    BY <1>2, <1>6 DEF StandsAt, RowFits
  <2>3. Cutoffs(w)' # {} => row.subscription # None
    BY <1>3, <1>6 DEF StandsAt, RowFits, Or
  <2> QED  BY <2>1, <2>2, <2>3 DEF RowFits
<1>11. LatestWins(w)'
  <2>1. CASE touched[w]
    BY <1>2, <2>1, NothingPromised
  <2>2. CASE ~ touched[w] /\ ProjectedStatus(d) = None
    <3>1. Mode(d) # "checkout"
      BY <1>1, <2>2, CheckoutSaysSomething
    <3>2. stream[k].state = "in_sync" /\ row.status = old.status
      BY <1>6, <2>2, <3>1 DEF Or
    <3>3. Projected(w)' = Projected(w)
      BY <1>3, <1>4, <1>5, <1>6, <2>2, SameProjected
    <3>4. Cutoffs(w) # {} => row.subscription = old.subscription
      <4>1. Cutoffs(w) # {} => old.subscription # None
        BY DEF StandsAt, RowFits
      <4>2. Mode(d) = "customer_subscription" =>
               old.subscription \in {None, Ref(d, "subscription")}
        BY DEF Apply, Mismatches
      <4>3. ProjectedSubscription(d) # None => Mode(d) = "customer_subscription"
               /\ ProjectedSubscription(d) = Ref(d, "subscription")
        BY <3>1 DEF ProjectedSubscription
      <4> QED  BY <1>6, <4>1, <4>2, <4>3 DEF Or
    <3> QED  BY <1>1, <1>2, <1>3, <2>2, <3>2, <3>3, <3>4, StaysLatest DEF StandsAt
  <2>3. CASE ~ touched[w] /\ ProjectedStatus(d) # None
    <3>1. old.status # "manual_suspended"
      BY <2>3 DEF StandsAt, RowFits
    <3>2. row.status = ProjectedStatus(d) /\ event'[d.id].state = "applied"
      BY <1>6, <2>3, <3>1 DEF Or
    <3>3. \A c \in Cutoffs(w) : c < Created(d)
      <4> SUFFICES ASSUME NEW c \in Cutoffs(w) PROVE c < Created(d)
        OBVIOUS
      <4>1. PICK r \in receipts : r.key = k /\ r.cutoff = c
        BY DEF Cutoffs
      <4>2. r.cutoff <= stream[k].last /\ r.cutoff \in Int
        BY <4>1, TimeAssumption DEF Chained, ReceiptsAreOrdered, ReceiptRows
      <4> QED  BY <1>6, <1>7, <4>1, <4>2
    <3>4. \A x : x \in Projected(w)' <=>
             /\ \E e \in Ids : /\ event'[e].state = "applied" /\ event'[e].workspace = w
                               /\ event'[e].delivery = x
             /\ ProjectedStatus(x) # None
             /\ \A c \in Cutoffs(w)' : c < Created(x)
      BY DEF Projected
    <3>5. d \in Projected(w)'
      BY <1>1, <1>3, <1>6, <2>3, <3>2, <3>3, <3>4
    <3>6. ASSUME NEW x \in Projected(w)'
          PROVE  x.at <= d.at
      <4>1. PICK e \in Ids : /\ event'[e].state = "applied" /\ event'[e].workspace = w
                             /\ event'[e].delivery = x
        BY <3>4
      <4>2. CASE e = d.id
        BY <1>6, <1>7, <4>1, <4>2
      <4>3. CASE e # d.id
        <5>1. event'[e] = event[e]
          BY <1>4, <4>3
        <5>2. ProjectedStatus(x) # None
          BY <3>4
        <5>3. StreamOf(x) = "lifecycle"
          BY <5>2, StreamOfOK, TaxSaysNothing DEF Streams
        <5>4. Took(e, w) /\ x.at \in Nat
          BY <1>7, <4>1, <5>1, <5>3 DEF Took
        <5>5. Created(x) < Created(d)
          BY <1>8, <4>1, <5>1, <5>4
        <5>6. x.at < d.at
          BY <1>7, <5>4, <5>5, SecondGrows DEF Created
        <5> QED  BY <1>7, <5>4, <5>6
      <4> QED  BY <4>2, <4>3
    <3>7. \E y \in Projected(w)' : /\ ProjectedStatus(y) = row.status
                                   /\ \A x \in Projected(w)' : x.at <= y.at
      BY <3>2, <3>5, <3>6
    <3> QED  BY <3>5, <3>7 DEF LatestWins
  <2> QED  BY <2>1, <2>2, <2>3
<1> QED  BY <1>9, <1>10, <1>11 DEF StandsAt


\* What a committed snapshot writes, row by row.
LEMMA ReconcileIs ==
    ASSUME TypeOK, NEW v \in Workspaces, NEW s \in Streams, NEW c, Reconcile(v, s, c)
    PROVE  /\ stream'[<<v, s>>] = Thawed(stream[<<v, s>>], s, c)
           /\ \A k \in Keys : k # <<v, s>> => stream'[k] = stream[k]
           /\ \A w \in Workspaces : w # v \/ s = "tax" =>
                 workspace'[w] = workspace[w] /\ touched'[w] = touched[w]
           /\ s # "tax" => (touched'[v] <=>
                 touched[v] /\ workspace[v].status = "manual_suspended")
<1> DEFINE row == Thawed(stream[<<v, s>>], s, c)
           access == IF c.status \in {"suspended", "cancelled"} THEN "archived_readonly"
                     ELSE "active"
           projection == Written(workspace[v], c.status, access, c.customer, c.subscription)
           hand == touched[v] /\ (s = "tax" \/ workspace[v].status = "manual_suspended")
<1>1. stream' = [stream EXCEPT ![<<v, s>>] = row]
  BY DEF Reconcile
<1>2. workspace' = IF s = "tax" \/ v \in Demo THEN workspace
                   ELSE [workspace EXCEPT ![v] = projection]
  BY DEF Reconcile
<1>3. touched' = [touched EXCEPT ![v] = hand]
  BY DEF Reconcile
<1>4. /\ stream = [k \in Keys |-> stream[k]]
      /\ workspace = [w \in Workspaces |-> workspace[w]]
      /\ touched \in [Workspaces -> BOOLEAN]
      /\ <<v, s>> \in Keys
  BY DEF TypeOK, Keys
<1> HIDE DEF row, projection, hand
<1>5. stream'[<<v, s>>] = row /\ \A k \in Keys : k # <<v, s>> => stream'[k] = stream[k]
  BY <1>1, <1>4
<1>6. \A w \in Workspaces : w # v \/ s = "tax" => workspace'[w] = workspace[w]
  BY <1>2, <1>4
<1>7. touched'[v] = hand /\ \A w \in Workspaces : w # v => touched'[w] = touched[w]
  BY <1>3, <1>4
<1>8. s = "tax" => touched'[v] = touched[v]
  <2>1. s = "tax" => (hand <=> touched[v])
    BY DEF hand
  <2>2. touched'[v] \in BOOLEAN /\ touched[v] \in BOOLEAN
    BY <1>4, <1>7 DEF hand
  <2> QED  BY <1>7, <2>1, <2>2
<1>9. s # "tax" => (touched'[v] <=>
         touched[v] /\ workspace[v].status = "manual_suspended")
  BY <1>7 DEF hand
<1> QED
  BY <1>5, <1>6, <1>7, <1>8, <1>9 DEF row

LEMMA ReconcileProjects ==
    ASSUME TypeOK, NEW v \in Workspaces \ Demo, NEW c, Reconcile(v, "lifecycle", c)
    PROVE  \E access : workspace'[v] =
              Written(workspace[v], c.status, access, c.customer, c.subscription)
<1> DEFINE access == IF c.status \in {"suspended", "cancelled"} THEN "archived_readonly"
                     ELSE "active"
           projection == Written(workspace[v], c.status, access, c.customer, c.subscription)
<1>1. workspace' = IF "lifecycle" = "tax" \/ v \in Demo THEN workspace
                   ELSE [workspace EXCEPT ![v] = projection]
  BY DEF Reconcile
<1>2. workspace = [w \in Workspaces |-> workspace[w]]
  BY DEF TypeOK
<1> HIDE DEF projection
<1>3. workspace'[v] = projection
  BY <1>1, <1>2
<1> QED  BY <1>3 DEF projection

LEMMA ReconcileResolves ==
    ASSUME TypeOK, NEW v \in Workspaces, NEW s \in Streams, NEW c,
           Commits(v, s, c), Reconcile(v, s, c), NEW e \in Ids
    PROVE  event'[e] = event[e] \/ (event[e].state # "applied"
                                    /\ event'[e].state # "applied")
<1> DEFINE done == [event[e] EXCEPT !.state = "reconciled", !.workspace = v]
<1>1. event' = [i \in Ids |->
         IF i \in c.resolved
         THEN [event[i] EXCEPT !.state = "reconciled", !.workspace = v] ELSE event[i]]
  BY DEF Reconcile
<1>2. event'[e] = IF e \in c.resolved THEN done ELSE event[e]
  BY <1>1
<1>3. CASE e \notin c.resolved
  BY <1>2, <1>3
<1>4. CASE e \in c.resolved
  <2>1. Pending(e)
    BY <1>4 DEF Commits, Resolvable
  <2>2. event[e] \in Rows
    BY <2>1 DEF TypeOK, Pending, Absent
  <2> QED  BY <1>2, <1>4, <2>1, <2>2 DEF Pending, Rows
<1> QED  BY <1>3, <1>4

LEMMA ReconcileCuts ==
    ASSUME NEW v, NEW s, NEW c, Reconcile(v, s, c), NEW w
    PROVE  \A x : x \in Cutoffs(w)' <=>
              \/ x \in Cutoffs(w)
              \/ (v = w /\ s = "lifecycle" /\ x = Second(c.observed))
<1> DEFINE r == [request |-> c.request, key |-> <<v, s>>, revision |-> c.revision + 1,
                 cutoff |-> Second(c.observed)]
           k == <<w, "lifecycle">>
<1>1. receipts' = receipts \cup {r}
  BY DEF Reconcile
<1>2. r.cutoff = Second(c.observed) /\ (r.key = k <=> v = w /\ s = "lifecycle")
  OBVIOUS
<1>3. /\ \A x : x \in Cutoffs(w)' <=> \E y \in receipts' : y.key = k /\ y.cutoff = x
      /\ \A x : x \in Cutoffs(w) <=> \E y \in receipts : y.key = k /\ y.cutoff = x
  BY DEF Cutoffs
<1> HIDE DEF r, k
<1> QED  BY <1>1, <1>2, <1>3

\* A snapshot of another workspace, or of the other stream.
LEMMA ReconcileStandsElsewhere ==
    ASSUME Typed, Typed', NEW v \in Workspaces, NEW s \in Streams, NEW c \in Commands,
           Commits(v, s, c), Reconcile(v, s, c), now' = now, history' = history,
           NEW w \in Workspaces, StandsAt(w), v # w \/ s = "tax"
    PROVE  StandsAt(w)'
<1> DEFINE k == <<w, "lifecycle">>
<1>1. /\ TypeOK /\ k \in Keys /\ <<v, s>> \in Keys /\ <<v, s>> # k
      /\ event \in [Ids -> {Absent} \cup Rows]
      /\ touched \in [Workspaces -> BOOLEAN] /\ now \in Int
  BY TimeAssumption DEF Typed, TypeOK, Keys, Streams
<1>2. workspace'[w] = workspace[w] /\ stream'[k] = stream[k]
  BY <1>1, ReconcileIs
<1>3. touched'[w] = touched[w]
  BY <1>1, ReconcileIs
<1>4. Cutoffs(w)' = Cutoffs(w)
  <2>1. \A x : x \in Cutoffs(w)' <=> x \in Cutoffs(w)
    BY ReconcileCuts
  <2>2. Cutoffs(w)' \subseteq Cutoffs(w) /\ Cutoffs(w) \subseteq Cutoffs(w)'
    BY <2>1
  <2> QED  BY <2>2
<1>5. \A e \in Ids : event'[e] = event[e]
         \/ (event[e].state # "applied" /\ event'[e].state # "applied")
  BY <1>1, ReconcileResolves
<1>6. Projected(w)' = Projected(w)
  <2>1. \A d : d \in Projected(w)' <=>
           /\ \E e \in Ids : /\ event'[e].state = "applied" /\ event'[e].workspace = w
                             /\ event'[e].delivery = d
           /\ ProjectedStatus(d) # None
           /\ \A x \in Cutoffs(w)' : x < Created(d)
    BY DEF Projected
  <2>2. \A d : d \in Projected(w)' <=> d \in Projected(w)
    BY <1>4, <1>5, <2>1, ProjectedIs
  <2>3. Projected(w)' \subseteq Projected(w) /\ Projected(w) \subseteq Projected(w)'
    BY <2>2
  <2> QED  BY <2>3
<1>7. \A e \in Ids : Took(e, w)' => Took(e, w) /\ event'[e] = event[e]
  BY <1>5 DEF Took
<1> QED  BY <1>1, <1>2, <1>3, <1>4, <1>6, <1>7, StandsStill

\* A snapshot that is committed is newer than every event the row took, and the row says
\* what Stripe said when it was read.
LEMMA ReconcileStands ==
    ASSUME Typed, Typed', Chained, NEW w \in Workspaces \ Demo, NEW c \in Commands,
           Commits(w, "lifecycle", c), Reconcile(w, "lifecycle", c),
           now' = now, history' = history, StandsAt(w), Truthful(c, history, now)
    PROVE  StandsAt(w)'
<1> DEFINE k == <<w, "lifecycle">>
           old == workspace[w]
           row == workspace'[w]
           cut == Second(c.observed)
<1>1. /\ TypeOK /\ k \in Keys /\ w \notin Demo
      /\ event \in [Ids -> {Absent} \cup Rows]
      /\ touched \in [Workspaces -> BOOLEAN] /\ now \in Int
      /\ workspace \in [Workspaces -> WorkspaceRows] /\ stream \in [Keys -> StreamRows]
  BY TimeAssumption DEF Typed, TypeOK, Keys, Streams, WorkspaceRows, StreamRows
<1>r. /\ stream'[k] = Thawed(stream[k], "lifecycle", c)
      /\ touched'[w] <=> touched[w] /\ old.status = "manual_suspended"
  <2> DEFINE s == "lifecycle"
  <2>1. s \in Streams /\ s # "tax"
    BY DEF Streams
  <2>2. Reconcile(w, s, c) /\ k = <<w, s>>
    OBVIOUS
  <2> HIDE DEF s, k
  <2>3. stream'[<<w, s>>] = Thawed(stream[<<w, s>>], s, c)
    BY <1>1, <2>1, <2>2, ReconcileIs
  <2>4. touched'[w] <=> touched[w] /\ old.status = "manual_suspended"
    BY <1>1, <2>1, <2>2, ReconcileIs
  <2> QED  BY <2>2, <2>3, <2>4 DEF s
<1>2. /\ c.subscription # None /\ c.status \in Readable /\ c.observed <= now
      /\ c.status = StatusOf(history, c.subscription, c.observed)
      /\ c.observed \in 0..MaxTime /\ c.customer # None /\ c.status # None
  <2>1. c # Idle
    BY DEF Commands, Idle
  <2>2. c.observed \in 0..MaxTime /\ c.customer \in Objects
    BY DEF Commands
  <2>3. c.status \in Readable
    BY <2>1 DEF Truthful
  <2>4. None \notin Readable
    BY HistoryAssumption DEF Readable, Statuses
  <2> QED  BY <2>1, <2>2, <2>3, <2>4, HistoryAssumption DEF Truthful
<1>3. cut \in Int /\ stream[k].last < cut /\ stream[k].last \in Int
      /\ stream'[k].last = cut
  <2>1. stream'[k].last = cut
    BY <1>r DEF Thawed
  <2>2. stream[k].last < cut
    BY DEF Commits
  <2>3. cut \in 0..MaxTime /\ stream[k].last \in -1..MaxTime
    BY <1>1, <1>2, SecondOK DEF StreamRows
  <2> QED  BY <2>1, <2>2, <2>3, TimeAssumption
<1>4. /\ row.customer = c.customer /\ row.subscription = c.subscription
      /\ row.status = (IF old.status = "manual_suspended" THEN old.status ELSE c.status)
  <2>1. PICK access :
           row = Written(old, c.status, access, c.customer, c.subscription)
    BY <1>1, ReconcileProjects
  <2> QED  BY <1>2, <2>1 DEF Written, Or
<1>5. touched'[w] <=> touched[w] /\ old.status = "manual_suspended"
  BY <1>r
<1>6. /\ \A x \in Cutoffs(w)' : x \in Int /\ x <= cut
      /\ cut \in Cutoffs(w)'
  <2>1. \A x : x \in Cutoffs(w)' <=> x \in Cutoffs(w) \/ x = cut
    BY ReconcileCuts
  <2>2. ASSUME NEW x \in Cutoffs(w)
        PROVE  x \in Int /\ x <= cut
    <3>1. PICK y \in receipts : y.key = k /\ y.cutoff = x
      BY DEF Cutoffs
    <3>2. x <= stream[k].last /\ x \in Int
      BY <3>1, TimeAssumption DEF Chained, ReceiptsAreOrdered, ReceiptRows
    <3> QED  BY <1>3, <3>2
  <2> QED  BY <1>3, <2>1, <2>2
<1>7. \A e \in Ids : event'[e].state = "applied" => event'[e] = event[e]
  <2>1. "lifecycle" \in Streams /\ w \in Workspaces
    BY DEF Streams
  <2> QED  BY <1>1, <2>1, ReconcileResolves
<1>8. \A e \in Ids : Took(e, w)' => Took(e, w) /\ event'[e] = event[e]
                       /\ Created(event[e].delivery) < cut
  <2> SUFFICES ASSUME NEW e \in Ids, event'[e].state = "applied",
                      event'[e].workspace = w,
                      StreamOf(event'[e].delivery) = "lifecycle"
               PROVE  Took(e, w) /\ event'[e] = event[e]
                      /\ Created(event[e].delivery) < cut
    BY DEF Took
  <2>1. event'[e] = event[e] /\ Took(e, w)
    BY <1>7 DEF Took
  <2>2. Created(event[e].delivery) <= stream[k].last
    BY <2>1 DEF StandsAt, AppliedBehind
  <2>3. Created(event[e].delivery) \in Int
    <3>1. event[e].delivery \in Deliveries
      BY <1>1, <2>1 DEF Took, Absent, Rows
    <3> QED  BY <3>1, SecondOK, TimeAssumption DEF Deliveries, Created
  <2> QED  BY <1>3, <2>1, <2>2, <2>3
<1>9. AppliedBehind(w)'
  <2> SUFFICES ASSUME NEW e \in Ids, Took(e, w)'
               PROVE  Created(event'[e].delivery) <= stream'[k].last
    BY DEF AppliedBehind
  <2>1. event'[e] = event[e] /\ Created(event[e].delivery) < cut
        /\ event[e].delivery \in Deliveries
    BY <1>1, <1>8 DEF Took, Absent, Rows
  <2>2. Created(event[e].delivery) \in Int
    BY <2>1, SecondOK, TimeAssumption DEF Deliveries, Created
  <2> QED  BY <1>3, <2>1, <2>2
<1>10. RowFits(w)'
  <2>1. c.status # "manual_suspended"
    BY <1>2 DEF Readable
  <2> QED  BY <1>2, <1>4, <1>5, <2>1 DEF StandsAt, RowFits
<1>11. LatestWins(w)'
  <2>1. CASE touched'[w]
    BY <2>1, NothingPromised
  <2>2. CASE ~ touched'[w]
    <3>1. row.status = c.status
      BY <1>4, <1>5, <2>2 DEF StandsAt, RowFits
    <3>2. Projected(w)' = {}
      <4> SUFFICES ASSUME NEW d \in Projected(w)' PROVE FALSE
        OBVIOUS
      <4>1. /\ \E e \in Ids : /\ event'[e].state = "applied" /\ event'[e].workspace = w
                              /\ event'[e].delivery = d
            /\ ProjectedStatus(d) # None
            /\ \A x \in Cutoffs(w)' : x < Created(d)
        BY DEF Projected
      <4>2. PICK e \in Ids : /\ event'[e].state = "applied" /\ event'[e].workspace = w
                             /\ event'[e].delivery = d
        BY <4>1
      <4>3. StreamOf(d) = "lifecycle"
        BY <4>1, StreamOfOK, TaxSaysNothing DEF Streams
      <4>4. event[e].delivery = d /\ Created(d) < cut /\ event[e].state = "applied"
        BY <1>8, <4>2, <4>3 DEF Took
      <4>5. Created(d) \in Int
        <5>1. d \in Deliveries
          BY <1>1, <4>4 DEF Absent, Rows
        <5> QED  BY <5>1, SecondOK, TimeAssumption DEF Deliveries, Created
      <4> QED  BY <1>3, <1>6, <4>1, <4>4, <4>5
    <3>3. \A x \in Cutoffs(w)' :
             \E t \in 0..now' : /\ Second(t) >= x
                                /\ StatusOf(history', row.subscription, t) = row.status
      <4> SUFFICES ASSUME NEW x \in Cutoffs(w)'
                   PROVE  \E t \in 0..now : /\ Second(t) >= x
                             /\ StatusOf(history, c.subscription, t) = c.status
        BY <1>4, <3>1
      <4>1. c.observed \in 0..now
        BY <1>1, <1>2, TimeAssumption
      <4>2. cut >= x
        BY <1>3, <1>6
      <4> QED  BY <1>2, <4>1, <4>2
    <3> QED  BY <3>2, <3>3 DEF LatestWins
  <2> QED  BY <2>1, <2>2
<1> QED  BY <1>9, <1>10, <1>11 DEF StandsAt


\* A later form of the same snapshot is as true as it was.
LEMMA TruthCarries ==
    ASSUME NEW a, NEW b, NEW h, NEW t, Truthful(a, h, t), a # Idle,
           b.subscription = a.subscription, b.status = a.status, b.observed = a.observed
    PROVE  Truthful(b, h, t)
BY DEF Truthful

LEMMA IdleIsTruthful ==
    ASSUME NEW h, NEW t
    PROVE  Truthful(Idle, h, t)
BY DEF Truthful

\* What an operator takes in hand is what Stripe says now; what he goes on with is what
\* he read.
LEMMA HandsOperate ==
    ASSUME Typed, HandsFit, NEW v \in Workspaces, NEW s \in Streams, Operate(v, s)
    PROVE  HandsFit'
<1> SUFFICES ASSUME NEW w \in Workspaces
             PROVE  Truthful(attempt'[<<w, "lifecycle">>], history', now')
  BY DEF HandsFit
<1> DEFINE k == <<v, s>>
           own == <<w, "lifecycle">>
           a == attempt[k]
<1>1. /\ TypeOK /\ Attempting /\ k \in Keys /\ own \in Keys
      /\ attempt = [i \in Keys |-> attempt[i]]
  BY DEF Typed, Attempting, Keys, Streams
<1>2. UNCHANGED <<now, history>>
  BY DEF Operate, StartSnapshot, FinishSnapshot, Prepare, Commit, Abandon
<1>3. Truthful(attempt[own], history, now)
  BY DEF HandsFit
<1>4. ASSUME NEW x, attempt' = [attempt EXCEPT ![k] = x],
             k = own => Truthful(x, history, now)
      PROVE  Truthful(attempt'[own], history', now')
  <2>1. CASE k = own
    <3>1. attempt'[own] = x
      BY <1>1, <1>4, <2>1
    <3> QED  BY <1>2, <1>4, <2>1, <3>1
  <2>2. CASE k # own
    <3>1. attempt'[own] = attempt[own]
      BY <1>1, <1>4, <2>2
    <3> QED  BY <1>2, <1>3, <3>1
  <2> QED  BY <2>1, <2>2
<1>5. CASE StartSnapshot(v, s)
  <2>1. PICK target \in Targets(v) :
           LET status == StatusAt(target.subscription, now) IN
           /\ s = "lifecycle" => status \in Readable
           /\ attempt' = [attempt EXCEPT ![k] =
                 [phase |-> "reading", request |-> acts + 1, observed |-> now,
                  status |-> IF s = "lifecycle" THEN status ELSE None,
                  customer |-> target.customer,
                  subscription |-> IF s = "lifecycle" THEN target.subscription
                                   ELSE None]]
    BY <1>5 DEF StartSnapshot
  <2> DEFINE status == IF s = "lifecycle" THEN StatusAt(target.subscription, now)
                       ELSE None
             subscription == IF s = "lifecycle" THEN target.subscription ELSE None
             new == [phase |-> "reading", request |-> acts + 1, observed |-> now,
                     status |-> status, customer |-> target.customer,
                     subscription |-> subscription]
  <2>2. attempt' = [attempt EXCEPT ![k] = new]
    BY <2>1
  <2>3. ASSUME s = "lifecycle"
        PROVE  Truthful(new, history, now)
    <3>1. /\ status = StatusAt(target.subscription, now) /\ status \in Readable
          /\ subscription = target.subscription
      BY <2>1, <2>3
    <3> HIDE DEF status, subscription
    <3>2. status = StatusOf(history, subscription, now)
      BY <3>1, StatusIsOfHistory
    <3>3. subscription # None
      <4>1. None \notin Readable
        BY HistoryAssumption DEF Readable, Statuses
      <4> QED  BY <1>1, <3>1, <3>2, <4>1, NobodySaysNothing
    <3>4. now <= now
      BY <1>1, TimeAssumption DEF TypeOK
    <3> QED  BY <3>1, <3>2, <3>3, <3>4 DEF Truthful
  <2> HIDE DEF new
  <2> QED  BY <1>4, <2>2, <2>3
<1>6. CASE FinishSnapshot(v, s)
  <2>1. a # Idle /\ a \in Snapshots
    BY <1>1, <1>6, PhaseOK DEF FinishSnapshot, Idle
  <2> DEFINE b == [a EXCEPT !.phase = "read"]
  <2>2. \E x \in {b, Idle} : attempt' = [attempt EXCEPT ![k] = x]
    BY <1>6 DEF FinishSnapshot
  <2>3. b.subscription = a.subscription /\ b.status = a.status /\ b.observed = a.observed
    BY <2>1 DEF Snapshots
  <2> HIDE DEF b
  <2>4. k = own => Truthful(b, history, now)
    BY <1>3, <2>1, <2>3, TruthCarries
  <2> QED  BY <1>4, <2>2, <2>4, IdleIsTruthful
<1>7. CASE Prepare(v, s)
  <2>1. a # Idle
    BY <1>7 DEF Prepare, Idle
  <2>2. PICK resolved, bindings :
           attempt' = [attempt EXCEPT ![k] =
              [phase |-> "attempted", request |-> a.request,
               observed |-> a.observed, status |-> a.status,
               customer |-> a.customer, subscription |-> a.subscription,
               revision |-> stream[k].revision,
               resolved |-> resolved, bindings |-> bindings]]
    BY <1>7 DEF Prepare
  <2> DEFINE b == [phase |-> "attempted", request |-> a.request,
                   observed |-> a.observed, status |-> a.status,
                   customer |-> a.customer, subscription |-> a.subscription,
                   revision |-> stream[k].revision,
                   resolved |-> resolved, bindings |-> bindings]
  <2>3. b.subscription = a.subscription /\ b.status = a.status /\ b.observed = a.observed
    OBVIOUS
  <2>4. attempt' = [attempt EXCEPT ![k] = b]
    BY <2>2
  <2> HIDE DEF b
  <2>5. k = own => Truthful(b, history, now)
    BY <1>3, <2>1, <2>3, TruthCarries
  <2> QED  BY <1>4, <2>4, <2>5
<1>8. CASE Commit(v, s)
  <2>1. attempt' = [attempt EXCEPT ![k] = Idle] \/ attempt' = attempt
    BY <1>8 DEF Commit
  <2> QED  BY <1>2, <1>3, <1>4, <2>1, IdleIsTruthful
<1>9. CASE Abandon(v, s)
  <2>1. attempt' = [attempt EXCEPT ![k] = Idle]
    BY <1>9 DEF Abandon
  <2> QED  BY <1>4, <2>1, IdleIsTruthful
<1> QED  BY <1>5, <1>6, <1>7, <1>8, <1>9 DEF Operate

\* A step that writes neither the ledger nor the marks of the administrator.
LEMMA LedgerStill ==
    ASSUME TypeOK, NEW w \in Workspaces, StandsAt(w), UNCHANGED <<ledgerVars, touched>>,
           now' \in Int, now <= now', history' = history
    PROVE  StandsAt(w)'
<1>1. Projected(w)' = Projected(w) /\ Cutoffs(w)' = Cutoffs(w)
  BY DEF Projected, Cutoffs, ledgerVars
<1>2. \A e \in Ids : Took(e, w)' => Took(e, w) /\ event'[e] = event[e]
  BY DEF Took, ledgerVars
<1> QED  BY <1>1, <1>2, StandsStill DEF ledgerVars

LEMMA NewestOperate ==
    ASSUME Typed, Typed', Chained, NewestFits,
           NEW v \in Workspaces, NEW s \in Streams, Operate(v, s)
    PROVE  NewestFits'
<1> DEFINE c == attempt[<<v, s>>]
<1>1. TypeOK /\ Attempting /\ <<v, s>> \in Keys /\ HandsFit
  BY DEF Typed, Keys, NewestFits
<1>2. now' = now /\ history' = history /\ now \in Int
  <2>1. UNCHANGED <<now, history>>
    BY DEF Operate, StartSnapshot, FinishSnapshot, Prepare, Commit, Abandon
  <2>2. now \in Int
    BY <1>1, TimeAssumption DEF TypeOK
  <2> QED  BY <2>1, <2>2
<1>3. HandsFit'
  BY <1>1, HandsOperate
<1>4. ASSUME NEW w \in Workspaces \ Demo
      PROVE  StandsAt(w)'
  <2>1. StandsAt(w)
    BY DEF NewestFits
  <2>2. CASE UNCHANGED <<ledgerVars, touched>>
    BY <1>1, <1>2, <2>1, <2>2, LedgerStill
  <2>3. CASE Commit(v, s) /\ Commits(v, s, c) /\ Reconcile(v, s, c)
    <3>1. c \in Commands
      BY <1>1, <2>3, PhaseOK DEF Commit
    <3>2. CASE v # w \/ s = "tax"
      BY <1>2, <2>1, <2>3, <3>1, <3>2, ReconcileStandsElsewhere
    <3>3. CASE v = w /\ s = "lifecycle"
      <4>1. Truthful(c, history, now)
        BY <1>1, <3>3 DEF HandsFit
      <4> HIDE DEF c
      <4>2. Commits(w, "lifecycle", c) /\ Reconcile(w, "lifecycle", c)
        BY <2>3, <3>3
      <4> QED  BY <1>2, <2>1, <3>1, <4>1, <4>2, ReconcileStands
    <3> QED  BY <3>2, <3>3 DEF Streams
  <2> QED
    BY <2>2, <2>3 DEF Operate, StartSnapshot, FinishSnapshot, Prepare, Commit, Abandon
<1> QED  BY <1>3, <1>4 DEF NewestFits

LEMMA NewestOutside ==
    ASSUME Typed, NewestFits,
           \/ \E w \in Governed, status \in {"manual_suspended", "active"} :
                 Administer(w, status)
           \/ Toggle \/ Tick
    PROVE  NewestFits'
<1>1. /\ TypeOK /\ now \in Int
      /\ workspace = [w \in Workspaces |-> workspace[w]]
      /\ touched = [w \in Workspaces |-> touched[w]]
  BY TimeAssumption DEF Typed, TypeOK
<1>2. history' = history /\ attempt' = attempt /\ now' \in Int /\ now <= now'
  BY <1>1 DEF Administer, Toggle, Tick, operatorVars
<1>3. HandsFit'
  <2> SUFFICES ASSUME NEW w \in Workspaces
               PROVE  Truthful(attempt[<<w, "lifecycle">>], history, now')
    BY <1>2 DEF HandsFit
  <2> DEFINE a == attempt[<<w, "lifecycle">>]
  <2>1. Truthful(a, history, now)
    BY DEF NewestFits, HandsFit
  <2>2. a # Idle => a.observed \in Int
    BY TimeAssumption DEF Typed, Attempting, Keys, Streams, Snapshots, Commands
  <2> HIDE DEF a
  <2>3. Truthful(a, history, now')
    BY <1>1, <1>2, <2>1, <2>2 DEF Truthful
  <2> QED  BY <2>3 DEF a
<1>4. ASSUME NEW w \in Workspaces \ Demo
      PROVE  StandsAt(w)'
  <2>1. StandsAt(w)
    BY DEF NewestFits
  <2>2. CASE Toggle \/ Tick
    <3>1. UNCHANGED <<ledgerVars, touched>>
      BY <2>2 DEF Toggle, Tick
    <3> QED  BY <1>1, <1>2, <2>1, <3>1, LedgerStill
  <2>3. ASSUME NEW v \in Governed, NEW status, Administer(v, status)
        PROVE  StandsAt(w)'
    <3>1. UNCHANGED <<stream, event, receipts>>
      BY <2>3 DEF Administer
    <3>2. Projected(w)' = Projected(w) /\ Cutoffs(w)' = Cutoffs(w)
      BY <3>1 DEF Projected, Cutoffs
    <3>3. \A e \in Ids : Took(e, w)' => Took(e, w) /\ event'[e] = event[e]
      BY <3>1 DEF Took
    <3>4. CASE v # w
      <4>1. workspace'[w] = workspace[w] /\ touched'[w] = touched[w]
        BY <1>1, <2>3, <3>4 DEF Administer
      <4> QED  BY <1>1, <1>2, <2>1, <3>1, <3>2, <3>3, <4>1, StandsStill
    <3>5. CASE v = w
      <4>1. touched'[w] = TRUE
        BY <1>1, <2>3, <3>5 DEF Administer
      <4>2. workspace'[w].subscription = workspace[w].subscription
        <5>1. workspace'[w] = [workspace[w] EXCEPT !.status = status]
          BY <1>1, <2>3, <3>5 DEF Administer
        <5>2. workspace[w] \in WorkspaceRows
          BY <1>1 DEF TypeOK, WorkspaceRows
        <5> QED  BY <5>1, <5>2 DEF WorkspaceRows
      <4>3. AppliedBehind(w)'
        BY <2>1, <3>1 DEF StandsAt, AppliedBehind, Took
      <4>4. RowFits(w)'
        BY <2>1, <3>2, <4>1, <4>2 DEF StandsAt, RowFits
      <4> QED  BY <4>1, <4>3, <4>4, NothingPromised DEF StandsAt
    <3> QED  BY <3>4, <3>5
  <2> QED  BY <2>2, <2>3
<1> QED  BY <1>3, <1>4 DEF NewestFits

LEMMA NewestDeliver ==
    ASSUME Typed, Typed', Chained, NewestFits, NEW d \in history, Deliver(d)
    PROVE  NewestFits'
<1>1. now' = now /\ history' = history /\ attempt' = attempt
  BY DeliverKeeps
<1>2. HandsFit'
  BY <1>1 DEF NewestFits, HandsFit
<1>3. ASSUME NEW w \in Workspaces \ Demo
      PROVE  StandsAt(w)'
  <2>1. StandsAt(w)
    BY DEF NewestFits
  <2>2. CASE \A v \in Workspaces : ~ Apply(d, v)
    BY <2>1, <2>2, FreezeStands
  <2>3. ASSUME NEW v \in Workspaces, Apply(d, v)
        PROVE  StandsAt(w)'
    <3>1. CASE v # w \/ StreamOf(d) # "lifecycle"
      BY <2>1, <2>3, <3>1, ApplyStandsElsewhere
    <3>2. CASE v = w /\ StreamOf(d) = "lifecycle"
      BY <2>1, <2>3, <3>2, ApplyStands
    <3> QED  BY <3>1, <3>2
  <2> QED  BY <2>2, <2>3
<1> QED  BY <1>2, <1>3 DEF NewestFits

LEMMA NewestStep ==
    ASSUME Typed, Chained, NewestFits, [Next]_vars
    PROVE  NewestFits'
<1>1. Typed'
  BY TypedStep
<1>2. CASE UNCHANGED vars
  <2>1. now' = now /\ history' = history /\ attempt' = attempt
        /\ UNCHANGED <<ledgerVars, touched>>
    BY <1>2 DEF vars, ledgerVars
  <2>2. TypeOK /\ now' \in Int /\ now <= now'
    BY <2>1, TimeAssumption DEF Typed, TypeOK
  <2>3. HandsFit'
    BY <2>1 DEF NewestFits, HandsFit
  <2> QED  BY <2>1, <2>2, <2>3, LedgerStill DEF NewestFits
<1>3. CASE Next
  BY <1>1, <1>3, NewestDeliver, NewestOperate, NewestOutside DEF Next
<1> QED  BY <1>2, <1>3

LEMMA NewestInit ==
    ASSUME Init
    PROVE  NewestFits
<1>1. HandsFit
  BY IdleIsTruthful DEF Init, HandsFit, Keys, Streams
<1>2. ASSUME NEW w \in Workspaces
      PROVE  StandsAt(w)
  <2>1. /\ \A e \in Ids : event[e].state = "absent"
        /\ Cutoffs(w) = {} /\ workspace[w].status = "none"
        /\ stream[<<w, "lifecycle">>].state = "absent"
    BY DEF Init, Absent, Cutoffs, Keys, Streams
  <2>2. AppliedBehind(w) /\ RowFits(w) /\ LatestWins(w)
    BY <2>1 DEF AppliedBehind, Took, RowFits, LatestWins
  <2> QED  BY <2>2 DEF StandsAt
<1> QED  BY <1>1, <1>2 DEF NewestFits

\* Unless an administrator wrote it, a workspace in sync has the status of its newest
\* projected event, or else what Stripe said at or after the cut of its last snapshot:
\* NewestStatusWins.
THEOREM NewestStatusHolds == Spec => []NewestStatusWins
<1>1. Init => Typed /\ Chained /\ NewestFits
  BY TypedInit, NewestInit DEF Init, Chained, ReceiptsAreOrdered
<1>2. Typed /\ Chained /\ NewestFits /\ [Next]_vars => Typed' /\ Chained' /\ NewestFits'
  BY TypedStep, ChainStep, NewestStep
<1>3. NewestFits => NewestStatusWins
  BY NewestIsLatest
<1> QED  BY <1>1, <1>2, <1>3, PTL DEF Spec
=============================================================================
