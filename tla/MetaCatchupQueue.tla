-------------------------- MODULE MetaCatchupQueue --------------------------
(***************************************************************************)
(* The catch-up queue of Meta conversations: webhooks ask for a sync of a  *)
(* fan's conversation, workers claim the job under a lease, the internal   *)
(* route syncs, the worker records the outcome.  The RPCs of               *)
(* meta_conversation_catchup_queue.sql are one action each; the worker and *)
(* the route take a step per network call, so that either can die, and the *)
(* route can outlive the worker's patience, between any two.               *)
(* Time is abstract: a lease runs out, and a job comes due, some day.      *)
(***************************************************************************)
EXTENDS Naturals, FiniteSets

CONSTANTS
    Fans,         \* conversations of one connection, each with its contact
    Workers,
    Tokens,       \* lease tokens; one is fresh when nobody remembers it
    MaxAttempts,  \* 5 in the code
    MaxRequests,  \* bound on the requests per conversation
    NoToken, NoFan

ASSUME QueueDomains ==
    /\ MaxAttempts \in Nat \ {0} /\ MaxRequests \in Nat
    /\ NoToken \notin Tokens /\ NoFan \notin Fans

VARIABLES
    connected,  \* social_connections.status = 'connected'
    contact,    \* the contacts that exist
    job,        \* the latest row of meta_conversation_catchup_jobs per conversation
    worker,     \* where each worker process is in processOneMetaCatchupJob
    route,      \* the internal route's run for each lease token
    asked,      \* history: requests made so far
    served      \* history: requests made before the start of a completed sync

vars == <<connected, contact, job, worker, route, asked, served>>

OpenStates   == {"pending", "claimed", "retry"}
ClosedStates == {"succeeded", "dead_letter", "cancelled"}
Dispositions == {"success", "retry", "terminal", "cancelled"}

\* A claimed row has a token and a lease, which is live until lease_until passed.
Jobs == [status: OpenStates \cup ClosedStates \cup {"none"}, attempt: 0..MaxAttempts,
         generation: Nat, claimed: Nat, due: BOOLEAN, linked: BOOLEAN,
         token: Tokens \cup {NoToken}, live: BOOLEAN]

NoJob == [status |-> "none", attempt |-> 0, generation |-> 0, claimed |-> 0,
          due |-> FALSE, linked |-> FALSE, token |-> NoToken, live |-> FALSE]

WorkerStates == [at: {"idle", "claimed", "waiting", "answered"},
                 fan: Fans \cup {NoFan}, token: Tokens \cup {NoToken},
                 answer: Dispositions]

Idle == [at |-> "idle", fan |-> NoFan, token |-> NoToken, answer |-> "retry"]

RouteStates == [at: {"none", "called", "accepted", "syncing"},
                fan: Fans \cup {NoFan}, from: Nat]

NoRoute == [at |-> "none", fan |-> NoFan, from |-> 0]

-----------------------------------------------------------------------------
IsOpen(f)  == job[f].status \in OpenStates
Newer(row) == row.generation > row.claimed

HoldsWithoutToken(k, f) == job[f].status = "claimed" /\ job[f].live

\* A lease that finish and the route still accept.
Holds(k, f) == job[f].status = "claimed" /\ job[f].token = k /\ job[f].live

Fresh(k) ==
    /\ \A f \in Fans : job[f].token # k
    /\ \A w \in Workers : worker[w].token # k
    /\ route[k].at = "none"

Unclaimed(row) == [row EXCEPT !.claimed = 0, !.token = NoToken, !.live = FALSE]

RequeuedWithoutReset(row) ==
    [Unclaimed(row) EXCEPT !.status = "pending", !.due = TRUE]

Requeued(row) == [Unclaimed(row) EXCEPT !.status = "pending", !.attempt = 0, !.due = TRUE]

ClosedUnderLease(row, status) == [row EXCEPT !.status = status, !.due = FALSE]

Closed(row, status) == [Unclaimed(row) EXCEPT !.status = status, !.due = FALSE]

AskedFirst(linked) ==
    [NoJob EXCEPT !.status = "pending", !.generation = 1, !.due = TRUE, !.linked = linked]

\* The conflict with the open row: a worker that holds it keeps it.
AskedAgain(row, linked) ==
    [row EXCEPT !.status = IF @ = "claimed" THEN @ ELSE "pending",
                !.generation = @ + 1, !.due = TRUE, !.linked = @ \/ linked]

SweptWithoutGeneration(row) ==
    IF row.status = "claimed" /\ ~row.live /\ row.attempt >= MaxAttempts
    THEN Closed(row, "dead_letter")
    ELSE row

\* The first statement of the claim: a job whose last attempt ran out of its lease
\* is dead, unless somebody asked again meanwhile.
Swept(row) ==
    IF ~(row.status = "claimed" /\ ~row.live /\ row.attempt >= MaxAttempts) THEN row
    ELSE IF Newer(row) THEN Requeued(row)
    ELSE Closed(row, "dead_letter")

Claimable(row) ==
    /\ row.attempt < MaxAttempts
    /\ \/ row.status \in {"pending", "retry"} /\ row.due
       \/ row.status = "claimed" /\ ~row.live

FinishedOnSuccess(row, disposition) ==
    CASE disposition = "success" -> Closed(row, "succeeded")
      [] disposition = "retry" /\ row.attempt < MaxAttempts ->
            [Unclaimed(row) EXCEPT !.status = "retry", !.due = FALSE]
      [] disposition = "retry" /\ row.attempt = MaxAttempts /\ Newer(row) -> Requeued(row)
      [] disposition = "retry" /\ row.attempt = MaxAttempts /\ ~Newer(row) ->
            Closed(row, "dead_letter")
      [] disposition = "cancelled" -> Closed(row, "cancelled")
      [] disposition = "terminal" -> Closed(row, "dead_letter")

\* The row after finish: next_status and what depends on it.
Finished(row, disposition) ==
    CASE disposition = "success" /\ Newer(row) -> Requeued(row)
      [] disposition = "success" /\ ~Newer(row) -> Closed(row, "succeeded")
      [] disposition = "retry" /\ row.attempt < MaxAttempts ->
            [Unclaimed(row) EXCEPT !.status = "retry", !.due = FALSE]
      [] disposition = "retry" /\ row.attempt >= MaxAttempts /\ Newer(row) -> Requeued(row)
      [] disposition = "retry" /\ row.attempt >= MaxAttempts /\ ~Newer(row) ->
            Closed(row, "dead_letter")
      [] disposition = "cancelled" -> Closed(row, "cancelled")
      [] disposition = "terminal" -> Closed(row, "dead_letter")

-----------------------------------------------------------------------------
Init ==
    /\ connected = TRUE
    /\ contact = {}
    /\ job = [f \in Fans |-> NoJob]
    /\ worker = [w \in Workers |-> Idle]
    /\ route = [k \in Tokens |-> NoRoute]
    /\ asked = [f \in Fans |-> 0]
    /\ served = [f \in Fans |-> 0]

\* The creator disconnects the account, or connects it again.
ToggleConnection ==
    /\ connected' = ~connected
    /\ UNCHANGED <<contact, job, worker, route, asked, served>>

\* The webhook stores a message and with it the contact of its sender.
StoreMessage(f) ==
    /\ connected
    /\ contact' = contact \cup {f}
    /\ UNCHANGED <<connected, job, worker, route, asked, served>>

\* enqueue_meta_conversation_catchup: a new row, or another generation of the open
\* one, which a worker that holds it keeps.
Enqueue(f, linked) ==
    /\ asked[f] < MaxRequests
    /\ connected
    /\ linked => f \in contact
    /\ job' = [job EXCEPT ![f] =
         IF IsOpen(f) THEN AskedAgain(job[f], linked) ELSE AskedFirst(linked)]
    /\ asked' = [asked EXCEPT ![f] = @ + 1]
    /\ UNCHANGED <<connected, contact, worker, route, served>>

\* claim_meta_conversation_catchup_job, when it finds a job: the oldest that no
\* other transaction has locked, which is here any that is due.
Claim(w, f, k) ==
    LET swept == [g \in Fans |-> Swept(job[g])] IN
    /\ worker[w] = Idle
    /\ Fresh(k)
    /\ Claimable(swept[f])
    /\ job' = [swept EXCEPT ![f].status = "claimed", ![f].attempt = @ + 1,
                            ![f].claimed = swept[f].generation,
                            ![f].token = k, ![f].live = TRUE]
    /\ worker' = [worker EXCEPT ![w] = [at |-> "claimed", fan |-> f, token |-> k,
                                        answer |-> "retry"]]
    /\ UNCHANGED <<connected, contact, route, asked, served>>

\* The claim of an idle worker that finds nothing to do: it only sweeps.
ClaimNothing(w) ==
    /\ worker[w] = Idle
    /\ \A f \in Fans : ~Claimable(Swept(job[f]))
    /\ job' = [f \in Fans |-> Swept(job[f])]
    /\ UNCHANGED <<connected, contact, worker, route, asked, served>>

\* callInternalRoute
CallRoute(w) ==
    /\ worker[w].at = "claimed"
    /\ worker' = [worker EXCEPT ![w].at = "waiting"]
    /\ route' = [route EXCEPT ![worker[w].token] =
                   [at |-> "called", fan |-> worker[w].fan, from |-> 0]]
    /\ UNCHANGED <<connected, contact, job, asked, served>>

\* The route finds the lease it was called for.
RouteAccepts(k) ==
    /\ route[k].at = "called"
    /\ Holds(k, route[k].fan)
    /\ route' = [route EXCEPT ![k].at = "accepted"]
    /\ UNCHANGED <<connected, contact, job, worker, asked, served>>

\* The workspace may be processed and the connection is there: the sync begins,
\* and will read every message whose webhook asked before this.
RouteBeginsSync(k) ==
    /\ route[k].at = "accepted"
    /\ connected
    /\ route' = [route EXCEPT ![k].at = "syncing", ![k].from = asked[route[k].fan]]
    /\ UNCHANGED <<connected, contact, job, worker, asked, served>>

\* The run of the route ends; its answer reaches the worker if it still waits.
Reply(k, disposition) ==
    /\ route' = [route EXCEPT ![k] = NoRoute]
    /\ worker' = [w \in Workers |->
         IF worker[w].at = "waiting" /\ worker[w].token = k
         THEN [worker[w] EXCEPT !.at = "answered", !.answer = disposition]
         ELSE worker[w]]
    /\ UNCHANGED <<connected, contact, job, asked>>

RouteSucceeds(k) ==
    /\ route[k].at = "syncing"
    /\ served' = [served EXCEPT ![route[k].fan] =
                    IF route[k].from > @ THEN route[k].from ELSE @]
    /\ Reply(k, "success")

\* No lease (409), an unreadable row, a failed sync, a dead server: try again.
RouteFails(k) ==
    /\ route[k].at # "none"
    /\ Reply(k, "retry")
    /\ UNCHANGED served

\* The workspace is not entitled to processing.
RouteDenies(k) ==
    /\ route[k].at = "accepted"
    /\ Reply(k, "cancelled")
    /\ UNCHANGED served

RouteFindsNoConnection(k) ==
    /\ route[k].at = "accepted"
    /\ ~connected
    /\ Reply(k, "terminal")
    /\ UNCHANGED served

\* The worker's timeout or a lost answer; the route may well go on.
StopWaiting(w) ==
    /\ worker[w].at = "waiting"
    /\ worker' = [worker EXCEPT ![w].at = "answered", ![w].answer = "retry"]
    /\ UNCHANGED <<connected, contact, job, route, asked, served>>

\* finish_meta_conversation_catchup_job: changes the row only under a live lease.
Finish(w) ==
    /\ worker[w].at = "answered"
    /\ job' = [job EXCEPT ![worker[w].fan] =
         IF Holds(worker[w].token, worker[w].fan) THEN Finished(@, worker[w].answer) ELSE @]
    /\ worker' = [worker EXCEPT ![w] = Idle]
    /\ UNCHANGED <<connected, contact, route, asked, served>>

\* The process dies, or an RPC fails and the loop goes on: nothing is remembered.
ForgetJob(w) ==
    /\ worker[w] # Idle
    /\ worker' = [worker EXCEPT ![w] = Idle]
    /\ UNCHANGED <<connected, contact, job, route, asked, served>>

LeaseRunsOut(f) ==
    /\ job[f].live
    /\ job' = [job EXCEPT ![f].live = FALSE]
    /\ UNCHANGED <<connected, contact, worker, route, asked, served>>

\* The backoff of a retry is over.
ComesDue(f) ==
    /\ job[f].status = "retry" /\ ~job[f].due
    /\ job' = [job EXCEPT ![f].due = TRUE]
    /\ UNCHANGED <<connected, contact, worker, route, asked, served>>

\* delete_contact_with_meta_catchup: refused while a live lease is on the contact.
DeleteContact(f) ==
    /\ f \in contact
    /\ ~(job[f].linked /\ job[f].status = "claimed" /\ job[f].live)
    /\ contact' = contact \ {f}
    /\ job' = [job EXCEPT ![f] = IF @.linked THEN NoJob ELSE @]
    /\ UNCHANGED <<connected, worker, route, asked, served>>

WorkerStep(w) ==
    \/ \E f \in Fans, k \in Tokens : Claim(w, f, k)
    \/ ClaimNothing(w)
    \/ CallRoute(w)
    \/ StopWaiting(w)
    \/ Finish(w)

RouteEnds(k) ==
    RouteSucceeds(k) \/ RouteFails(k) \/ RouteDenies(k) \/ RouteFindsNoConnection(k)

Next ==
    \/ ToggleConnection
    \/ \E f \in Fans : StoreMessage(f)
    \/ \E f \in Fans, linked \in BOOLEAN : Enqueue(f, linked)
    \/ \E w \in Workers, f \in Fans, k \in Tokens : Claim(w, f, k)
    \/ \E w \in Workers : ClaimNothing(w)
    \/ \E w \in Workers : CallRoute(w)
    \/ \E w \in Workers : StopWaiting(w)
    \/ \E w \in Workers : Finish(w)
    \/ \E w \in Workers : ForgetJob(w)
    \/ \E k \in Tokens : RouteAccepts(k)
    \/ \E k \in Tokens : RouteBeginsSync(k)
    \/ \E k \in Tokens : RouteSucceeds(k)
    \/ \E k \in Tokens : RouteFails(k)
    \/ \E k \in Tokens : RouteDenies(k)
    \/ \E k \in Tokens : RouteFindsNoConnection(k)
    \/ \E f \in Fans : LeaseRunsOut(f)
    \/ \E f \in Fans : ComesDue(f)
    \/ \E f \in Fans : DeleteContact(f)

Spec == Init /\ [][Next]_vars

\* Workers poll for ever and every call of theirs has a timeout; a run of the route
\* has a time budget; leases and backoffs are times.  A worker may die at any point,
\* but the service manager starts it again.
Fairness ==
    /\ \A w \in Workers : WF_vars(WorkerStep(w))
    /\ \A k \in Tokens : WF_vars(RouteEnds(k))
    /\ \A f \in Fans : WF_vars(LeaseRunsOut(f)) /\ WF_vars(ComesDue(f))

FairSpec == Spec /\ Fairness

-----------------------------------------------------------------------------
\* Every row, process and run of the route is in one of its states, and a row meets
\* the checks of its table: a lease is there exactly while it is claimed, and for a
\* generation that it has.
TypeOK ==
    /\ connected \in BOOLEAN
    /\ contact \in SUBSET Fans
    /\ job \in [Fans -> Jobs]
    /\ worker \in [Workers -> WorkerStates]
    /\ route \in [Tokens -> RouteStates]
    /\ asked \in [Fans -> 0..MaxRequests]
    /\ served \in [Fans -> 0..MaxRequests]
    /\ \A f \in Fans :
          /\ job[f].status = "claimed" <=> job[f].token # NoToken
          /\ job[f].live => job[f].status = "claimed"
          /\ job[f].claimed \in (IF job[f].status = "claimed" THEN 1 ELSE 0)..job[f].generation

\* A job is closed as succeeded only when a sync that started after the last
\* request has completed: no message that arrived during a sync, under a worker
\* that lost its lease, or between two workers is left behind.
NoRequestLost ==
    \A f \in Fans : job[f].status = "succeeded" => served[f] = asked[f]

\* An open job can always be claimed again: it never waits with its attempts used up.
OpenJobsAreClaimable ==
    \A f \in Fans : job[f].status \in {"pending", "retry"} => job[f].attempt < MaxAttempts

\* Failures, timeouts, lost answers and dead workers never close a job that was
\* asked for again after its claim: only a refusal by the route does.
FreshRequestsSurviveFailures ==
    [][\A f \in Fans :
          /\ job[f].status = "claimed" /\ Newer(job[f])
          /\ job'[f].status \in ClosedStates
          => \E w \in Workers : /\ worker[w].token = job[f].token
                                /\ worker[w].answer \in {"terminal", "cancelled"}]_vars

\* Every open job ends: synced, dead, cancelled or deleted with its contact.
OpenJobsEnd == \A f \in Fans : IsOpen(f) ~> ~IsOpen(f)

-----------------------------------------------------------------------------
\* What the webhook may rely on, without claims, leases, attempts or generations.
Requests == INSTANCE CatchupRequests WITH
    Conversations <- Fans,
    state <- [f \in Fans |->
                IF IsOpen(f) THEN "open"
                ELSE IF job[f].status = "succeeded" THEN "answered"
                ELSE IF job[f].status = "none" THEN "quiet"
                ELSE "abandoned"]

\* The queue implements the requests: rows, leases and retries stay behind it.
ImplementsRequests == Requests!RequestsSpec
=============================================================================
