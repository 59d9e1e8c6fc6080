----------------------- MODULE MetaCatchupQueueProofs -----------------------
(* What the catch-up queue guarantees for any number of conversations,      *)
(* workers, lease tokens, attempts and requests: its rows keep their shape,  *)
(* no open job is stuck, no request is lost, and it implements what          *)
(* CatchupRequests promises.                                                 *)
EXTENDS MetaCatchupQueue, TLAPS

\* A process that does something does it for a conversation and under a token.
Busy ==
    /\ \A w \in Workers : worker[w].at # "idle" =>
          worker[w].fan \in Fans /\ worker[w].token \in Tokens
    /\ \A k \in Tokens : route[k].at # "none" => route[k].fan \in Fans

\* Whoever knows the token of a row works for that row.
Matched ==
    /\ \A w \in Workers, f \in Fans :
          worker[w].at # "idle" /\ worker[w].token = job[f].token => worker[w].fan = f
    /\ \A k \in Tokens, f \in Fans :
          route[k].at # "none" /\ job[f].token = k => route[k].fan = f

\* n requests of f and those that came since its claim are all there were.
Covers(n, f) == asked[f] + job[f].claimed <= n + job[f].generation

\* No sync covers more than was asked for, and the one under the row's lease, running
\* or reported, covers all that was asked for before the claim.
Covered ==
    /\ \A f \in Fans : served[f] <= asked[f]
    /\ \A k \in Tokens : route[k].at = "syncing" => route[k].from <= asked[route[k].fan]
    /\ \A k \in Tokens, f \in Fans :
          route[k].at = "syncing" /\ job[f].token = k => Covers(route[k].from, f)
    /\ \A w \in Workers, f \in Fans :
          /\ worker[w].at = "answered" /\ worker[w].answer = "success"
          /\ worker[w].token = job[f].token
          => Covers(served[f], f)

\* A row in the queue was asked for.
Requested == \A f \in Fans : IsOpen(f) => job[f].generation > 0

IInv == TypeOK /\ Requested /\ Busy /\ Matched /\ Covered /\ NoRequestLost

\* What TypeOK and Requested say of one row.
RowOK(row) ==
    /\ row \in Jobs
    /\ row.status = "claimed" <=> row.token # NoToken
    /\ row.live => row.status = "claimed"
    /\ row.claimed \in (IF row.status = "claimed" THEN 1 ELSE 0)..row.generation
    /\ row.status \in OpenStates => row.generation > 0

LEMMA RowsOK ==
    ASSUME TypeOK, Requested, NEW f \in Fans
    PROVE  RowOK(job[f])
BY DEF TypeOK, RowOK, Requested, IsOpen

\* The row that remains when a claim is over.
IsFreed(new, row) ==
    /\ new \in Jobs
    /\ new.token = NoToken /\ ~ new.live
    /\ new.claimed = 0 /\ new.generation = row.generation

LEMMA FreedOK ==
    ASSUME NEW row \in Jobs, NEW new, IsFreed(new, row), new.status # "claimed",
           new.status \in OpenStates => row.generation > 0
    PROVE  RowOK(new)
<1>1. new.claimed \in 0..new.generation
  BY DEF IsFreed, Jobs
<1> QED BY <1>1 DEF RowOK, IsFreed

LEMMA UnclaimedIsFreed ==
    ASSUME NEW row \in Jobs
    PROVE  /\ IsFreed(Unclaimed(row), row)
           /\ Unclaimed(row).attempt = row.attempt
BY DEF IsFreed, Unclaimed, Jobs

LEMMA RequeuedIsFreed ==
    ASSUME NEW row \in Jobs
    PROVE  /\ IsFreed(Requeued(row), row)
           /\ Requeued(row).status = "pending" /\ Requeued(row).attempt = 0
<1> DEFINE old == Unclaimed(row)
           new == [old EXCEPT !.status = "pending", !.attempt = 0, !.due = TRUE]
<1>1. IsFreed(old, row)
  BY UnclaimedIsFreed
<1> HIDE DEF old
<1>2. 0 \in 0..MaxAttempts /\ "pending" \in OpenStates
  BY QueueDomains DEF OpenStates
<1>3. new \in Jobs
  BY <1>1, <1>2 DEF IsFreed, Jobs
<1>4. /\ new.status = "pending" /\ new.attempt = 0 /\ new.token = old.token
      /\ new.live = old.live /\ new.claimed = old.claimed
      /\ new.generation = old.generation
  BY <1>1 DEF IsFreed, Jobs
<1>5. IsFreed(new, row)
  BY <1>1, <1>3, <1>4 DEF IsFreed
<1> QED BY <1>4, <1>5 DEF Requeued, old

\* A retry, an end: only the state and the due date of the freed row change.
LEMMA MovedIsFreed ==
    ASSUME NEW row \in Jobs, NEW status \in OpenStates \cup ClosedStates, NEW due \in BOOLEAN
    PROVE  LET new == [Unclaimed(row) EXCEPT !.status = status, !.due = due] IN
           /\ IsFreed(new, row)
           /\ new.status = status /\ new.attempt = row.attempt
<1> DEFINE old == Unclaimed(row)
           new == [old EXCEPT !.status = status, !.due = due]
<1>1. IsFreed(old, row) /\ old.attempt = row.attempt
  BY UnclaimedIsFreed
<1> HIDE DEF old
<1>2. new \in Jobs
  BY <1>1 DEF IsFreed, Jobs
<1>3. /\ new.status = status /\ new.attempt = old.attempt /\ new.token = old.token
      /\ new.live = old.live /\ new.claimed = old.claimed
      /\ new.generation = old.generation
  BY <1>1 DEF IsFreed, Jobs
<1>4. IsFreed(new, row)
  BY <1>1, <1>2, <1>3 DEF IsFreed
<1> QED BY <1>1, <1>3, <1>4 DEF old

LEMMA RequeuedOK ==
    ASSUME NEW row, RowOK(row), row.status = "claimed"
    PROVE  RowOK(Requeued(row))
<1>1. row \in Jobs /\ row.generation > 0
  BY DEF RowOK, OpenStates
<1> QED BY <1>1, RequeuedIsFreed, FreedOK

LEMMA ClosedOK ==
    ASSUME NEW row, RowOK(row), NEW status \in ClosedStates
    PROVE  RowOK(Closed(row, status)) /\ Closed(row, status).status = status
<1>1. row \in Jobs /\ status # "claimed" /\ status \notin OpenStates
  BY DEF RowOK, ClosedStates, OpenStates
<1> QED BY <1>1, MovedIsFreed, FreedOK DEF Closed

LEMMA SweptOK ==
    ASSUME NEW row, RowOK(row)
    PROVE  RowOK(Swept(row))
<1>1. "dead_letter" \in ClosedStates
  BY DEF ClosedStates
<1> QED BY <1>1, RequeuedOK, ClosedOK DEF Swept

LEMMA FinishedOK ==
    ASSUME NEW row, RowOK(row), row.status = "claimed", NEW disposition \in Dispositions
    PROVE  RowOK(Finished(row, disposition))
<1>1. RowOK([Unclaimed(row) EXCEPT !.status = "retry", !.due = FALSE])
  <2>1. row \in Jobs /\ row.generation > 0 /\ "retry" \in OpenStates
    BY DEF RowOK, OpenStates
  <2> QED BY <2>1, MovedIsFreed, FreedOK
<1>2. {"succeeded", "cancelled", "dead_letter"} \subseteq ClosedStates
  BY DEF ClosedStates
<1>3. RowOK(Requeued(row)) /\ \A s \in ClosedStates : RowOK(Closed(row, s))
  BY RequeuedOK, ClosedOK
<1>4. row.attempt < MaxAttempts \/ row.attempt >= MaxAttempts
  BY QueueDomains DEF RowOK, Jobs
<1> QED BY <1>1, <1>2, <1>3, <1>4 DEF Finished, Dispositions

-----------------------------------------------------------------------------
(* Types. *)

JobsOK == job \in [Fans -> Jobs] /\ \A f \in Fans : RowOK(job[f])

LEMMA TypedJobs == TypeOK /\ Requested => JobsOK
BY RowsOK DEF JobsOK, TypeOK

\* One row changes.
LEMMA RowChanges ==
    ASSUME JobsOK, NEW f \in Fans, NEW row, RowOK(row), job' = [job EXCEPT ![f] = row]
    PROVE  JobsOK'
<1>1. row \in Jobs
  BY DEF RowOK
<1>2. job' \in [Fans -> Jobs]
  BY <1>1 DEF JobsOK
<1>3. ASSUME NEW g \in Fans PROVE RowOK(job'[g])
  BY DEF JobsOK
<1> QED BY <1>2, <1>3 DEF JobsOK

LEMMA NoJobOK == RowOK(NoJob)
BY QueueDomains DEF RowOK, NoJob, Jobs, OpenStates, ClosedStates

LEMMA AskedFirstOK ==
    ASSUME NEW linked \in BOOLEAN
    PROVE  RowOK(AskedFirst(linked))
<1> DEFINE new == AskedFirst(linked)
<1>1. NoJob \in Jobs
  BY NoJobOK DEF RowOK
<1>2. new \in Jobs
  BY <1>1 DEF Jobs, OpenStates, AskedFirst
<1>3. /\ new.status = "pending" /\ new.token = NoToken /\ ~ new.live
      /\ new.claimed = 0 /\ new.generation = 1
  BY DEF NoJob, AskedFirst
<1> QED BY <1>2, <1>3 DEF RowOK

\* A further request changes neither the claim nor its token.
LEMMA AskedAgainIs ==
    ASSUME NEW row \in Jobs, row.status \in OpenStates, NEW linked \in BOOLEAN
    PROVE  LET new == AskedAgain(row, linked) IN
           /\ new \in Jobs /\ new.status \in OpenStates
           /\ new.status = "claimed" <=> row.status = "claimed"
           /\ new.generation = row.generation + 1 /\ new.claimed = row.claimed
           /\ new.token = row.token /\ new.live = row.live
           /\ new.attempt = row.attempt
<1> DEFINE status == IF row.status = "claimed" THEN row.status ELSE "pending"
           either == row.linked \/ linked
           new == [row EXCEPT !.status = status, !.generation = row.generation + 1,
                              !.due = TRUE, !.linked = either]
<1>1. status \in OpenStates /\ (status = "claimed" <=> row.status = "claimed")
  BY DEF OpenStates
<1>2. either \in BOOLEAN /\ row.generation + 1 \in Nat
  BY DEF Jobs
<1>3. AskedAgain(row, linked) = new
  BY DEF AskedAgain, Jobs
<1> HIDE DEF status, either
<1>4. new \in Jobs
  BY <1>1, <1>2 DEF Jobs
<1>5. /\ new.status = status /\ new.generation = row.generation + 1
      /\ new.claimed = row.claimed /\ new.token = row.token /\ new.live = row.live
      /\ new.attempt = row.attempt
  BY DEF Jobs
<1> QED BY <1>1, <1>3, <1>4, <1>5

LEMMA AskedAgainOK ==
    ASSUME NEW row, RowOK(row), row.status \in OpenStates, NEW linked \in BOOLEAN
    PROVE  RowOK(AskedAgain(row, linked))
<1> DEFINE new == AskedAgain(row, linked)
<1>1. row \in Jobs /\ row.generation \in Nat
  BY DEF RowOK, Jobs
<1>2. /\ new \in Jobs /\ new.status \in OpenStates
      /\ new.status = "claimed" <=> row.status = "claimed"
      /\ new.generation = row.generation + 1 /\ new.claimed = row.claimed
      /\ new.token = row.token /\ new.live = row.live
  BY <1>1, AskedAgainIs
<1>3. /\ row.status = "claimed" <=> row.token # NoToken
      /\ row.live => row.status = "claimed"
      /\ row.claimed \in (IF row.status = "claimed" THEN 1 ELSE 0)..row.generation
  BY DEF RowOK
<1> HIDE DEF new
<1>4. new.claimed \in (IF new.status = "claimed" THEN 1 ELSE 0)..new.generation
  BY <1>1, <1>2, <1>3
<1>5. new.generation > 0
  BY <1>1, <1>2
<1>6. /\ new.status = "claimed" <=> new.token # NoToken
      /\ new.live => new.status = "claimed"
  BY <1>2, <1>3
<1> QED BY <1>2, <1>4, <1>5, <1>6 DEF RowOK, new

LEMMA EnqueueOK ==
    ASSUME JobsOK, NEW f \in Fans, NEW linked \in BOOLEAN, Enqueue(f, linked)
    PROVE  JobsOK'
<1>1. CASE IsOpen(f)
  <2>1. job' = [job EXCEPT ![f] = AskedAgain(job[f], linked)]
    BY <1>1 DEF Enqueue
  <2>2. RowOK(AskedAgain(job[f], linked))
    BY <1>1, AskedAgainOK DEF JobsOK, IsOpen
  <2> QED BY <2>1, <2>2, RowChanges
<1>2. CASE ~ IsOpen(f)
  <2>1. job' = [job EXCEPT ![f] = AskedFirst(linked)]
    BY <1>2 DEF Enqueue
  <2> QED BY <2>1, AskedFirstOK, RowChanges
<1> QED BY <1>1, <1>2

\* The claim of one row, after the sweep of all.
ClaimedRow(row, k) ==
    [row EXCEPT !.status = "claimed", !.attempt = @ + 1, !.claimed = row.generation,
                !.token = k, !.live = TRUE]

LEMMA ClaimedRowOK ==
    ASSUME NEW row, RowOK(row), NEW k \in Tokens, Claimable(row)
    PROVE  RowOK(ClaimedRow(row, k))
<1> DEFINE new == ClaimedRow(row, k)
<1>1. row \in Jobs /\ row.generation > 0 /\ row.generation \in Nat
  BY DEF RowOK, Claimable, OpenStates, Jobs
<1>2. row.attempt + 1 \in 0..MaxAttempts
  BY <1>1, QueueDomains DEF Claimable, Jobs
<1>3. new \in Jobs
  BY <1>1, <1>2 DEF ClaimedRow, Jobs, OpenStates
<1>4. /\ new.status = "claimed" /\ new.token = k /\ new.claimed = row.generation
      /\ new.generation = row.generation
  BY <1>1 DEF ClaimedRow, Jobs
<1>5. row.generation \in 1..row.generation
  BY <1>1
<1> QED BY <1>1, <1>3, <1>4, <1>5, QueueDomains DEF RowOK

LEMMA ClaimOK ==
    ASSUME JobsOK, NEW w \in Workers, NEW f \in Fans, NEW k \in Tokens, Claim(w, f, k)
    PROVE  JobsOK'
<1> DEFINE swept == [g \in Fans |-> Swept(job[g])]
<1>1. \A g \in Fans : RowOK(swept[g])
  BY SweptOK DEF JobsOK
<1>2. Claimable(swept[f]) /\ job' = [swept EXCEPT ![f] = ClaimedRow(swept[f], k)]
  BY DEF Claim, ClaimedRow
<1>3. RowOK(ClaimedRow(swept[f], k))
  BY <1>1, <1>2, ClaimedRowOK
<1>4. \A g \in Fans : job'[g] = IF g = f THEN ClaimedRow(swept[f], k) ELSE swept[g]
  BY <1>2
<1>5. \A g \in Fans : RowOK(job'[g])
  BY <1>1, <1>3, <1>4
<1>6. DOMAIN job' = Fans /\ job' = [g \in Fans |-> job'[g]]
  BY <1>2
<1> QED BY <1>5, <1>6 DEF JobsOK, RowOK

LEMMA SweepOK == ASSUME JobsOK, NEW w \in Workers, ClaimNothing(w) PROVE JobsOK'
BY SweptOK DEF JobsOK, ClaimNothing, RowOK

LEMMA FinishOK ==
    ASSUME JobsOK, Busy, worker \in [Workers -> WorkerStates], NEW w \in Workers, Finish(w)
    PROVE  JobsOK'
<1> DEFINE f == worker[w].fan
           row == Finished(job[f], worker[w].answer)
<1>1. f \in Fans /\ worker[w].answer \in Dispositions
  BY DEF Busy, Finish, WorkerStates
<1>2. CASE Holds(worker[w].token, f)
  <2>1. RowOK(row)
    BY <1>1, <1>2, FinishedOK DEF Holds, JobsOK
  <2>2. job' = [job EXCEPT ![f] = row]
    BY <1>2 DEF Finish
  <2> HIDE DEF f, row
  <2> QED BY <1>1, <2>1, <2>2, RowChanges
<1>3. CASE ~ Holds(worker[w].token, f)
  <2>1. job' = job
    BY <1>1, <1>3 DEF Finish, JobsOK
  <2> QED BY <2>1 DEF JobsOK
<1> QED BY <1>2, <1>3

LEMMA PassingTimeOK ==
    ASSUME JobsOK, NEW f \in Fans, LeaseRunsOut(f) \/ ComesDue(f)
    PROVE  JobsOK'
<1> DEFINE row == job[f]
<1>1. RowOK(row) /\ row \in Jobs
  BY DEF JobsOK, RowOK
<1>2. RowOK([row EXCEPT !.live = FALSE])
  BY <1>1 DEF RowOK, Jobs
<1>3. RowOK([row EXCEPT !.due = TRUE])
  BY <1>1 DEF RowOK, Jobs
<1>4. CASE LeaseRunsOut(f)
  <2>1. job' = [job EXCEPT ![f] = [row EXCEPT !.live = FALSE]]
    BY <1>4 DEF LeaseRunsOut
  <2> HIDE DEF row
  <2> QED BY <1>2, <2>1, RowChanges
<1>5. CASE ComesDue(f)
  <2>1. job' = [job EXCEPT ![f] = [row EXCEPT !.due = TRUE]]
    BY <1>5 DEF ComesDue
  <2> HIDE DEF row
  <2> QED BY <1>3, <2>1, RowChanges
<1> QED BY <1>4, <1>5

LEMMA DeleteOK == ASSUME JobsOK, NEW f \in Fans, DeleteContact(f) PROVE JobsOK'
<1>1. job' = [job EXCEPT ![f] = NoJob] \/ job' = job
  BY DEF DeleteContact, JobsOK
<1> QED BY <1>1, NoJobOK, RowChanges DEF JobsOK

LEMMA JobsStep == TypeOK /\ Requested /\ Busy /\ [Next]_vars => JobsOK'
<1> SUFFICES ASSUME TypeOK, Requested, Busy, [Next]_vars PROVE JobsOK'
  OBVIOUS
<1>1. JobsOK /\ worker \in [Workers -> WorkerStates]
  BY TypedJobs DEF TypeOK
<1>2. ASSUME UNCHANGED job PROVE JobsOK'
  BY <1>1, <1>2 DEF JobsOK
<1>3. CASE \E f \in Fans, linked \in BOOLEAN : Enqueue(f, linked)
  BY <1>1, <1>3, EnqueueOK
<1>4. CASE \E w \in Workers, f \in Fans, k \in Tokens : Claim(w, f, k)
  BY <1>1, <1>4, ClaimOK
<1>5. CASE \E w \in Workers : ClaimNothing(w)
  BY <1>1, <1>5, SweepOK
<1>6. CASE \E w \in Workers : Finish(w)
  BY <1>1, <1>6, FinishOK
<1>7. CASE \E f \in Fans : LeaseRunsOut(f) \/ ComesDue(f)
  BY <1>1, <1>7, PassingTimeOK
<1>8. CASE \E f \in Fans : DeleteContact(f)
  BY <1>1, <1>8, DeleteOK
<1>9. CASE \/ ToggleConnection
           \/ \E f \in Fans : StoreMessage(f)
           \/ \E w \in Workers : CallRoute(w) \/ StopWaiting(w) \/ ForgetJob(w)
           \/ \E k \in Tokens : RouteAccepts(k) \/ RouteBeginsSync(k) \/ RouteSucceeds(k)
                                \/ RouteFails(k) \/ RouteDenies(k) \/ RouteFindsNoConnection(k)
           \/ UNCHANGED vars
  BY <1>2, <1>9 DEF ToggleConnection, StoreMessage, CallRoute, StopWaiting, ForgetJob,
       RouteAccepts, RouteBeginsSync, RouteSucceeds, RouteFails, RouteDenies,
       RouteFindsNoConnection, Reply, vars
<1> QED BY <1>3, <1>4, <1>5, <1>6, <1>7, <1>8, <1>9 DEF Next

\* The other variables.
OthersOK ==
    /\ connected \in BOOLEAN
    /\ contact \in SUBSET Fans
    /\ worker \in [Workers -> WorkerStates]
    /\ route \in [Tokens -> RouteStates]
    /\ asked \in [Fans -> 0..MaxRequests]
    /\ served \in [Fans -> 0..MaxRequests]

LEMMA ReplyTyped ==
    ASSUME OthersOK, NEW k \in Tokens, NEW disposition \in Dispositions, Reply(k, disposition)
    PROVE  worker' \in [Workers -> WorkerStates] /\ route' \in [Tokens -> RouteStates]
<1>1. NoRoute \in RouteStates
  BY DEF NoRoute, RouteStates
<1>2. route' \in [Tokens -> RouteStates]
  BY <1>1 DEF OthersOK, Reply
<1>3. ASSUME NEW w \in Workers
      PROVE  [worker[w] EXCEPT !.at = "answered", !.answer = disposition] \in WorkerStates
  BY DEF OthersOK, WorkerStates
<1>4. worker' \in [Workers -> WorkerStates]
  BY <1>3 DEF OthersOK, Reply
<1> QED BY <1>2, <1>4

LEMMA OthersStep == OthersOK /\ Busy /\ Covered /\ [Next]_vars => OthersOK'
<1> SUFFICES ASSUME OthersOK, Busy, Covered, [Next]_vars PROVE OthersOK'
  OBVIOUS
<1> USE DEF OthersOK
<1>0. Idle \in WorkerStates
  BY DEF Idle, WorkerStates, Dispositions
<1>1. CASE ToggleConnection
  BY <1>1 DEF ToggleConnection
<1>2. ASSUME NEW f \in Fans, StoreMessage(f) PROVE OthersOK'
  BY <1>2 DEF StoreMessage
<1>3. ASSUME NEW f \in Fans, NEW linked \in BOOLEAN, Enqueue(f, linked) PROVE OthersOK'
  <2>1. asked[f] + 1 \in 0..MaxRequests
    BY <1>3, QueueDomains DEF Enqueue
  <2> QED BY <1>3, <2>1 DEF Enqueue
<1>4. ASSUME NEW w \in Workers, NEW f \in Fans, NEW k \in Tokens, Claim(w, f, k)
      PROVE  OthersOK'
  <2>1. [at |-> "claimed", fan |-> f, token |-> k, answer |-> "retry"] \in WorkerStates
    BY DEF WorkerStates, Dispositions
  <2> QED BY <1>4, <2>1 DEF Claim
<1>5. ASSUME NEW w \in Workers, ClaimNothing(w) PROVE OthersOK'
  BY <1>5 DEF ClaimNothing
<1>6. ASSUME NEW w \in Workers, CallRoute(w) PROVE OthersOK'
  <2>1. [at |-> "called", fan |-> worker[w].fan, from |-> 0] \in RouteStates
    BY DEF RouteStates, WorkerStates
  <2>2. [worker[w] EXCEPT !.at = "waiting"] \in WorkerStates
    BY DEF WorkerStates
  <2> QED BY <1>6, <2>1, <2>2 DEF CallRoute
<1>7. ASSUME NEW w \in Workers, StopWaiting(w) PROVE OthersOK'
  <2>1. [worker[w] EXCEPT !.at = "answered", !.answer = "retry"] \in WorkerStates
    BY DEF WorkerStates, Dispositions
  <2> QED BY <1>7, <2>1 DEF StopWaiting
<1>8. ASSUME NEW w \in Workers, Finish(w) \/ ForgetJob(w) PROVE OthersOK'
  BY <1>0, <1>8 DEF Finish, ForgetJob
<1>9. ASSUME NEW k \in Tokens, RouteAccepts(k) PROVE OthersOK'
  <2>1. [route[k] EXCEPT !.at = "accepted"] \in RouteStates
    BY DEF RouteStates
  <2> QED BY <1>9, <2>1 DEF RouteAccepts
<1>10. ASSUME NEW k \in Tokens, RouteBeginsSync(k) PROVE OthersOK'
  <2>1. route[k].fan \in Fans
    BY <1>10 DEF RouteBeginsSync, Busy
  <2> DEFINE n == asked[route[k].fan]
  <2>2. n \in Nat
    BY <2>1, QueueDomains
  <2>3. route' = [route EXCEPT ![k] = [route[k] EXCEPT !.at = "syncing", !.from = n]]
    BY <1>10 DEF RouteBeginsSync
  <2> HIDE DEF n
  <2>4. [route[k] EXCEPT !.at = "syncing", !.from = n] \in RouteStates
    BY <2>2 DEF RouteStates
  <2> QED BY <1>10, <2>3, <2>4 DEF RouteBeginsSync
<1>11. ASSUME NEW k \in Tokens, RouteSucceeds(k) PROVE OthersOK'
  <2> DEFINE f == route[k].fan
  <2>1. f \in Fans
    BY <1>11 DEF RouteSucceeds, Busy
  <2>2. route[k].from \in 0..MaxRequests
    <3>1. route[k].from <= asked[f] /\ route[k].from \in Nat /\ asked[f] \in 0..MaxRequests
      BY <1>11, <2>1 DEF RouteSucceeds, Covered, RouteStates
    <3> QED BY <3>1, QueueDomains
  <2>3. served' \in [Fans -> 0..MaxRequests]
    BY <1>11, <2>1, <2>2 DEF RouteSucceeds
  <2> QED BY <1>11, <2>3, ReplyTyped DEF RouteSucceeds, Reply, Dispositions
<1>12. ASSUME NEW k \in Tokens, RouteFails(k) \/ RouteDenies(k) \/ RouteFindsNoConnection(k)
       PROVE  OthersOK'
  <2>1. PICK disposition \in Dispositions : Reply(k, disposition) /\ UNCHANGED served
    BY <1>12 DEF RouteFails, RouteDenies, RouteFindsNoConnection, Dispositions
  <2> QED BY <2>1, ReplyTyped DEF Reply
<1>13. ASSUME NEW f \in Fans, LeaseRunsOut(f) \/ ComesDue(f) PROVE OthersOK'
  BY <1>13 DEF LeaseRunsOut, ComesDue
<1>14. ASSUME NEW f \in Fans, DeleteContact(f) PROVE OthersOK'
  BY <1>14 DEF DeleteContact
<1>15. CASE UNCHANGED vars
  BY <1>15 DEF vars
<1> QED BY <1>1, <1>2, <1>3, <1>4, <1>5, <1>6, <1>7, <1>8, <1>9, <1>10, <1>11, <1>12,
           <1>13, <1>14, <1>15 DEF Next

LEMMA TypeStep ==
    TypeOK /\ Requested /\ Busy /\ Covered /\ [Next]_vars => TypeOK' /\ Requested'
<1> SUFFICES ASSUME TypeOK, Requested, Busy, Covered, [Next]_vars
             PROVE  TypeOK' /\ Requested'
  OBVIOUS
<1>1. JobsOK'
  BY JobsStep
<1>2. OthersOK'
  BY OthersStep DEF TypeOK, OthersOK
<1>3. TypeOK'
  BY <1>1, <1>2 DEF TypeOK, JobsOK, OthersOK, RowOK
<1>4. Requested'
  BY <1>1 DEF Requested, IsOpen, JobsOK, RowOK
<1> QED BY <1>3, <1>4

-----------------------------------------------------------------------------
(* Who works for which row. *)

LEMMA BusyStep == TypeOK /\ Busy /\ [Next]_vars => Busy'
<1> SUFFICES ASSUME TypeOK, Busy, [Next]_vars PROVE Busy'
  OBVIOUS
<1> USE DEF TypeOK, Busy
<1>1. ASSUME NEW w \in Workers, NEW f \in Fans, NEW k \in Tokens, Claim(w, f, k) PROVE Busy'
  BY <1>1 DEF Claim
<1>2. ASSUME NEW w \in Workers, CallRoute(w) PROVE Busy'
  BY <1>2 DEF CallRoute, WorkerStates
<1>3. ASSUME NEW w \in Workers, StopWaiting(w) PROVE Busy'
  BY <1>3 DEF StopWaiting, WorkerStates
<1>4. ASSUME NEW w \in Workers, Finish(w) \/ ForgetJob(w) PROVE Busy'
  BY <1>4 DEF Finish, ForgetJob, Idle
<1>5. ASSUME NEW k \in Tokens, RouteAccepts(k) \/ RouteBeginsSync(k) PROVE Busy'
  BY <1>5 DEF RouteAccepts, RouteBeginsSync, RouteStates
<1>6. ASSUME NEW k \in Tokens, NEW disposition \in Dispositions, Reply(k, disposition)
      PROVE  Busy'
  BY <1>6 DEF Reply, NoRoute, WorkerStates
<1>7. ASSUME NEW k \in Tokens, RouteEnds(k) PROVE Busy'
  BY <1>6, <1>7 DEF RouteEnds, RouteSucceeds, RouteFails, RouteDenies, RouteFindsNoConnection,
       Dispositions
<1>8. ASSUME UNCHANGED <<worker, route>> PROVE Busy'
  BY <1>8
<1> QED BY <1>1, <1>2, <1>3, <1>4, <1>5, <1>7, <1>8 DEF Next, RouteEnds, ToggleConnection,
           StoreMessage, Enqueue, ClaimNothing, LeaseRunsOut, ComesDue, DeleteContact, vars

\* The claim stays, and with it the number of requests that came before it.
Kept(f) ==
    /\ job'[f].token = job[f].token
    /\ asked'[f] + job'[f].claimed + job[f].generation
         = asked[f] + job[f].claimed + job'[f].generation

\* The swept or finished row is the old one or has lost its token.
LEMMA SweptIs ==
    ASSUME NEW row \in Jobs
    PROVE  /\ Swept(row) \in Jobs
           /\ Swept(row) = row \/ Swept(row).token = NoToken
<1>1. "dead_letter" \in ClosedStates
  BY DEF ClosedStates
<1> QED BY <1>1, RequeuedIsFreed, MovedIsFreed DEF Swept, Closed, IsFreed

LEMMA FinishedIs ==
    ASSUME NEW row \in Jobs, NEW disposition \in Dispositions
    PROVE  Finished(row, disposition).token = NoToken
<1>1. "retry" \in OpenStates /\ {"succeeded", "cancelled", "dead_letter"} \subseteq ClosedStates
  BY DEF OpenStates, ClosedStates
<1>2. row.attempt < MaxAttempts \/ row.attempt >= MaxAttempts
  BY QueueDomains DEF Jobs
<1>3. Requeued(row).token = NoToken
  BY RequeuedIsFreed DEF IsFreed
<1>4. [Unclaimed(row) EXCEPT !.status = "retry", !.due = FALSE].token = NoToken
  BY <1>1, MovedIsFreed DEF IsFreed
<1>5. \A s \in ClosedStates : Closed(row, s).token = NoToken
  BY MovedIsFreed DEF IsFreed, Closed
<1> QED BY <1>1, <1>2, <1>3, <1>4, <1>5 DEF Finished, Dispositions

LEMMA FinishedSucceeds ==
    ASSUME NEW row \in Jobs, NEW disposition \in Dispositions,
           Finished(row, disposition).status = "succeeded"
    PROVE  disposition = "success" /\ ~ Newer(row)
<1>1. "retry" \in OpenStates /\ {"succeeded", "cancelled", "dead_letter"} \subseteq ClosedStates
  BY DEF OpenStates, ClosedStates
<1>2. row.attempt < MaxAttempts \/ row.attempt >= MaxAttempts
  BY QueueDomains DEF Jobs
<1>3. Requeued(row).status = "pending"
  BY RequeuedIsFreed
<1>4. [Unclaimed(row) EXCEPT !.status = "retry", !.due = FALSE].status = "retry"
  BY <1>1, MovedIsFreed
<1>5. \A s \in ClosedStates : Closed(row, s).status = s
  BY MovedIsFreed DEF Closed
<1> QED BY <1>1, <1>2, <1>3, <1>4, <1>5 DEF Finished, Dispositions

\* No step but a claim gives a row a token; others keep its claim or end it.
LEMMA RowStep ==
    ASSUME TypeOK, Busy, [Next]_vars, NEW f \in Fans
    PROVE  \/ Kept(f)
           \/ job'[f].token = NoToken
           \/ \E w \in Workers, k \in Tokens : Claim(w, f, k)
<1> USE DEF TypeOK
<1>0. /\ job[f] \in Jobs /\ job[f].claimed \in Nat /\ job[f].generation \in Nat
      /\ asked[f] \in Nat
  BY QueueDomains DEF Jobs
<1>1. ASSUME job'[f] = job[f], asked'[f] = asked[f] PROVE Kept(f)
  BY <1>0, <1>1 DEF Kept
<1>2. ASSUME NEW g \in Fans, NEW linked \in BOOLEAN, Enqueue(g, linked)
      PROVE  Kept(f) \/ job'[f].token = NoToken
  <2>1. CASE g # f
    BY <1>1, <1>2, <2>1 DEF Enqueue
  <2>2. CASE g = f /\ IsOpen(f)
    <3>1. job'[f] = AskedAgain(job[f], linked) /\ asked'[f] = asked[f] + 1
      BY <1>2, <2>2 DEF Enqueue
    <3>2. /\ job'[f].token = job[f].token /\ job'[f].claimed = job[f].claimed
          /\ job'[f].generation = job[f].generation + 1
      BY <1>0, <2>2, <3>1, AskedAgainIs DEF IsOpen
    <3> QED BY <1>0, <3>1, <3>2 DEF Kept
  <2>3. CASE g = f /\ ~ IsOpen(f)
    BY <1>2, <2>3 DEF Enqueue, AskedFirst, NoJob
  <2> QED BY <2>1, <2>2, <2>3
<1>3. ASSUME NEW w \in Workers, NEW g \in Fans, NEW k \in Tokens, Claim(w, g, k), g # f
      PROVE  Kept(f) \/ job'[f].token = NoToken
  <2>1. job'[f] = Swept(job[f]) /\ asked'[f] = asked[f]
    BY <1>3 DEF Claim
  <2> QED BY <1>0, <1>1, <2>1, SweptIs
<1>4. ASSUME NEW w \in Workers, ClaimNothing(w)
      PROVE  Kept(f) \/ job'[f].token = NoToken
  <2>1. job'[f] = Swept(job[f]) /\ asked'[f] = asked[f]
    BY <1>4 DEF ClaimNothing
  <2> QED BY <1>0, <1>1, <2>1, SweptIs
<1>5. ASSUME NEW w \in Workers, Finish(w)
      PROVE  Kept(f) \/ job'[f].token = NoToken
  <2>1. worker[w].answer \in Dispositions
    BY DEF WorkerStates
  <2>2. \/ job'[f] = job[f]
        \/ job'[f] = Finished(job[f], worker[w].answer)
    BY <1>5 DEF Finish
  <2>3. asked'[f] = asked[f]
    BY <1>5 DEF Finish
  <2> QED BY <1>0, <1>1, <2>1, <2>2, <2>3, FinishedIs
<1>6. ASSUME NEW g \in Fans, LeaseRunsOut(g) \/ ComesDue(g)
      PROVE  Kept(f)
  <2>0. \/ job'[f] = job[f]
        \/ job'[f] = [job[f] EXCEPT !.live = FALSE]
        \/ job'[f] = [job[f] EXCEPT !.due = TRUE]
    <3>1. CASE LeaseRunsOut(g)
      BY <3>1 DEF LeaseRunsOut
    <3>2. CASE ComesDue(g)
      BY <3>2 DEF ComesDue
    <3> QED BY <1>6, <3>1, <3>2
  <2>1. /\ job'[f].token = job[f].token /\ job'[f].claimed = job[f].claimed
        /\ job'[f].generation = job[f].generation
    BY <1>0, <2>0 DEF Jobs
  <2>2. asked'[f] = asked[f]
    BY <1>6 DEF LeaseRunsOut, ComesDue
  <2> QED BY <1>0, <2>1, <2>2 DEF Kept
<1>7. ASSUME NEW g \in Fans, DeleteContact(g)
      PROVE  Kept(f) \/ job'[f].token = NoToken
  <2>1. job'[f] = job[f] \/ job'[f] = NoJob
    BY <1>7 DEF DeleteContact
  <2>2. asked'[f] = asked[f]
    BY <1>7 DEF DeleteContact
  <2> QED BY <1>1, <2>1, <2>2 DEF NoJob
<1>8. ASSUME UNCHANGED <<job, asked>> PROVE Kept(f)
  BY <1>1, <1>8
<1> QED BY <1>2, <1>3, <1>4, <1>5, <1>6, <1>7, <1>8 DEF Next, vars, ToggleConnection,
           StoreMessage, CallRoute, StopWaiting, ForgetJob, RouteAccepts, RouteBeginsSync,
           RouteSucceeds, RouteFails, RouteDenies, RouteFindsNoConnection, Reply

\* What a claim does to the rows and the workers.
LEMMA ClaimIs ==
    ASSUME TypeOK, NEW w \in Workers, NEW f \in Fans, NEW k \in Tokens, Claim(w, f, k)
    PROVE  /\ job'[f].token = k
           /\ \A g \in Fans : job[g].token # k /\ (g # f => job'[g] = Swept(job[g]))
           /\ worker'[w].at = "claimed" /\ worker'[w].fan = f /\ worker'[w].token = k
           /\ \A v \in Workers : worker[v].token # k /\ (v # w => worker'[v] = worker[v])
           /\ route' = route /\ route[k].at = "none"
<1>1. /\ \A g \in Fans : job[g].token # k
      /\ \A v \in Workers : worker[v].token # k
      /\ route' = route /\ route[k].at = "none"
  BY DEF Claim, Fresh
<1>2. worker' = [worker EXCEPT ![w] = [at |-> "claimed", fan |-> f, token |-> k,
                                       answer |-> "retry"]]
  BY DEF Claim
<1>3. /\ worker'[w].at = "claimed" /\ worker'[w].fan = f /\ worker'[w].token = k
      /\ \A v \in Workers : v # w => worker'[v] = worker[v]
  BY <1>2 DEF TypeOK
<1>4. job' = [[g \in Fans |-> Swept(job[g])] EXCEPT ![f] = ClaimedRow(Swept(job[f]), k)]
  BY DEF Claim, ClaimedRow
<1>5. job'[f] = ClaimedRow(Swept(job[f]), k) /\ Swept(job[f]) \in Jobs
  BY <1>4, SweptIs DEF TypeOK
<1>6. job'[f].token = k
  BY <1>5 DEF ClaimedRow, Jobs
<1>7. \A g \in Fans : g # f => job'[g] = Swept(job[g])
  BY <1>4
<1> QED BY <1>1, <1>3, <1>6, <1>7

\* What a worker is doing changes in few ways.
LEMMA WorkerMoves ==
    ASSUME TypeOK, [Next]_vars, NEW w \in Workers
    PROVE  \/ worker'[w] = worker[w]
           \/ worker'[w].at = "idle"
           \/ /\ worker[w].at # "idle" /\ worker'[w].at # "idle"
              /\ worker'[w].fan = worker[w].fan /\ worker'[w].token = worker[w].token
              /\ worker'[w].at = "answered" /\ worker'[w].answer = "success" =>
                    RouteSucceeds(worker[w].token) /\ worker[w].token \in Tokens
           \/ \E f \in Fans, k \in Tokens : Claim(w, f, k)
<1> USE DEF TypeOK
<1>0. worker[w] \in WorkerStates
  OBVIOUS
<1>1. ASSUME NEW v \in Workers, NEW f \in Fans, NEW k \in Tokens, Claim(v, f, k), v # w
      PROVE  worker'[w] = worker[w]
  BY <1>1 DEF Claim
<1>2. ASSUME NEW v \in Workers, CallRoute(v)
      PROVE  \/ worker'[w] = worker[w]
             \/ /\ worker[w].at # "idle" /\ worker'[w].at = "waiting"
                /\ worker'[w].fan = worker[w].fan /\ worker'[w].token = worker[w].token
  BY <1>0, <1>2 DEF CallRoute, WorkerStates
<1>3. ASSUME NEW v \in Workers, StopWaiting(v)
      PROVE  \/ worker'[w] = worker[w]
             \/ /\ worker[w].at # "idle" /\ worker'[w].at = "answered"
                /\ worker'[w].fan = worker[w].fan /\ worker'[w].token = worker[w].token
                /\ worker'[w].answer = "retry"
  BY <1>0, <1>3 DEF StopWaiting, WorkerStates
<1>4. ASSUME NEW v \in Workers, Finish(v) \/ ForgetJob(v)
      PROVE  worker'[w] = worker[w] \/ worker'[w].at = "idle"
  BY <1>4 DEF Finish, ForgetJob, Idle
<1>5. ASSUME NEW k \in Tokens, NEW disposition, Reply(k, disposition)
      PROVE  \/ worker'[w] = worker[w]
             \/ /\ worker[w].at # "idle" /\ worker'[w].at = "answered"
                /\ worker'[w].fan = worker[w].fan /\ worker'[w].token = worker[w].token
                /\ worker'[w].answer = disposition /\ worker[w].token = k
  <2>1. CASE worker[w].at = "waiting" /\ worker[w].token = k
    <3>1. worker'[w] = [worker[w] EXCEPT !.at = "answered", !.answer = disposition]
      BY <1>5, <2>1 DEF Reply
    <3> QED BY <1>0, <2>1, <3>1 DEF WorkerStates
  <2>2. CASE ~ (worker[w].at = "waiting" /\ worker[w].token = k)
    BY <1>5, <2>2 DEF Reply
  <2> QED BY <2>1, <2>2
<1>6. ASSUME NEW k \in Tokens, RouteFails(k) \/ RouteDenies(k) \/ RouteFindsNoConnection(k)
      PROVE  \E disposition \in {"retry", "cancelled", "terminal"} : Reply(k, disposition)
  BY <1>6 DEF RouteFails, RouteDenies, RouteFindsNoConnection
<1>7. ASSUME UNCHANGED worker PROVE worker'[w] = worker[w]
  BY <1>7
<1>8. ASSUME NEW k \in Tokens, RouteSucceeds(k) PROVE Reply(k, "success")
  BY <1>8 DEF RouteSucceeds
<1>9. CASE /\ ~ \E k \in Tokens : \/ RouteSucceeds(k) \/ RouteFails(k) \/ RouteDenies(k)
                                 \/ RouteFindsNoConnection(k)
           /\ ~ \E v \in Workers : \/ CallRoute(v) \/ StopWaiting(v) \/ Finish(v) \/ ForgetJob(v)
           /\ ~ \E v \in Workers, f \in Fans, k \in Tokens : Claim(v, f, k)
  BY <1>7, <1>9 DEF Next, vars, ToggleConnection, StoreMessage, Enqueue, ClaimNothing,
     RouteAccepts, RouteBeginsSync, LeaseRunsOut, ComesDue, DeleteContact
<1> QED BY <1>1, <1>2, <1>3, <1>4, <1>5, <1>6, <1>8, <1>9

\* So does a run of the route.
LEMMA RouteMoves ==
    ASSUME TypeOK, [Next]_vars, NEW k \in Tokens
    PROVE  \/ route'[k] = route[k]
           \/ route'[k].at = "none"
           \/ /\ route[k].at # "none" /\ route'[k].fan = route[k].fan
              /\ route'[k].at = "syncing" =>
                    RouteBeginsSync(k) /\ route'[k].from = asked[route[k].fan]
           \/ \E w \in Workers : /\ CallRoute(w) /\ worker[w].token = k
                                 /\ route'[k].fan = worker[w].fan /\ route'[k].at = "called"
<1> USE DEF TypeOK
<1>0. route[k] \in RouteStates
  OBVIOUS
<1>1. ASSUME NEW w \in Workers, CallRoute(w)
      PROVE  \/ route'[k] = route[k]
             \/ worker[w].token = k /\ route'[k].fan = worker[w].fan /\ route'[k].at = "called"
  BY <1>1 DEF CallRoute
<1>2. ASSUME NEW t \in Tokens, RouteAccepts(t)
      PROVE  \/ route'[k] = route[k]
             \/ /\ route[k].at # "none" /\ route'[k].fan = route[k].fan
                /\ route'[k].at = "accepted"
  BY <1>0, <1>2 DEF RouteAccepts, RouteStates
<1>3. ASSUME NEW t \in Tokens, RouteBeginsSync(t)
      PROVE  \/ route'[k] = route[k]
             \/ /\ t = k /\ route[k].at # "none" /\ route'[k].fan = route[k].fan
                /\ route'[k].from = asked[route[k].fan]
  BY <1>0, <1>3 DEF RouteBeginsSync, RouteStates
<1>4. ASSUME NEW t \in Tokens, NEW disposition, Reply(t, disposition)
      PROVE  route'[k] = route[k] \/ route'[k].at = "none"
  BY <1>4 DEF Reply, NoRoute
<1>5. ASSUME NEW t \in Tokens, RouteEnds(t)
      PROVE  route'[k] = route[k] \/ route'[k].at = "none"
  BY <1>4, <1>5 DEF RouteEnds, RouteSucceeds, RouteFails, RouteDenies, RouteFindsNoConnection
<1>6. ASSUME UNCHANGED route PROVE route'[k] = route[k]
  BY <1>6
<1>7. CASE /\ ~ \E t \in Tokens : RouteAccepts(t) \/ RouteBeginsSync(t) \/ RouteEnds(t)
           /\ ~ \E w \in Workers : CallRoute(w)
  <2>1. CASE \/ ToggleConnection \/ \E f \in Fans : StoreMessage(f)
             \/ \E f \in Fans, linked \in BOOLEAN : Enqueue(f, linked)
             \/ \E f \in Fans : LeaseRunsOut(f) \/ ComesDue(f) \/ DeleteContact(f)
             \/ UNCHANGED vars
    BY <1>6, <2>1 DEF ToggleConnection, StoreMessage, Enqueue, LeaseRunsOut, ComesDue,
                      DeleteContact, vars
  <2>2. CASE \/ \E w \in Workers, f \in Fans, t \in Tokens : Claim(w, f, t)
             \/ \E w \in Workers : \/ ClaimNothing(w) \/ StopWaiting(w)
                                   \/ Finish(w) \/ ForgetJob(w)
    BY <1>6, <2>2 DEF Claim, ClaimNothing, StopWaiting, Finish, ForgetJob
  <2> QED BY <1>7, <2>1, <2>2 DEF Next, RouteEnds
<1> QED BY <1>1, <1>2, <1>3, <1>5, <1>7

LEMMA MatchedStep ==
    TypeOK /\ Busy /\ Matched /\ [Next]_vars /\ TypeOK' /\ Busy' => Matched'
<1> SUFFICES ASSUME TypeOK, Busy, Matched, [Next]_vars, TypeOK', Busy' PROVE Matched'
  OBVIOUS
<1>1. ASSUME NEW w \in Workers, NEW f \in Fans,
             worker'[w].at # "idle", worker'[w].token = job'[f].token
      PROVE  worker'[w].fan = f
  <2>1. job'[f].token # NoToken
    BY <1>1, QueueDomains DEF Busy
  <2>2. ASSUME NEW v \in Workers, NEW g \in Fans, NEW k \in Tokens, Claim(v, g, k)
        PROVE  worker'[w].fan = f
    <3>1. CASE v = w /\ g = f
      BY <2>2, <3>1, ClaimIs
    <3>2. CASE v = w /\ g # f
      <4>1. worker'[w].token = k /\ job[f].token # k /\ job'[f] = Swept(job[f])
        BY <2>2, <3>2, ClaimIs
      <4>2. job'[f] = job[f]
        BY <2>1, <4>1, SweptIs DEF TypeOK
      <4> QED BY <1>1, <4>1, <4>2
    <3>3. CASE v # w /\ g = f
      <4>1. worker'[w] = worker[w] /\ worker[w].token # k /\ job'[f].token = k
        BY <2>2, <3>3, ClaimIs
      <4> QED BY <1>1, <4>1
    <3>4. CASE v # w /\ g # f
      <4>1. worker'[w] = worker[w] /\ job'[f] = Swept(job[f])
        BY <2>2, <3>4, ClaimIs
      <4>2. job'[f] = job[f]
        BY <2>1, <4>1, SweptIs DEF TypeOK
      <4> QED BY <1>1, <4>1, <4>2 DEF Matched
    <3> QED BY <3>1, <3>2, <3>3, <3>4
  <2>3. CASE ~ \E v \in Workers, g \in Fans, k \in Tokens : Claim(v, g, k)
    <3>1. job'[f].token = job[f].token
      BY <2>1, <2>3, RowStep DEF Kept
    <3>2. /\ worker[w].at # "idle"
          /\ worker'[w].fan = worker[w].fan /\ worker'[w].token = worker[w].token
      BY <1>1, <2>3, WorkerMoves
    <3> QED BY <1>1, <3>1, <3>2 DEF Matched
  <2> QED BY <2>2, <2>3
<1>2. ASSUME NEW k \in Tokens, NEW f \in Fans, route'[k].at # "none", job'[f].token = k
      PROVE  route'[k].fan = f
  <2>1. k # NoToken
    BY QueueDomains
  <2>2. CASE \E w \in Workers, t \in Tokens : Claim(w, f, t)
    <3>1. PICK w \in Workers, t \in Tokens : Claim(w, f, t)
      BY <2>2
    <3>2. job'[f].token = t /\ route'[k] = route[k] /\ route[t].at = "none"
      BY <3>1, ClaimIs
    <3> QED BY <1>2, <3>2
  <2>3. CASE ~ \E w \in Workers, t \in Tokens : Claim(w, f, t)
    <3>1. job[f].token = k
      BY <1>2, <2>1, <2>3, RowStep DEF Kept
    <3>2. CASE \E w \in Workers : /\ CallRoute(w) /\ worker[w].token = k
                                  /\ route'[k].fan = worker[w].fan
      BY <3>1, <3>2 DEF CallRoute, Matched
    <3>3. CASE route[k].at # "none" /\ route'[k].fan = route[k].fan
      BY <3>1, <3>3 DEF Matched
    <3> QED BY <1>2, <3>2, <3>3, RouteMoves
  <2> QED BY <2>2, <2>3
<1> QED BY <1>1, <1>2 DEF Matched

-----------------------------------------------------------------------------
(* What a sync covers. *)

\* Requests and the syncs that cover them only grow, the latter at the end of a sync.
LEMMA CountsGrow ==
    ASSUME TypeOK, Busy, [Next]_vars, NEW f \in Fans
    PROVE  /\ asked[f] <= asked'[f]
           /\ \/ served'[f] = served[f]
              \/ \E k \in Tokens : /\ RouteSucceeds(k) /\ route[k].fan = f
                                   /\ served'[f] = route[k].from
                                   /\ served[f] <= served'[f]
<1> USE DEF TypeOK
<1>0. asked[f] \in Nat /\ served[f] \in Nat
  BY QueueDomains
<1>1. ASSUME NEW g \in Fans, NEW linked \in BOOLEAN, Enqueue(g, linked)
      PROVE  asked[f] <= asked'[f] /\ served'[f] = served[f]
  <2>1. asked' = [asked EXCEPT ![g] = asked[g] + 1] /\ served' = served
    BY <1>1 DEF Enqueue
  <2>2. asked'[f] = asked[f] \/ asked'[f] = asked[f] + 1
    BY <2>1
  <2> QED BY <1>0, <2>1, <2>2
<1>2. ASSUME NEW k \in Tokens, RouteSucceeds(k)
      PROVE  /\ asked[f] <= asked'[f]
             /\ \/ served'[f] = served[f]
                \/ /\ route[k].fan = f /\ served'[f] = route[k].from
                   /\ served[f] <= served'[f]
  <2>1. route[k].from \in Nat /\ route[k].fan \in Fans
    BY <1>2 DEF RouteStates, RouteSucceeds, Busy
  <2>2. asked' = asked
    BY <1>2 DEF RouteSucceeds, Reply
  <2>3. CASE route[k].fan = f
    <3>1. served'[f] = IF route[k].from > served[f] THEN route[k].from ELSE served[f]
      BY <1>2, <2>3 DEF RouteSucceeds
    <3> QED BY <1>0, <2>1, <2>2, <2>3, <3>1
  <2>4. CASE route[k].fan # f
    <3>1. served'[f] = served[f]
      BY <1>2, <2>4 DEF RouteSucceeds
    <3> QED BY <1>0, <2>2, <3>1
  <2> QED BY <2>3, <2>4
<1>3. ASSUME UNCHANGED <<asked, served>>
      PROVE  asked[f] <= asked'[f] /\ served'[f] = served[f]
  BY <1>0, <1>3
<1>4. CASE /\ ~ \E g \in Fans, linked \in BOOLEAN : Enqueue(g, linked)
           /\ ~ \E k \in Tokens : RouteSucceeds(k)
  <2>2. ASSUME \/ \E w \in Workers, g \in Fans, k \in Tokens : Claim(w, g, k)
               \/ \E w \in Workers : \/ ClaimNothing(w) \/ CallRoute(w) \/ StopWaiting(w)
                                     \/ Finish(w) \/ ForgetJob(w)
        PROVE  UNCHANGED <<asked, served>>
    BY <2>2 DEF Claim, ClaimNothing, CallRoute, StopWaiting, Finish, ForgetJob
  <2>3. ASSUME \E k \in Tokens : \/ RouteAccepts(k) \/ RouteBeginsSync(k) \/ RouteFails(k)
                                 \/ RouteDenies(k) \/ RouteFindsNoConnection(k)
        PROVE  UNCHANGED <<asked, served>>
    BY <2>3 DEF RouteAccepts, RouteBeginsSync, RouteFails, RouteDenies,
                RouteFindsNoConnection, Reply
  <2>4. ASSUME \/ ToggleConnection \/ UNCHANGED vars
               \/ \E g \in Fans : \/ StoreMessage(g) \/ LeaseRunsOut(g)
                                  \/ ComesDue(g) \/ DeleteContact(g)
        PROVE  UNCHANGED <<asked, served>>
    BY <2>4 DEF ToggleConnection, vars, StoreMessage, LeaseRunsOut, ComesDue, DeleteContact
  <2>1. UNCHANGED <<asked, served>>
    BY <1>4, <2>2, <2>3, <2>4 DEF Next
  <2> QED BY <1>3, <2>1
<1> QED BY <1>1, <1>2, <1>4

LEMMA CoveredStep ==
    IInv /\ [Next]_vars /\ TypeOK' /\ Busy' /\ Matched' => Covered'
<1> SUFFICES ASSUME IInv, [Next]_vars, TypeOK', Busy', Matched' PROVE Covered'
  OBVIOUS
<1> USE DEF IInv
<1>0. \A f \in Fans : /\ asked[f] \in Nat /\ asked'[f] \in Nat
                      /\ served[f] \in Nat /\ served'[f] \in Nat
                      /\ job[f] \in Jobs /\ job'[f] \in Jobs
                      /\ job[f].claimed \in Nat /\ job[f].generation \in Nat
                      /\ job'[f].claimed \in Nat /\ job'[f].generation \in Nat
                      /\ job[f].claimed <= job[f].generation
  BY QueueDomains DEF TypeOK, Jobs
\* What covered the old row covers the row that keeps its claim.
<1>1. ASSUME NEW f \in Fans, Kept(f), NEW n \in Nat, Covers(n, f)
      PROVE  asked'[f] + job'[f].claimed <= n + job'[f].generation
  BY <1>0, <1>1 DEF Kept, Covers
<1>2. ASSUME NEW f \in Fans PROVE served'[f] <= asked'[f]
  <2>1. asked[f] <= asked'[f]
    BY CountsGrow
  <2>2. CASE served'[f] = served[f]
    BY <1>0, <2>1, <2>2 DEF Covered
  <2>3. ASSUME NEW k \in Tokens, RouteSucceeds(k), route[k].fan = f,
               served'[f] = route[k].from
        PROVE  served'[f] <= asked'[f]
    BY <1>0, <2>1, <2>3 DEF Covered, RouteSucceeds
  <2> QED BY <2>2, <2>3, CountsGrow
<1>3. ASSUME NEW k \in Tokens, route'[k].at = "syncing"
      PROVE  /\ route'[k].from <= asked'[route'[k].fan]
             /\ route'[k].from \in Nat /\ route'[k].fan \in Fans
  <2>1. route'[k].from \in Nat /\ route'[k].fan \in Fans
    BY <1>3 DEF TypeOK, RouteStates, Busy
  <2>2. asked[route'[k].fan] <= asked'[route'[k].fan]
    BY <2>1, CountsGrow
  <2>3. route'[k].from <= asked[route'[k].fan]
    <3>1. CASE route'[k] = route[k]
      BY <1>3, <3>1 DEF Covered
    <3>2. CASE route'[k].fan = route[k].fan /\ route'[k].from = asked[route[k].fan]
      BY <1>0, <2>1, <3>2
    <3> QED BY <1>3, <3>1, <3>2, RouteMoves
  <2> QED BY <1>0, <2>1, <2>2, <2>3
<1>4. ASSUME NEW f \in Fans, NEW w \in Workers, NEW k \in Tokens, Claim(w, f, k)
      PROVE  /\ job'[f].token = k /\ route' = route /\ route[k].at = "none"
             /\ \A v \in Workers : worker'[v].token = k => worker'[v].at = "claimed"
  BY <1>4, ClaimIs
<1>5. ASSUME NEW k \in Tokens, NEW f \in Fans, route'[k].at = "syncing", job'[f].token = k
      PROVE  asked'[f] + job'[f].claimed <= route'[k].from + job'[f].generation
  <2>1. ~ \E w \in Workers, t \in Tokens : Claim(w, f, t)
    BY <1>4, <1>5
  <2>2. Kept(f) /\ job[f].token = k
    BY <1>5, <2>1, QueueDomains, RowStep DEF Kept
  <2>3. route'[k].from \in Nat
    BY <1>3, <1>5
  <2>4. Covers(route'[k].from, f)
    <3>1. CASE route'[k] = route[k]
      BY <1>5, <2>2, <3>1 DEF Covered
    <3>2. CASE route[k].at # "none" /\ route'[k].from = asked[route[k].fan]
      <4>1. route[k].fan = f
        BY <2>2, <3>2 DEF Matched
      <4> QED BY <1>0, <3>2, <4>1 DEF Covers
    <3> QED BY <1>5, <3>1, <3>2, RouteMoves
  <2> QED BY <1>1, <2>2, <2>3, <2>4
<1>6. ASSUME NEW w \in Workers, NEW f \in Fans, worker'[w].at = "answered",
             worker'[w].answer = "success", worker'[w].token = job'[f].token
      PROVE  asked'[f] + job'[f].claimed <= served'[f] + job'[f].generation
  <2>1. worker'[w].token \in Tokens
    BY <1>6 DEF Busy
  <2>2. ~ \E v \in Workers, t \in Tokens : Claim(v, f, t)
    BY <1>4, <1>6
  <2>3. Kept(f) /\ job[f].token = worker'[w].token
    BY <1>6, <2>1, <2>2, QueueDomains, RowStep DEF Kept
  <2>4. Covers(served'[f], f)
    <3>1. CASE worker'[w] = worker[w]
      <4>1. Covers(served[f], f)
        BY <1>6, <2>3, <3>1 DEF Covered
      <4>2. served[f] <= served'[f]
        BY <1>0, CountsGrow
      <4> QED BY <1>0, <4>1, <4>2 DEF Covers
    <3>2. CASE /\ worker'[w].token = worker[w].token
               /\ RouteSucceeds(worker[w].token) /\ worker[w].token \in Tokens
      <4> DEFINE k == worker[w].token
      <4>1. route[k].at = "syncing" /\ job[f].token = k
        BY <2>3, <3>2 DEF RouteSucceeds
      <4>2. route[k].fan = f /\ Covers(route[k].from, f)
        BY <3>2, <4>1 DEF Matched, Covered
      <4>3. route[k].from \in Nat
        BY <3>2 DEF TypeOK, RouteStates
      <4>4. route[k].from <= served'[f]
        <5>1. served'[f] = IF route[k].from > served[f] THEN route[k].from ELSE served[f]
          BY <3>2, <4>2 DEF RouteSucceeds, TypeOK
        <5> QED BY <1>0, <4>3, <5>1
      <4> QED BY <1>0, <4>2, <4>3, <4>4 DEF Covers
    <3>3. CASE \E g \in Fans, k \in Tokens : Claim(w, g, k)
      BY <1>6, <3>3, ClaimIs
    <3> QED BY <1>6, <3>1, <3>2, <3>3, WorkerMoves
  <2> QED BY <1>0, <1>1, <2>3, <2>4
<1> QED BY <1>2, <1>3, <1>5, <1>6 DEF Covered, Covers

\* A row becomes "succeeded" only by a finish with that answer, and no newer request.
LEMMA SuccessIs ==
    ASSUME TypeOK, Busy, [Next]_vars, NEW f \in Fans, job'[f].status = "succeeded"
    PROVE  \/ job[f].status = "succeeded" /\ asked'[f] = asked[f]
           \/ \E w \in Workers :
                 /\ worker[w].at = "answered" /\ worker[w].answer = "success"
                 /\ worker[w].token = job[f].token /\ ~ Newer(job[f])
                 /\ UNCHANGED <<asked, served>>
<1> USE DEF TypeOK
<1>0. job[f] \in Jobs
  OBVIOUS
<1>1. ASSUME job'[f].status = job[f].status, asked'[f] = asked[f]
      PROVE  job[f].status = "succeeded" /\ asked'[f] = asked[f]
  BY <1>1
<1>2. ASSUME NEW g \in Fans, NEW linked \in BOOLEAN, Enqueue(g, linked)
      PROVE  job[f].status = "succeeded" /\ asked'[f] = asked[f]
  <2>1. CASE g # f
    BY <1>2, <2>1 DEF Enqueue
  <2>2. CASE g = f /\ IsOpen(f)
    <3>1. job'[f].status \in OpenStates
      BY <1>0, <1>2, <2>2, AskedAgainIs DEF Enqueue, IsOpen
    <3> QED BY <3>1 DEF OpenStates
  <2>3. CASE g = f /\ ~ IsOpen(f)
    BY <1>2, <2>3 DEF Enqueue, AskedFirst, NoJob
  <2> QED BY <2>1, <2>2, <2>3
<1>3. Swept(job[f]).status = "succeeded" => Swept(job[f]).status = job[f].status
  <2>1. Requeued(job[f]).status = "pending"
    BY <1>0, RequeuedIsFreed
  <2>2. Closed(job[f], "dead_letter").status = "dead_letter"
    BY DEF Closed, Unclaimed, Jobs
  <2> QED BY <2>1, <2>2 DEF Swept
<1>4. ASSUME NEW w \in Workers, NEW g \in Fans, NEW k \in Tokens, Claim(w, g, k)
      PROVE  job[f].status = "succeeded" /\ asked'[f] = asked[f]
  <2>1. CASE g = f
    <3>1. job'[f].status = "claimed"
      BY <1>0, <1>4, <2>1, SweptIs DEF Claim, Jobs
    <3> QED BY <3>1
  <2>2. CASE g # f
    BY <1>3, <1>4, <2>2 DEF Claim
  <2> QED BY <2>1, <2>2
<1>5. ASSUME NEW w \in Workers, ClaimNothing(w)
      PROVE  job[f].status = "succeeded" /\ asked'[f] = asked[f]
  BY <1>3, <1>5 DEF ClaimNothing
<1>6. ASSUME NEW w \in Workers, Finish(w)
      PROVE  \/ job[f].status = "succeeded" /\ asked'[f] = asked[f]
             \/ /\ worker[w].at = "answered" /\ worker[w].answer = "success"
                /\ worker[w].token = job[f].token /\ ~ Newer(job[f])
                /\ UNCHANGED <<asked, served>>
  <2>1. CASE worker[w].fan = f /\ Holds(worker[w].token, f)
    <3>1. job'[f] = Finished(job[f], worker[w].answer)
      BY <1>6, <2>1 DEF Finish
    <3>2. worker[w].answer \in Dispositions
      BY DEF WorkerStates
    <3>3. worker[w].answer = "success" /\ ~ Newer(job[f])
      BY <1>0, <3>1, <3>2, FinishedSucceeds
    <3> QED BY <1>6, <2>1, <3>3 DEF Finish, Holds
  <2>2. CASE ~ (worker[w].fan = f /\ Holds(worker[w].token, f))
    BY <1>6, <2>2 DEF Finish
  <2> QED BY <2>1, <2>2
<1>7. ASSUME NEW g \in Fans, LeaseRunsOut(g) \/ ComesDue(g)
      PROVE  job[f].status = "succeeded" /\ asked'[f] = asked[f]
  BY <1>0, <1>7 DEF LeaseRunsOut, ComesDue, Jobs
<1>8. ASSUME NEW g \in Fans, DeleteContact(g)
      PROVE  job[f].status = "succeeded" /\ asked'[f] = asked[f]
  BY <1>8 DEF DeleteContact, NoJob
<1>9. ASSUME UNCHANGED <<job, asked>>
      PROVE  job[f].status = "succeeded" /\ asked'[f] = asked[f]
  BY <1>9
<1> QED BY <1>2, <1>4, <1>5, <1>6, <1>7, <1>8, <1>9 DEF Next, vars, ToggleConnection,
           StoreMessage, CallRoute, StopWaiting, ForgetJob, RouteAccepts, RouteBeginsSync,
           RouteSucceeds, RouteFails, RouteDenies, RouteFindsNoConnection, Reply

LEMMA NoRequestLostStep == IInv /\ [Next]_vars /\ TypeOK' /\ Covered' => NoRequestLost'
<1> SUFFICES ASSUME IInv, [Next]_vars, TypeOK', Covered',
                    NEW f \in Fans, job'[f].status = "succeeded"
             PROVE  served'[f] = asked'[f]
  BY DEF NoRequestLost
<1>0. /\ asked[f] \in Nat /\ asked'[f] \in Nat /\ served[f] \in Nat /\ served'[f] \in Nat
      /\ job[f].claimed \in Nat /\ job[f].generation \in Nat
  BY QueueDomains DEF IInv, TypeOK, Jobs
<1>1. served'[f] <= asked'[f]
  BY DEF Covered
<1>2. asked'[f] <= served'[f]
  <2>1. CASE job[f].status = "succeeded" /\ asked'[f] = asked[f]
    <3>1. served[f] = asked[f]
      BY <2>1 DEF IInv, NoRequestLost
    <3>2. served[f] <= served'[f]
      BY <1>0, CountsGrow DEF IInv
    <3> QED BY <2>1, <3>1, <3>2
  <2>2. ASSUME NEW w \in Workers,
               worker[w].at = "answered", worker[w].answer = "success",
               worker[w].token = job[f].token, ~ Newer(job[f]), UNCHANGED <<asked, served>>
        PROVE  asked'[f] <= served'[f]
    <3>1. asked[f] + job[f].claimed <= served[f] + job[f].generation
      BY <2>2 DEF IInv, Covered, Covers
    <3>2. job[f].generation <= job[f].claimed
      BY <1>0, <2>2 DEF Newer
    <3> QED BY <1>0, <2>2, <3>1, <3>2
  <2> QED BY <2>1, <2>2, SuccessIs DEF IInv
<1> QED BY <1>0, <1>1, <1>2

LEMMA InitInv == Init => IInv
<1> SUFFICES ASSUME Init PROVE IInv
  OBVIOUS
<1>1. NoJob \in Jobs /\ RowOK(NoJob)
  BY NoJobOK DEF RowOK
<1>2. Idle \in WorkerStates /\ NoRoute \in RouteStates
  BY DEF Idle, WorkerStates, Dispositions, NoRoute, RouteStates
<1>3. 0 \in 0..MaxRequests
  BY QueueDomains
<1>4. TypeOK
  BY <1>1, <1>2, <1>3 DEF Init, TypeOK, RowOK
<1>5. Requested /\ NoRequestLost
  BY DEF Init, Requested, IsOpen, NoRequestLost, NoJob, OpenStates
<1>6. Busy /\ Matched /\ Covered
  BY DEF Init, Busy, Matched, Covered, Idle, NoRoute
<1> QED BY <1>4, <1>5, <1>6 DEF IInv

LEMMA Invariance == Spec => []IInv
<1>1. IInv /\ [Next]_vars => IInv'
  <2> SUFFICES ASSUME IInv, [Next]_vars PROVE IInv'
    OBVIOUS
  <2>1. TypeOK' /\ Requested'
    BY TypeStep DEF IInv
  <2>2. Busy'
    BY BusyStep DEF IInv
  <2>3. Matched'
    BY <2>1, <2>2, MatchedStep DEF IInv
  <2>4. Covered'
    BY <2>1, <2>2, <2>3, CoveredStep
  <2>5. NoRequestLost'
    BY <2>1, <2>4, NoRequestLostStep
  <2> QED BY <2>1, <2>2, <2>3, <2>4, <2>5 DEF IInv
<1> QED BY InitInv, <1>1, PTL DEF Spec

\* The rows, processes and runs of the route keep the shape that the table, the worker
\* and the route give them.
THEOREM QueueTyped == Spec => []TypeOK
BY Invariance, PTL DEF IInv

\* A job is closed as succeeded only when a sync that began after the last request has
\* completed: for any number of conversations, workers, tokens, attempts and requests.
THEOREM RequestsAreServed == Spec => []NoRequestLost
BY Invariance, PTL DEF IInv

-----------------------------------------------------------------------------
(* What becomes of one row in a step, and of the requests it stands for. *)

\* A worker and the route leave the counts alone unless the route succeeds.
RowIsServed(f) ==
    \/ job'[f] = job[f]
    \/ job'[f] = NoJob
    \/ job'[f] = Swept(job[f])
    \/ \E k \in Tokens : Claimable(Swept(job[f])) /\ job'[f] = ClaimedRow(Swept(job[f]), k)
    \/ \E w \in Workers :
          /\ job[f].status = "claimed" /\ worker[w].token = job[f].token
          /\ worker[w].answer \in Dispositions
          /\ job'[f] = Finished(job[f], worker[w].answer)
    \/ job'[f] = [job[f] EXCEPT !.live = FALSE]
    \/ job'[f] = [job[f] EXCEPT !.due = TRUE]

LEMMA RowKinds ==
    ASSUME TypeOK, Busy, [Next]_vars, NEW f \in Fans
    PROVE  \/ job'[f] = job[f] /\ asked'[f] = asked[f]
           \/ RowIsServed(f) /\ UNCHANGED <<asked, served>>
           \/ /\ \E linked \in BOOLEAN :
                    job'[f] = IF IsOpen(f) THEN AskedAgain(job[f], linked) ELSE AskedFirst(linked)
              /\ asked'[f] = asked[f] + 1 /\ UNCHANGED served
<1> USE DEF TypeOK
<1>1. ASSUME NEW g \in Fans, NEW linked \in BOOLEAN, Enqueue(g, linked)
      PROVE  \/ job'[f] = job[f] /\ asked'[f] = asked[f]
             \/ /\ job'[f] = IF IsOpen(f) THEN AskedAgain(job[f], linked) ELSE AskedFirst(linked)
                /\ asked'[f] = asked[f] + 1 /\ UNCHANGED served
  BY <1>1 DEF Enqueue
<1>2. ASSUME NEW w \in Workers, NEW g \in Fans, NEW k \in Tokens, Claim(w, g, k)
      PROVE  RowIsServed(f) /\ UNCHANGED <<asked, served>>
  <2>1. CASE g = f
    <3>1. Claimable(Swept(job[f])) /\ job'[f] = ClaimedRow(Swept(job[f]), k)
      BY <1>2, <2>1 DEF Claim, ClaimedRow
    <3> QED BY <1>2, <3>1 DEF RowIsServed, Claim
  <2>2. CASE g # f
    BY <1>2, <2>2 DEF RowIsServed, Claim
  <2> QED BY <2>1, <2>2
<1>3. ASSUME NEW w \in Workers, ClaimNothing(w)
      PROVE  RowIsServed(f) /\ UNCHANGED <<asked, served>>
  BY <1>3 DEF RowIsServed, ClaimNothing
<1>4. ASSUME NEW w \in Workers, Finish(w)
      PROVE  RowIsServed(f) /\ UNCHANGED <<asked, served>>
  <2>1. worker[w].answer \in Dispositions
    BY DEF WorkerStates
  <2>2. CASE worker[w].fan = f /\ Holds(worker[w].token, f)
    <3>1. /\ job'[f] = Finished(job[f], worker[w].answer)
          /\ job[f].status = "claimed" /\ worker[w].token = job[f].token
      BY <1>4, <2>2 DEF Finish, Holds
    <3> QED BY <1>4, <2>1, <3>1 DEF RowIsServed, Finish
  <2>3. CASE ~ (worker[w].fan = f /\ Holds(worker[w].token, f))
    <3>1. job'[f] = job[f]
      BY <1>4, <2>3 DEF Finish
    <3> QED BY <1>4, <3>1 DEF RowIsServed, Finish
  <2> QED BY <2>2, <2>3
<1>5. ASSUME NEW g \in Fans, LeaseRunsOut(g) \/ ComesDue(g)
      PROVE  RowIsServed(f) /\ UNCHANGED <<asked, served>>
  BY <1>5 DEF RowIsServed, LeaseRunsOut, ComesDue
<1>6. ASSUME NEW g \in Fans, DeleteContact(g)
      PROVE  RowIsServed(f) /\ UNCHANGED <<asked, served>>
  BY <1>6 DEF RowIsServed, DeleteContact
<1>7. ASSUME UNCHANGED <<job, asked>>
      PROVE  job'[f] = job[f] /\ asked'[f] = asked[f]
  BY <1>7
<1> QED BY <1>1, <1>2, <1>3, <1>4, <1>5, <1>6, <1>7 DEF Next, vars, ToggleConnection,
           StoreMessage, CallRoute, StopWaiting, ForgetJob, RouteAccepts, RouteBeginsSync,
           RouteSucceeds, RouteFails, RouteDenies, RouteFindsNoConnection, Reply

\* The rows that the sweep and the finish leave, by their state.
LEMMA SweptStatus ==
    ASSUME NEW row \in Jobs
    PROVE  \/ Swept(row) = row
           \/ /\ row.status = "claimed" /\ Newer(row)
              /\ Swept(row).status = "pending" /\ Swept(row).attempt = 0
           \/ row.status = "claimed" /\ ~ Newer(row) /\ Swept(row).status = "dead_letter"
<1>1. Requeued(row).status = "pending" /\ Requeued(row).attempt = 0
  BY RequeuedIsFreed
<1>2. Closed(row, "dead_letter").status = "dead_letter"
  BY DEF Closed, Unclaimed, Jobs
<1> QED BY <1>1, <1>2 DEF Swept

LEMMA FinishedStatus ==
    ASSUME NEW row \in Jobs, NEW disposition \in Dispositions
    PROVE  LET new == Finished(row, disposition) IN
           \/ new.status = "pending" /\ new.attempt = 0
           \/ new.status = "retry" /\ new.attempt < MaxAttempts
           \/ new.status = "succeeded" /\ ~ Newer(row)
           \/ new.status = "dead_letter" /\ (~ Newer(row) \/ disposition = "terminal")
           \/ new.status = "cancelled" /\ disposition = "cancelled"
<1>1. "retry" \in OpenStates /\ {"succeeded", "cancelled", "dead_letter"} \subseteq ClosedStates
  BY DEF OpenStates, ClosedStates
<1>2. row.attempt < MaxAttempts \/ row.attempt >= MaxAttempts
  BY QueueDomains DEF Jobs
<1>3. Requeued(row).status = "pending" /\ Requeued(row).attempt = 0
  BY RequeuedIsFreed
<1>4. LET new == [Unclaimed(row) EXCEPT !.status = "retry", !.due = FALSE] IN
      new.status = "retry" /\ new.attempt = row.attempt
  BY <1>1, MovedIsFreed
<1>5. \A s \in ClosedStates : Closed(row, s).status = s
  BY MovedIsFreed DEF Closed
<1> QED BY <1>1, <1>2, <1>3, <1>4, <1>5 DEF Finished, Dispositions

LEMMA ClaimedStatus ==
    ASSUME NEW row \in Jobs, NEW k \in Tokens
    PROVE  ClaimedRow(row, k).status = "claimed"
BY DEF ClaimedRow, Jobs

LEMMA AskedFirstStatus ==
    ASSUME NEW linked \in BOOLEAN
    PROVE  AskedFirst(linked).status = "pending" /\ AskedFirst(linked).attempt = 0
BY DEF AskedFirst, NoJob

-----------------------------------------------------------------------------
(* No job is stuck. *)

LEMMA ClaimableStep ==
    OpenJobsAreClaimable /\ TypeOK /\ Busy /\ [Next]_vars => OpenJobsAreClaimable'
<1> SUFFICES ASSUME OpenJobsAreClaimable, TypeOK, Busy, [Next]_vars, NEW f \in Fans,
                    job'[f].status \in {"pending", "retry"}
             PROVE  job'[f].attempt < MaxAttempts
  BY DEF OpenJobsAreClaimable
<1>0. /\ job[f] \in Jobs
      /\ job[f].status \in {"pending", "retry"} => job[f].attempt < MaxAttempts
  BY DEF TypeOK, OpenJobsAreClaimable
<1>1. 0 < MaxAttempts
  BY QueueDomains
<1>2. CASE job'[f].status = job[f].status /\ job'[f].attempt = job[f].attempt
  BY <1>0, <1>2
<1>3. CASE RowIsServed(f)
  <2>1. CASE job'[f] = NoJob
    BY <2>1 DEF NoJob
  <2>2. CASE job'[f] = Swept(job[f])
    BY <1>0, <1>1, <1>2, <2>2, SweptStatus
  <2>3. ASSUME NEW k \in Tokens, job'[f] = ClaimedRow(Swept(job[f]), k)
        PROVE  FALSE
    BY <1>0, <2>3, SweptIs, ClaimedStatus
  <2>4. ASSUME NEW w \in Workers, worker[w].answer \in Dispositions,
               job'[f] = Finished(job[f], worker[w].answer)
        PROVE  job'[f].attempt < MaxAttempts
    BY <1>0, <1>1, <2>4, FinishedStatus
  <2>5. CASE job'[f] = [job[f] EXCEPT !.live = FALSE] \/ job'[f] = [job[f] EXCEPT !.due = TRUE]
    BY <1>0, <1>2, <2>5 DEF Jobs
  <2> QED BY <1>2, <1>3, <2>1, <2>2, <2>3, <2>4, <2>5 DEF RowIsServed
<1>4. ASSUME NEW linked \in BOOLEAN, IsOpen(f), job'[f] = AskedAgain(job[f], linked)
      PROVE  job'[f].attempt < MaxAttempts
  <2>1. /\ job'[f].attempt = job[f].attempt
        /\ job'[f].status = "claimed" <=> job[f].status = "claimed"
    BY <1>0, <1>4, AskedAgainIs DEF IsOpen
  <2>2. job[f].status \in {"pending", "retry"}
    BY <1>4, <2>1 DEF IsOpen, OpenStates
  <2> QED BY <1>0, <2>1, <2>2
<1>5. ASSUME NEW linked \in BOOLEAN, job'[f] = AskedFirst(linked)
      PROVE  job'[f].attempt < MaxAttempts
  BY <1>1, <1>5, AskedFirstStatus
<1> QED BY <1>2, <1>3, <1>4, <1>5, RowKinds

\* An open job that no worker holds has attempts left, so that some worker claims it
\* in the end: the claim, the sweep and the finish never leave one used up.
THEOREM NoJobIsStuck == Spec => []OpenJobsAreClaimable
<1>1. Init => OpenJobsAreClaimable
  BY DEF Init, OpenJobsAreClaimable, NoJob
<1>2. IInv => TypeOK /\ Busy
  BY DEF IInv
<1> QED BY <1>1, <1>2, ClaimableStep, Invariance, PTL DEF Spec

-----------------------------------------------------------------------------
(* Only a refusal closes a job that was asked for again. *)

\* A timeout, a lost answer, a dead worker or a lease that ran out never closes a job
\* that was asked for after its claim: only the route's refusal does.
THEOREM FailuresKeepFreshRequests == Spec => FreshRequestsSurviveFailures
<1>1. ASSUME TypeOK, Busy, [Next]_vars, NEW f \in Fans,
             job[f].status = "claimed", Newer(job[f]), job'[f].status \in ClosedStates
      PROVE  \E w \in Workers : /\ worker[w].token = job[f].token
                                /\ worker[w].answer \in {"terminal", "cancelled"}
  <2> USE <1>1
  <2>0. job[f] \in Jobs /\ job'[f].status \notin OpenStates /\ job'[f].status # "none"
    BY DEF TypeOK, OpenStates, ClosedStates
  <2>1. job'[f].status # job[f].status
    BY <2>0 DEF OpenStates
  <2>2. ASSUME NEW linked \in BOOLEAN,
               job'[f] = IF IsOpen(f) THEN AskedAgain(job[f], linked) ELSE AskedFirst(linked)
        PROVE  FALSE
    <3>1. IsOpen(f) /\ job[f].status \in OpenStates
      BY DEF IsOpen, OpenStates
    <3> QED BY <2>0, <2>2, <3>1, AskedAgainIs
  <2>3. job'[f] # NoJob
    BY <2>0 DEF NoJob
  <2>4. job'[f] # Swept(job[f])
    BY <2>0, <2>1, SweptStatus DEF OpenStates
  <2>5. ASSUME NEW k \in Tokens PROVE job'[f] # ClaimedRow(Swept(job[f]), k)
    BY <2>0, SweptIs, ClaimedStatus DEF OpenStates
  <2>6. /\ job'[f] # [job[f] EXCEPT !.live = FALSE]
        /\ job'[f] # [job[f] EXCEPT !.due = TRUE]
    BY <2>0, <2>1 DEF Jobs
  <2>7. PICK w \in Workers : /\ worker[w].token = job[f].token
                             /\ worker[w].answer \in Dispositions
                             /\ job'[f] = Finished(job[f], worker[w].answer)
    BY <2>1, <2>2, <2>3, <2>4, <2>5, <2>6, RowKinds DEF RowIsServed
  <2>8. worker[w].answer \in {"terminal", "cancelled"}
    BY <2>0, <2>7, FinishedStatus DEF OpenStates
  <2> QED BY <2>7, <2>8
<1>2. IInv /\ [Next]_vars
      => [\A f \in Fans :
            /\ job[f].status = "claimed" /\ Newer(job[f])
            /\ job'[f].status \in ClosedStates
            => \E w \in Workers : /\ worker[w].token = job[f].token
                                  /\ worker[w].answer \in {"terminal", "cancelled"}]_vars
  BY <1>1 DEF IInv
<1> QED BY <1>2, Invariance, PTL DEF Spec, FreshRequestsSurviveFailures

-----------------------------------------------------------------------------
(* The queue implements CatchupRequests. *)

\* The state that CatchupRequests gives a row.
Shown(row) ==
    IF row.status \in OpenStates THEN "open"
    ELSE IF row.status = "succeeded" THEN "answered"
    ELSE IF row.status = "none" THEN "quiet"
    ELSE "abandoned"

RequestStep(f) ==
    \/ Requests!Ask(f) \/ Requests!Serve(f) \/ Requests!Answer(f)
    \/ Requests!GiveUp(f) \/ Requests!Forget(f)

\* A step of RequestsNext, with the states of the row written out.
LEMMA ShownSteps ==
    ASSUME NEW f \in Fans
    PROVE  /\ asked'[f] = asked[f] + 1 /\ served'[f] = served[f] /\ Shown(job'[f]) = "open"
              => RequestStep(f)
           /\ /\ served'[f] \in served[f]..asked[f] /\ asked'[f] = asked[f]
              /\ Shown(job'[f]) = Shown(job[f])
              => RequestStep(f)
           /\ /\ asked'[f] = asked[f] /\ served'[f] = served[f]
              /\ \/ /\ Shown(job[f]) = "open" /\ Shown(job'[f]) = "answered"
                    /\ served[f] = asked[f]
                 \/ Shown(job[f]) = "open" /\ Shown(job'[f]) = "abandoned"
                 \/ Shown(job'[f]) = "quiet"
              => RequestStep(f)
BY DEF RequestStep, Requests!Ask, Requests!Serve, Requests!Answer, Requests!GiveUp,
       Requests!Forget, Shown, IsOpen

LEMMA RequestsStep ==
    ASSUME IInv, IInv', [Next]_vars, NEW f \in Fans
    PROVE  RequestStep(f)
<1>0. /\ job[f] \in Jobs
      /\ asked[f] \in Nat /\ served[f] \in Nat /\ served'[f] \in Nat
      /\ served[f] <= asked[f] /\ served'[f] <= asked'[f]
  BY QueueDomains DEF IInv, TypeOK, Covered
<1>1. TypeOK /\ Busy
  BY DEF IInv
<1>2. CASE job'[f] = job[f] /\ asked'[f] = asked[f]
  <2>1. served[f] <= served'[f]
    BY <1>0, <1>1, CountsGrow
  <2> QED BY <1>0, <1>2, <2>1, ShownSteps
<1>3. CASE RowIsServed(f) /\ UNCHANGED <<asked, served>>
  <2>0. served'[f] \in served[f]..asked[f] /\ asked'[f] = asked[f] /\ served'[f] = served[f]
    BY <1>0, <1>3
  <2>1. CASE job'[f].status = job[f].status
    BY <2>0, <2>1, ShownSteps DEF Shown
  <2>2. CASE job'[f] = NoJob
    <3>1. Shown(job'[f]) = "quiet"
      BY <2>2 DEF Shown, NoJob, OpenStates
    <3> QED BY <2>0, <3>1, ShownSteps
  <2>3. CASE job[f].status \in OpenStates /\ job'[f].status \in OpenStates
    BY <2>0, <2>3, ShownSteps DEF Shown
  <2>4. CASE job[f].status \in OpenStates /\ job'[f].status \in {"dead_letter", "cancelled"}
    <3>1. Shown(job[f]) = "open" /\ Shown(job'[f]) = "abandoned"
      BY <2>4 DEF Shown, OpenStates
    <3> QED BY <2>0, <3>1, ShownSteps
  <2>5. CASE job[f].status \in OpenStates /\ job'[f].status = "succeeded"
    <3>1. Shown(job[f]) = "open" /\ Shown(job'[f]) = "answered"
      BY <2>5 DEF Shown, OpenStates
    <3>2. served'[f] = asked'[f]
      BY <2>5 DEF IInv, NoRequestLost
    <3> QED BY <2>0, <3>1, <3>2, ShownSteps
  <2>6. CASE job'[f] = Swept(job[f])
    <3>1. \/ job'[f] = job[f]
          \/ job[f].status = "claimed" /\ job'[f].status \in {"pending", "dead_letter"}
      BY <1>0, <2>6, SweptStatus
    <3> QED BY <2>1, <2>3, <2>4, <3>1 DEF OpenStates
  <2>7. ASSUME NEW k \in Tokens, Claimable(Swept(job[f])),
               job'[f] = ClaimedRow(Swept(job[f]), k)
        PROVE  RequestStep(f)
    <3>1. job'[f].status \in OpenStates
      BY <1>0, <2>7, SweptIs, ClaimedStatus DEF OpenStates
    <3>2. job[f].status \in OpenStates
      BY <1>0, <2>7, SweptStatus DEF Claimable, OpenStates
    <3> QED BY <2>3, <3>1, <3>2
  <2>8. ASSUME NEW w \in Workers, job[f].status = "claimed",
               worker[w].answer \in Dispositions,
               job'[f] = Finished(job[f], worker[w].answer)
        PROVE  RequestStep(f)
    <3>1. job'[f].status \in {"pending", "retry", "succeeded", "dead_letter", "cancelled"}
      BY <1>0, <2>8, FinishedStatus
    <3> QED BY <2>3, <2>4, <2>5, <2>8, <3>1 DEF OpenStates
  <2>9. CASE job'[f] = [job[f] EXCEPT !.live = FALSE] \/ job'[f] = [job[f] EXCEPT !.due = TRUE]
    BY <1>0, <2>1, <2>9 DEF Jobs
  <2> QED BY <1>3, <2>1, <2>2, <2>6, <2>7, <2>8, <2>9 DEF RowIsServed
<1>4. ASSUME NEW linked \in BOOLEAN,
             job'[f] = IF IsOpen(f) THEN AskedAgain(job[f], linked) ELSE AskedFirst(linked),
             asked'[f] = asked[f] + 1, UNCHANGED served
      PROVE  RequestStep(f)
  <2>1. job'[f].status \in OpenStates
    <3>1. CASE IsOpen(f)
      BY <1>0, <1>4, <3>1, AskedAgainIs DEF IsOpen
    <3>2. CASE ~ IsOpen(f)
      BY <1>4, <3>2, AskedFirstStatus DEF OpenStates
    <3> QED BY <3>1, <3>2
  <2>2. Shown(job'[f]) = "open"
    BY <2>1 DEF Shown
  <2> QED BY <1>4, <2>2, ShownSteps
<1> QED BY <1>1, <1>2, <1>3, <1>4, RowKinds

\* Rows, claims, leases, attempts and generations implement what a webhook relies on:
\* requests are merged and answered together by a sync that covers them, or given up.
THEOREM QueueAnswersRequests == Spec => ImplementsRequests
<1>1. Init => Requests!Quiet
  BY DEF Init, Requests!Quiet, IsOpen, OpenStates, NoJob
<1>2. IInv /\ IInv' /\ [Next]_vars => Requests!RequestsNext
  BY RequestsStep DEF Requests!RequestsNext, RequestStep
<1> QED BY <1>1, <1>2, Invariance, PTL
    DEF Spec, ImplementsRequests, Requests!RequestsSpec
=============================================================================
