---------------------------- MODULE DemoSessions ----------------------------
(***************************************************************************)
(* The public temporary demo: POST /api/demo/start reserves a row of       *)
(* demo_start_sessions, creates an Auth user and a workspace, records each *)
(* in the row, and activates it; POST /api/demo/cleanup claims what has    *)
(* expired and deletes it.  Database and Auth service are apart: nothing   *)
(* is atomic but one RPC or one PATCH.  A route takes a step per call and  *)
(* may die between any two, calls fail and their answers get lost, at most *)
(* MaxFaults times.  Every deadline comes, some day; a run is one day, so  *)
(* that the daily quotas count every row.                                  *)
(***************************************************************************)
EXTENDS Naturals, FiniteSets

CONSTANTS
    Starts,        \* requests to the start route that get as far as the quotas
    Cleaners,      \* runs of the cleanup route that may overlap
    Addresses, Browsers,
    AddressOf, BrowserOf,
    MaxPerWindow,  \* 1 in the code: starts per address in ten minutes
    MaxPerAddressDay, MaxPerBrowserDay, MaxActive,
    MaxUsers,      \* bound: starts that get past their reservation
    MaxFaults      \* bound: deaths, failed calls, lost answers and administrators' hands

ASSUME DemoDomains ==
    /\ AddressOf \in [Starts -> Addresses] /\ BrowserOf \in [Starts -> Browsers]
    /\ IsFiniteSet(Starts)
    /\ {MaxPerWindow, MaxPerAddressDay, MaxPerBrowserDay, MaxActive} \subseteq Nat \ {0}
    /\ {MaxUsers, MaxFaults} \subseteq Nat

VARIABLES
    row,      \* the demo_start_sessions row of each start
    user,     \* the Auth user of each start
    place,    \* the workspace of each start
    route,    \* where the start route is
    cleaner,  \* what each run of the cleanup route has claimed, and does
    faults

vars == <<row, user, place, route, cleaner, faults>>

LiveStates == {"reserved", "active"}
RowStates  == LiveStates \cup {"none", "expired", "failed", "cleanup_pending",
                               "cleanup_failed", "deleted"}

\* due: expires_at <= now.  stale: the claim is 15 minutes old.  young: created
\* within ten minutes.  A blocked row counts nowhere and is left out.
Rows == [status: RowStates, user: BOOLEAN, place: BOOLEAN, due: BOOLEAN,
         stale: BOOLEAN, young: BOOLEAN]

NoRow == [status |-> "none", user |-> FALSE, place |-> FALSE, due |-> FALSE,
          stale |-> FALSE, young |-> FALSE]

Reservation == [NoRow EXCEPT !.status = "reserved", !.young = TRUE]

Resources == {"none", "alive", "gone"}

\* administered: an administrator wrote the workspace, which then has not the billing
\* status or not the flag of a temporary demo.
Standing == {"alive", "administered"}
Places   == Standing \cup {"none", "gone"}

Working == {"counted", "holding", "created", "recorded", "built", "half_built", "bound",
            "refused", "drop_user", "drop_owner", "drop_demo", "undone", "queue_user",
            "queue_demo"}

\* served: the browser got its demo, and its owner may open the dashboard, which is
\* about to write the demo's values anew, or has found it expired and deletes it.
HandedOut == {"served", "opened", "deleting", "deleting_user"}

\* answered: the browser got an error.  turned_away: because Auth answered with one, or
\* without an id.  reported: the log says demo_cleanup_queue_failed of a user that may
\* have no name yet.  lost: the route died or threw.  stray: and had no record of a user
\* that Auth may have created.
RouteStates ==
    Working \cup HandedOut \cup {"idle", "answered", "turned_away", "reported", "lost", "stray"}

Candidates == [start: Starts, user: BOOLEAN, place: BOOLEAN]
Deletions  == [start: Starts, user: BOOLEAN, step: {"place", "user", "succeeded", "failed"}]

NoDeletion == [step |-> "none"]
Resting    == [todo |-> {}, doing |-> NoDeletion]

-----------------------------------------------------------------------------
\* What a failing call costs.
Fault == faults < MaxFaults /\ faults' = faults + 1

\* A call is refused for a reason, or it fails.
FaultUnless(refused) == IF refused THEN UNCHANGED faults ELSE Fault

\* A mutant keeps the names of what was deleted.
ForgetsNothing(s, r, losesUser, losesPlace) == r

\* on delete set null, for whichever of the two the row named.
Forgets(s, r, losesUser, losesPlace) ==
    [r EXCEPT ![s].user  = @ /\ ~losesUser, ![s].place = @ /\ ~losesPlace]

\* A deleted workspace.
PlaceGoes(s) ==
    /\ place' = [place EXCEPT ![s] = IF @ \in Standing THEN "gone" ELSE @]
    /\ row' = Forgets(s, row, FALSE, TRUE)
    /\ UNCHANGED user

\* A deleted Auth user takes its workspace along: owner_user_id cascades.
UserGoes(s) ==
    /\ user' = [user EXCEPT ![s] = "gone"]
    /\ place' = [place EXCEPT ![s] = IF @ \in Standing THEN "gone" ELSE @]
    /\ row' = Forgets(s, row, TRUE, TRUE)

NothingGoes == UNCHANGED <<row, user, place>>

Moves(s, to) == route' = [route EXCEPT ![s] = to]

\* A PATCH or an RPC that changes the row of s.
Writes(s, new) == row' = [row EXCEPT ![s] = new]

-----------------------------------------------------------------------------
\* claim_public_demo_start releases abandoned reservations.
Released(r) == IF r.status = "reserved" /\ r.due THEN [r EXCEPT !.status = "expired"] ELSE r

\* Rows that the counts look at: all that were ever inserted, whatever became of them.
Counted == { s \in Starts : row[s].status # "none" }

SameAddress(s, t) == AddressOf[s] = AddressOf[t]

RunningDemos == { s \in Starts : row[s].status \in LiveStates /\ ~row[s].due }

HasDemo(s) ==
    \E t \in RunningDemos : row[t].status = "active" /\ BrowserOf[t] = BrowserOf[s]

WithinQuotas(s) ==
    /\ Cardinality({ t \in Counted : SameAddress(s, t) /\ row[t].young }) < MaxPerWindow
    /\ Cardinality({ t \in Counted : SameAddress(s, t) }) < MaxPerAddressDay
    /\ Cardinality({ t \in Counted : BrowserOf[t] = BrowserOf[s] }) < MaxPerBrowserDay
    /\ Cardinality(RunningDemos) < MaxActive

\* The counts of claim_public_demo_start and what they decide.  They take no lock:
\* its insert is another step.
Count(s) ==
    /\ route[s] = "idle"
    /\ row' = [t \in Starts |-> Released(row[t])]
    /\ Moves(s, IF ~HasDemo(s) /\ WithinQuotas(s) THEN "counted" ELSE "answered")
    /\ UNCHANGED <<user, place, cleaner, faults>>

Reserve(s) ==
    /\ route[s] = "counted"
    /\ Writes(s, Reservation)
    /\ \/ Moves(s, "holding") /\ UNCHANGED faults
       \/ Moves(s, "answered") /\ Fault
    /\ UNCHANGED <<user, place, cleaner>>

-----------------------------------------------------------------------------
\* An error, an answer without an id, or no answer says nothing of whether the user
\* was created.  Nobody catches a call that throws.
CreateUser(s) ==
    /\ route[s] = "holding" /\ Cardinality({ t \in Starts : user[t] # "none" }) < MaxUsers
    /\ \/ user' = [user EXCEPT ![s] = "alive"] /\ Moves(s, "created") /\ UNCHANGED faults
       \/ /\ user' = [user EXCEPT ![s] = "alive"] \/ UNCHANGED user
          /\ Moves(s, "refused") \/ Moves(s, "stray")
          /\ Fault
    /\ UNCHANGED <<row, place, cleaner>>

\* recordPublicDemoStartResources tries twice; it says no if the row is no more
\* reserved, or if no answer comes, whatever was written.
RecordUser(s) ==
    /\ route[s] = "created"
    /\ \/ /\ row[s].status = "reserved"
          /\ Writes(s, [row[s] EXCEPT !.user = TRUE])
          /\ \/ Moves(s, "recorded") /\ UNCHANGED faults
             \/ Moves(s, "drop_user") /\ Fault
       \/ /\ Moves(s, "drop_user")
          /\ UNCHANGED row
          /\ FaultUnless(row[s].status # "reserved")
    /\ UNCHANGED <<user, place, cleaner>>

\* createTemporaryDemoWorkspace: the insert needs its owner; later steps of it fail
\* with the workspace in hand, the insert itself without.
CreateWorkspace(s) ==
    /\ route[s] = "recorded"
    /\ \/ /\ user[s] = "alive"
          /\ place' = [place EXCEPT ![s] = "alive"]
          /\ \/ Moves(s, "built") /\ UNCHANGED faults
             \/ (Moves(s, "half_built") \/ Moves(s, "drop_owner")) /\ Fault
       \/ /\ Moves(s, "drop_owner")
          /\ UNCHANGED place
          /\ FaultUnless(user[s] # "alive")
    /\ UNCHANGED <<row, user, cleaner>>

MayNameWorkspace(s) == row[s].status = "reserved" /\ row[s].user

RecordWorkspace(s) ==
    /\ route[s] \in {"built", "half_built"}
    /\ \/ /\ MayNameWorkspace(s)
          /\ Writes(s, [row[s] EXCEPT !.place = TRUE])
          /\ \/ Moves(s, IF route[s] = "built" THEN "bound" ELSE "drop_demo") /\ UNCHANGED faults
             \/ Moves(s, "drop_demo") /\ Fault
       \/ /\ Moves(s, "drop_demo")
          /\ UNCHANGED row
          /\ FaultUnless(~MayNameWorkspace(s))
    /\ UNCHANGED <<user, place, cleaner>>

\* A mutant activates without a look at the status.
ActivatesWhatever(s) == TRUE

\* activate_public_demo_start asks for the status alone, not for the time.
Activates(s) == row[s].status = "reserved"

\* Signing in, then activate_public_demo_start.
Activate(s) ==
    /\ route[s] = "bound"
    /\ \/ /\ Activates(s)
          /\ Writes(s, [row[s] EXCEPT !.status = "active", !.user = TRUE, !.place = TRUE,
                                      !.due = FALSE])
          /\ \/ Moves(s, "served") /\ UNCHANGED faults
             \/ Moves(s, "drop_demo") /\ Fault
       \/ /\ Moves(s, "drop_demo")
          /\ UNCHANGED row
          /\ FaultUnless(~Activates(s))
    /\ UNCHANGED <<user, place, cleaner>>

-----------------------------------------------------------------------------
\* deleteCreatedDemoAuthUser, or cleanupCreatedDemo: the workspace, then the user.
UndoneBy == [at \in {"drop_user", "drop_owner", "drop_demo"} |->
                IF at = "drop_user" THEN "queue_user" ELSE "queue_demo"]

Undo(s) ==
    /\ route[s] \in DOMAIN UndoneBy
    /\ \/ UserGoes(s) /\ Moves(s, "undone") /\ UNCHANGED faults
       \/ /\ Moves(s, UndoneBy[route[s]]) /\ Fault
          /\ NothingGoes \/ UserGoes(s) \/ (route[s] = "drop_demo" /\ PlaceGoes(s))
    /\ UNCHANGED <<cleaner>>

\* fail_public_demo_start, as the later migration has it.
Failed(r) ==
    IF r.status \notin LiveStates THEN r
    ELSE IF r.user \/ r.place
         THEN [r EXCEPT !.status = "cleanup_failed", !.due = TRUE]
         ELSE [r EXCEPT !.status = "failed"]

\* After a rollback, or with no user known that could be rolled back.
Fail(s) ==
    /\ route[s] \in {"undone", "refused"}
    /\ Moves(s, IF route[s] = "undone" THEN "answered" ELSE "turned_away")
    /\ \/ Writes(s, Failed(row[s])) /\ UNCHANGED faults
       \/ UNCHANGED row /\ Fault
    /\ UNCHANGED <<user, place, cleaner>>

QueueStates == LiveStates \cup {"failed", "cleanup_failed"}

\* A mutant forgets to name a user that was never recorded.
QueuedNameless(s) == [row[s] EXCEPT !.status = "cleanup_failed", !.due = TRUE]

\* The PATCH of queuePublicDemoCleanup; it names the user if that was never recorded.
Queued(s) ==
    [row[s] EXCEPT !.status = "cleanup_failed", !.due = TRUE,
                   !.user = @ \/ route[s] = "queue_user"]

\* A user that is gone cannot be named: the foreign key refuses the PATCH.
MayQueue(s) ==
    /\ row[s].status \in QueueStates
    /\ route[s] = "queue_user" => user[s] = "alive"

\* The PATCH changed no row, or its answer was lost.
Unheard(s) == Moves(s, IF route[s] = "queue_user" THEN "reported" ELSE "answered")

\* Nothing follows: how this call may fail costs no fault.
Queue(s) ==
    /\ route[s] \in {"queue_user", "queue_demo"}
    /\ \/ /\ MayQueue(s)
          /\ Writes(s, Queued(s))
          /\ Moves(s, "answered") \/ Unheard(s)
       \/ UNCHANGED row /\ Unheard(s)
    /\ UNCHANGED <<user, place, cleaner, faults>>

\* Where the route is when a user may exist that was never recorded.
Unrecorded == {"created", "refused", "drop_user", "queue_user"}

\* The process dies, or a call without a catch throws.
Die(s) ==
    /\ route[s] \in Working
    /\ Moves(s, IF route[s] \in Unrecorded THEN "stray" ELSE "lost") /\ Fault
    /\ UNCHANGED <<row, user, place, cleaner>>

-----------------------------------------------------------------------------
\* The start's ten minutes are over: a reservation expires with them.
WindowEnds(s) ==
    /\ row[s].young
    /\ Writes(s, [row[s] EXCEPT !.young = FALSE,
                                !.due = @ \/ row[s].status = "reserved"])
    /\ UNCHANGED <<user, place, route, cleaner, faults>>

\* The hour of an active demo is over.
DemoEnds(s) ==
    /\ row[s].status = "active" /\ ~row[s].due /\ ~row[s].young
    /\ Writes(s, [row[s] EXCEPT !.due = TRUE])
    /\ UNCHANGED <<user, place, route, cleaner, faults>>

LeaseAges(s) ==
    /\ row[s].status = "cleanup_pending" /\ ~row[s].stale /\ ~row[s].young
    /\ Writes(s, [row[s] EXCEPT !.stale = TRUE])
    /\ UNCHANGED <<user, place, route, cleaner, faults>>

\* The owner opens the dashboard: it reads a workspace that is a temporary demo's and
\* the row that names both, and deletes an expired demo without a look at the cleanup.
OwnerOpens(s) ==
    /\ route[s] = "served"
    /\ place[s] = "alive" /\ row[s].status = "active" /\ row[s].user /\ row[s].place
    /\ Moves(s, IF row[s].due THEN "deleting" ELSE "opened")
    /\ UNCHANGED <<row, user, place, cleaner, faults>>

\* normalizeTemporaryDemoWorkspace writes the values of a demo over what is there by now.
OwnerNormalizes(s) ==
    /\ route[s] = "opened"
    /\ place' = [place EXCEPT ![s] = IF @ = "administered" THEN "alive" ELSE @]
    /\ Moves(s, "served")
    /\ UNCHANGED <<row, user, cleaner, faults>>

\* deleteExpiredTemporaryDemo, of the workspace as it was read: its rows, then the user.
OwnerDeletes(s) ==
    /\ \/ route[s] = "deleting" /\ PlaceGoes(s) /\ Moves(s, "deleting_user")
       \/ route[s] = "deleting_user" /\ UserGoes(s) /\ Moves(s, "served")
    /\ UNCHANGED <<cleaner, faults>>

\* A deletion fails, or the browser goes away.
OwnerLeaves(s) ==
    /\ route[s] \in HandedOut \ {"served"}
    /\ Moves(s, "served")
    /\ UNCHANGED <<row, user, place, cleaner, faults>>

\* An administrator suspends the workspace, marks it as paid or makes it an internal test.
Administer(s) ==
    /\ place[s] = "alive"
    /\ place' = [place EXCEPT ![s] = "administered"]
    /\ Fault
    /\ UNCHANGED <<row, user, route, cleaner>>

-----------------------------------------------------------------------------
\* A mutant is the earlier migration's: a claim is never taken again.
ClaimableOnce(r) ==
    \/ r.status \in LiveStates \cup {"expired", "cleanup_failed"} /\ r.due
    \/ r.status = "failed" /\ (r.user \/ r.place) /\ r.due

\* claim_expired_demo_cleanup, as the later migration has it.
Claimable(r) ==
    \/ r.status \in LiveStates \cup {"expired", "cleanup_failed"} /\ r.due
    \/ r.status = "failed" /\ (r.user \/ r.place) /\ r.due
    \/ r.status = "cleanup_pending" /\ r.stale

Claimed(r) == [r EXCEPT !.status = "cleanup_pending", !.stale = FALSE]

\* The batch is larger than what there is to claim.
Sweep(c) ==
    LET batch == { s \in Starts : Claimable(row[s]) }
    IN  /\ cleaner[c] = Resting /\ batch # {}
        /\ row' = [s \in Starts |-> IF s \in batch THEN Claimed(row[s]) ELSE row[s]]
        /\ cleaner' = [cleaner EXCEPT ![c].todo =
                          { [start |-> s, user |-> row[s].user, place |-> row[s].place] :
                            s \in batch }]
        /\ UNCHANGED <<user, place, route, faults>>

\* What there is to delete of a candidate: nothing is a success, and a workspace that does
\* not look like a demo's any more is refused, with its user.
FirstStep(candidate) ==
    LET s == candidate.start
    IN  IF candidate.place /\ place[s] = "administered" THEN "failed"
        ELSE IF candidate.place /\ place[s] = "alive" THEN "place"
        ELSE IF candidate.user /\ user[s] = "alive" THEN "user" ELSE "succeeded"

LookUp(c) ==
    /\ cleaner[c].doing = NoDeletion
    /\ \E candidate \in cleaner[c].todo :
         LET s == candidate.start
             found == [start |-> s, user |-> candidate.user /\ user[s] = "alive",
                       step |-> FirstStep(candidate)]
         IN  \/ /\ cleaner' = [cleaner EXCEPT ![c] = [todo |-> @.todo \ {candidate}, doing |-> found]]
                /\ UNCHANGED faults
             \/ /\ candidate.user \/ candidate.place
                /\ cleaner' = [cleaner EXCEPT ![c] = [todo |-> @.todo \ {candidate},
                                                      doing |-> [found EXCEPT !.step = "failed"]]]
                /\ Fault
    /\ UNCHANGED <<row, user, place, route>>

Advance(c, step) == cleaner' = [cleaner EXCEPT ![c].doing.step = step]

\* deleteServerVerifiedTemporaryDemo; the rows of the workspace count as part of it.
Delete(c) ==
    LET doing == cleaner[c].doing
    IN  /\ doing.step \in {"place", "user"}
        /\ \/ /\ IF doing.step = "place" THEN PlaceGoes(doing.start) ELSE UserGoes(doing.start)
              /\ Advance(c, IF doing.step = "place" /\ doing.user THEN "user" ELSE "succeeded")
              /\ UNCHANGED faults
           \/ /\ NothingGoes \/ IF doing.step = "place" THEN PlaceGoes(doing.start)
                                                        ELSE UserGoes(doing.start)
              /\ Advance(c, "failed")
              /\ Fault
        /\ UNCHANGED <<route>>

\* complete_demo_cleanup asks for the status alone: any run may complete any claim.
Completed(r, step) ==
    IF r.status # "cleanup_pending" THEN r
    ELSE [r EXCEPT !.status = IF step = "succeeded" THEN "deleted" ELSE "cleanup_failed",
                   !.stale = FALSE]

Complete(c) ==
    LET doing == cleaner[c].doing
    IN  /\ doing.step \in {"succeeded", "failed"}
        /\ \/ Writes(doing.start, Completed(row[doing.start], doing.step)) /\ UNCHANGED faults
           \/ UNCHANGED row /\ Fault
        /\ cleaner' = [cleaner EXCEPT ![c].doing = NoDeletion]
        /\ UNCHANGED <<user, place, route>>

\* The whole batch stays claimed.
CleanerDies(c) ==
    /\ cleaner[c] # Resting
    /\ cleaner' = [cleaner EXCEPT ![c] = Resting]
    /\ Fault
    /\ UNCHANGED <<row, user, place, route>>

-----------------------------------------------------------------------------
Init ==
    /\ row = [s \in Starts |-> NoRow]
    /\ user = [s \in Starts |-> "none"]
    /\ place = [s \in Starts |-> "none"]
    /\ route = [s \in Starts |-> "idle"]
    /\ cleaner = [c \in Cleaners |-> Resting]
    /\ faults = 0

RouteStep(s) ==
    \/ Count(s) \/ Reserve(s) \/ CreateUser(s) \/ RecordUser(s) \/ CreateWorkspace(s)
    \/ RecordWorkspace(s) \/ Activate(s) \/ Undo(s) \/ Fail(s) \/ Queue(s) \/ Die(s)

TimePasses(s) == WindowEnds(s) \/ DemoEnds(s) \/ LeaseAges(s)

OwnerStep(s) == OwnerOpens(s) \/ OwnerNormalizes(s) \/ OwnerDeletes(s) \/ OwnerLeaves(s)

CleanerStep(c) == Sweep(c) \/ LookUp(c) \/ Delete(c) \/ Complete(c) \/ CleanerDies(c)

Next ==
    \/ \E s \in Starts : RouteStep(s) \/ TimePasses(s) \/ OwnerStep(s) \/ Administer(s)
    \/ \E c \in Cleaners : CleanerStep(c)

Spec == Init /\ [][Next]_vars

\* Time passes and the timer's runs of the cleanup go on; nothing is asked of the
\* start route.
FairSpec ==
    /\ Spec
    /\ \A s \in Starts : WF_vars(TimePasses(s))
    /\ \A c \in Cleaners : WF_vars(Sweep(c) \/ LookUp(c) \/ Delete(c) \/ Complete(c))

-----------------------------------------------------------------------------
\* The shape of the state, with what the foreign keys keep: a row names what exists, and
\* a workspace has its owner.
TypeOK ==
    /\ row \in [Starts -> Rows]
    /\ user \in [Starts -> Resources] /\ place \in [Starts -> Places]
    /\ route \in [Starts -> RouteStates]
    /\ cleaner \in [Cleaners -> [todo: SUBSET Candidates,
                                 doing: Deletions \cup {NoDeletion}]]
    /\ faults \in 0..MaxFaults
    /\ \A s \in Starts :
         /\ row[s].user => user[s] = "alive"
         /\ row[s].place => place[s] \in Standing
         /\ place[s] \in Standing => user[s] = "alive"

\* A demo that was handed out is whole and active until its hour is over: no cleanup that
\* claimed it while its start was slow, and none that lost its lease, takes it away.
DemoLastsItsHour ==
    \A s \in Starts :
        route[s] \in HandedOut /\ ~row[s].due =>
            /\ row[s].status = "active" /\ row[s].user /\ row[s].place
            /\ user[s] = "alive" /\ place[s] \in Standing

\* Where a start is whose user may have no name: on its way to the record or from it, or
\* ended without one.  It ends so in three cases: the route died, or Auth's answer was
\* lost, before the record was made; Auth answered with an error or without an id, though
\* it had created the user; or the cleanup of a user whose record failed could not be
\* queued, as the log says.
Nameless == Unrecorded \cup {"stray", "turned_away", "reported"}

\* A start that stops or fails anywhere leaves no user that the cleanup cannot find, but
\* in the three cases that Nameless tells: a row that names a user waits for the cleanup
\* until the user is gone, and a user without a name is one of those three.
NothingLeftBehind ==
    \A s \in Starts :
        user[s] = "alive" =>
            IF row[s].user THEN row[s].status \notin {"none", "failed", "deleted"}
            ELSE route[s] \in Nameless

\* docs/operations/public-demo-protection-runbook.md:87 says that an address starts at most
\* one demo in ten minutes.
OneStartPerWindow ==
    \A s \in Starts :
        Cardinality({ t \in Starts : /\ SameAddress(s, t) /\ row[t].young
                                     /\ route[t] \in HandedOut }) <= MaxPerWindow

\* Every recorded user of a demo is removed some day, wherever its start stopped and
\* whichever runs of the cleanup died or overlapped, unless an administrator wrote its
\* workspace: the cleanup does not touch that any more.
DemosEnd ==
    <>[](\A s \in Starts :
            row[s].user /\ place[s] # "administered" => user[s] # "alive")
=============================================================================
