# FanMind: a verification project

FanMind is a CRM for creators: a Next.js application over Postgres (Supabase),
with service-role SQL functions that hold every decision that must be atomic,
worker scripts run by systemd timers, and webhooks from Stripe, Meta, WhatsApp
and push providers. This directory holds TLA+ models of the parts whose
correctness depends on order, retries, crashes and shared rows; TLC checks the
models on small instances and TLAPS proves theorems about them for every value
of the constants.

## Inventory

Almost all shared state is in Postgres rows. The application and the workers
talk to it through RPCs (`supabase/controlled/*.sql`, `supabase/migrations/*.sql`),
each one transaction behind a row lock or an advisory lock. What can go wrong is
therefore less a race inside one RPC than the order in which RPCs, external calls
and crashes follow each other: a reply is lost after the commit, a worker dies
between the external call and the RPC that records it, a lease runs out while its
holder is still working, an event arrives late or twice.

| component | state | operations | talks to | hard behaviour | what makes it correct |
|---|---|---|---|---|---|
| AI capacity ledger | grants, reservations, allocations, ledger events, policy, entitlement of a workspace | grant, reserve, settle, release, mark indeterminate, reverse, snapshot, policy update | the AI runtime, billing, admin console | concurrent holds, period changes, refunds against held credit, retries | no grant overdrawn; events explain balances; a reservation closes once |
| AI capacity runtime | a coordinator per AI reply: prepared reservation | prepare, settle, release, mark indeterminate | ledger RPCs, OpenAI, admin policy | lost replies, crashes, stale policy revision, duplicate generation key | never call the provider without a hold; a key pays for at most one call |
| Meta catch-up queue | one job row per conversation: state, generation, lease, attempts | enqueue, claim, finish | webhook, the catch-up worker, Meta's API | lease expiry, generations coalescing while a worker runs, retries, dead letters | one valid lease; no generation is lost; attempts are bounded |
| Mobile push delivery | delivery row per event and device: send lease, receipt lease | reserve, transition, reserve receipt | Expo push API, registrations | ambiguous sends, crash after the send, lease expiry, receipts | at most one send unless the provider refused; every delivery ends |
| Stripe billing event ledger | event rows, stream rows, object bindings, receipts, the billing columns of a workspace | apply event, read a snapshot, prepare, reconcile | Stripe webhook and API, operators, admin console | late, duplicated, same-second and conflicting events | the projection never goes back in time; a conflict blocks until reconciled |
| AI tier event ledger | event rows and tier projection | apply, reconcile | Stripe webhook | as above | as above |
| WhatsApp inbound | connection epochs, message claims, stored messages | claim, store, disconnect | Meta webhook | duplicates, disconnect while a message is stored | a message is stored once, never under a closed connection |
| Website chat | conversations, handoff, retention | ingest, hand off, purge | widget | resend, purge during a conversation | a message appears once, purge takes nothing live |
| Backup queue and worker | job rows with leases, backup rows, the worker's place, files | enqueue, claim, build, place, record, verify, fail | systemd timers, the disk, the retention | crash between renames, lost answers, a lease that runs out under its holder | one job at a time; every job ends; a recorded backup exists |
| Backup retention | the directory of pairs | list, decide, remove | the worker's placements | cut off between renames, decides from what earlier runs left | the newest pair, last week and last month survive |
| Account deletion | deletion requests, steps | request, claim, process | storage, auth, Stripe | partial failure and restart | deletion is not undone and finishes |
| Referral billing | attributions, discounts | attribute, apply, revoke | Stripe | repeated events | one discount a referral |
| Shared rate limits | counters per window | consume | every public route | window edges, concurrent requests | a window admits at most its limit |
| Public demo protection | session rows, Auth users, demo workspaces | reserve, create, record, activate, roll back, claim, delete, complete | Auth service, the cleanup timer, the demo's owner | counts without a lock, half a rollback, a slow start against the cleanup, dead and overlapping cleanups | a demo lasts its hour; the cleanup finds what was left behind; every demo is removed |
| Workspace provisioning | workspace, membership | provision | registration | retry, concurrent sign-up | one workspace a user |
| Support centre, CRM access | cases, grants | open, approve, revoke | admins | stale approval | access only while approved |
| Meta webhook actions | received events | receive, act | Meta | duplicates | an event acts once |
| Confirmed chat learning, chat facts | facts, confirmations | confirm, supersede | UI | concurrent confirmation | one current fact |
| UI, mobile app, AI prompts, CI and release scripts | none shared | rendering, formatting, pipelines | - | - | out of the models' scope |

## The AI capacity ledger

`AiCapacityLedger` models one workspace's rows of `ai_capacity_billing_v2.sql` and
the RPCs of `ai_capacity_reserve_settle.sql`. Each RPC takes the workspace's
advisory lock before it reads, and share locks on the policy and entitlement rows,
so each is one action. A call that is rejected and a replay that finds its work
done leave every row alone, so they are the steps that are not enabled.

| in the model | in the code |
|---|---|
| `policy`, `entitlement` | `ai_capacity_admin_policy`, `ai_capacity_workspace_entitlements` |
| `grants` | `ai_capacity_grants`; a grant is a number, its place in (created_at, id) |
| `reservations` | `ai_capacity_reservations`, one per generation key |
| `held`, `spent` | the two amount columns of `ai_capacity_reservation_allocations` |
| `ledger` | `ai_capacity_ledger_events`, totalled per kind, reservation and grant |
| `GrantIncluded`, `GrantPurchased` | `ai_capacity_grant_credit` |
| `Reserve`, `Settle`, `SettleOverrun`, `Release`, `MarkIndeterminate`, `ReversePurchase` | the RPCs of those names |
| `UpdatePolicy`, `SetActivationReady` | `admin_update_ai_capacity_policy` behind the activation guard trigger |
| `Spendable`, `RemainingPercent` | `ai_capacity_balance_snapshot` |

The loop over the grants in `ai_capacity_reserve` (and over the allocations in
`ai_capacity_settle`) is not unrolled: `Share` says what a row gives up when the
rows before it gave up all they could, `least(remaining, available)`. `Total`
(module `Totals`) is SQL's `sum`, defined by counting unit tokens so that its laws
can be proved without recursion.

`capacity_ledger` checks two generations that compete for an allowance and a
top-up over two overlapping periods, with every policy freeze, refund, overrun and
doubt in between: `Amounts` {2, 3} and `Actuals` {1, 3} let a hold span both
grants and be settled in part, in full and above the hold; two periods, one tick
of the clock and two entitlement revisions let a settlement arrive in the next
period. `capacity_reversal` shows a disagreement with
docs/operations/AI_CAPACITY_BILLING_V2.md: a refund takes back what is not held at
that moment and its key is then spent, so credit that was held and is released
afterwards becomes spendable again although its purchase was refunded.

### Proofs

`TotalsTheorems` proves the laws of totals (natural, monotone, one row changes the
total by its difference). `AiCapacityLedgerProofs` proves, for any finite sets of
grants and generations, `Typed` (`TypeOK`) and `NeverOverdrawn` (`NoOverdraft`).
`NoOverdraft` is inductive given `TypeOK`: a reservation that does not exist yet
charges nothing and takes from a grant at most `Available`, a settlement charges
a row at most its hold (`SettleLowersCharges`), and a refund takes exactly
`Available`.

`EventsExplainCharges` proves `LedgerExplainsCharges`; the invariant adds that nothing is
settled while a reservation is open, so that what a settlement appends is all there is.
`LedgerImplementsAccount` is the refinement: with the mapping `Account`, the ledger
implements `CapacityAccount`, which knows only funds, holds and closed holds, and says
what a caller may rely on: each RPC funds, holds, closes or changes nothing. The
run `capacity_ledger` checks the same mapping as `ImplementsAccount`.

Every property of `capacity_ledger` is a theorem:

- `ClosedStaysClosed`: an RPC that changes a reservation found it open or in doubt; the
  rows of the others, and so what they charge, are untouched.
- `AllowancesAreOnePerPeriod`: the invariant `AllowanceInv` adds that a hold is on a
  grant that exists (`HeldRowsExist`), so that a new allowance cannot appear under one.
- `ReversalsAddUp`: inductive with the types. A reversal that is applied has no row yet,
  and `TotalUpdate` says what the row adds. It assumes `NullIsNoRow`: what stands for a
  null is no row of the table, which is true of SQL and must be said of a constant.
- `HoldsAreExact` rests on `SharesAddUp`, the arithmetic of the loop that debits the
  grants: the shares of any rows add up to the amount or to all that the rows have. It
  is an induction along the debit order. No rule of induction can be cited (see below),
  so the proof takes the smallest set of rows, closed under what comes before, of which
  the sum is wrong (`SmallestSet`), removes its last row (`LastElement`) and contradicts.
- `IncludedGoesFirst` needs `AllowanceInv` (the hold on an allowance is on the only one
  of that period) and `EarlierRowsAreUsedUp`: a row of the loop gives something up only
  when those before it gave all.
- `MeterStaysHonest` follows from the types and `NoOverdraft` alone, by `TotalSum` (the
  sum of what is granted, consumed, held and reversed, grant by grant) and
  `TotalOfSubset` (a reservation's rows are among the active ones).


## The Meta catch-up queue

`MetaCatchupQueue` models `meta_conversation_catchup_queue.sql`, the worker
`meta-catchup-worker.mjs` and the internal route it calls, for the conversations of
one social connection. The RPCs are one action each, the worker and the route take a
step per network call.

| in the model | in the code |
|---|---|
| `job` | the latest row of `meta_conversation_catchup_jobs` of a conversation; older rows are closed and never read again |
| `job.live`, `job.due` | `lease_until > now()`, `available_at <= now()`; `LeaseRunsOut`, `ComesDue` are the passing of time |
| `job.claimed` | `claimed_generation`, 0 for null |
| `Enqueue`, `Claim` and `ClaimNothing`, `Finish` | the three RPCs; the sweep at the head of the claim is `Swept` |
| `worker` | where a process is in `processOneMetaCatchupJob` |
| `StopWaiting`, `ForgetJob` | the worker's timeout or a lost answer; a dead process or a lost RPC |
| `route` | the run of `POST` for each lease token, which goes on when its worker is gone |
| `DeleteContact` | `delete_contact_with_meta_catchup` |
| `asked`, `served` | history: requests so far, and requests a completed sync covers |

`Claim` may take any due job: the code takes the oldest that no other transaction
has locked. A lease token is fresh when no row, worker or run knows it, which is
what a random UUID is. Bounds: two attempts where the code has five (the first, the
last, and what comes after the last are all reached), two requests for one
conversation (one before and one after a claim), two workers and two tokens. The
instance is as large as liveness allows; for its safety part larger ones need not be
run, since it is proved for every value of the constants.

What is checked: a job closes as succeeded only when a sync that began after the
last request is complete (`NoRequestLost`), failures never drop a request made after the claim
(`FreshRequestsSurviveFailures`), and the queue implements `CatchupRequests`, which
knows no claims, leases or generations. A terminal or cancelled outcome does close
a job with a newer generation: that is what the code does, and the abstract
specification's `GiveUp` allows it.

The run also checks that every open job ends (`OpenJobsEnd`) under weak fairness of the
worker's steps (its loop polls for ever, every call has a timeout of 15 or 60
seconds, and systemd restarts the process), of the end of each run of the route
(the sync has a budget of 45 seconds) and of leases and backoffs running out.
Nothing is assumed about the sync's success, nor that a worker survives: attempts
are bounded, so a job that is never synced is dead in the end. Requests are bounded
in the run; with endless requests a job may of course stay open.

What is proved (`MetaCatchupQueueProofs`), from `QueueDomains` alone, is all the safety
that the run checks, and that an open job which nobody holds has an attempt left
(`OpenJobsAreClaimable`), without which it could not end. `NoRequestLost` is not inductive: when a worker's success closes a
row, what makes it right happened at the claim, at the route's start and in every
request since. The invariant `IInv` says so in parts:

- `Requested`: an open row has a generation, so a claimed generation of 0 is none;
- `Busy`: a process that does something does it for a conversation, under a token;
- `Matched`: whoever knows the token of a row works for that row. A token that is
  fresh when it is claimed under is what keeps this true of late workers and runs;
- `Covered`: under the token of a row, a running sync, or a success that was reported,
  covers all requests but those since the claim. `Covers` counts these as the row's
  generation less its claimed generation.

When the row's generation is the claimed one there are none, and `NoRequestLost`
follows. `RowKinds` then lists what a step can do to a row; that no job is stuck, that
failures keep fresh requests and that the queue implements `CatchupRequests` go through
its cases.


## Mobile push delivery

`MobilePushDelivery` models one reminder to one registered device: the service
`mobilePushDelivery.mjs`, the ledger RPCs, the registration and the provider. Any
number of runs of `deliver` (`Senders`) and of `checkReceipt` (`Checkers`) take
a step per call and may end between any two.

| in the model | in the code |
|---|---|
| `attempt[n]` | row n of `mobile_push_delivery_attempts` for the reminder's key |
| `registration` | the user's row of `mobile_push_registrations`; the token stands for its hash |
| `LoadTarget`, `Reserve`, `Send`, `RecordSend` | the calls of `deliver`, in order |
| `DoubtTicket` | the `catch` around `markTicket`: the ticket may or may not be recorded when the service turns to `markIndeterminate` |
| `RecordSendToLostDevice`, `RecordCheckOfLostDevice` | `markDeviceNotRegistered`, one transaction over attempt and registration |
| `ReserveCheck`, `LookUp`, `RecordCheck` | the calls of `checkReceipt` |
| `Register`, `Unregister` | `registerMobilePushToken`, `unregisterMobilePushToken` |
| `provider`, `gone` | what the provider did with each attempt, the tokens it reported |

A receipt lease is told by the number of its check, which the row counts, so two
checks never share one. The provider is external. It takes a push or refuses it,
an answer may be lost or unreadable either way, and a refusal (429, 5xx and
`MessageRateExceeded` too) is taken at its word, as docs/mobile/PUSH_DELIVERY.md:189
does; a gateway that answers 5xx for a push that went through is outside the model.

`mobile_push` checks the protocol with a key that the ledger takes
(`KeyPrefix = ""`): at most one push whatever is lost, late or dead
(`AtMostOnePush`); final and true verdicts although the transition RPC looks at
leases and never at states (`VerdictsAreFinal`, `VerdictsAreTrue`); a device
switched off only for a token the provider reported (`DisabledMeansGone`). Two runs
of each kind, three attempts as in the code, two checks where the code has four, two
tokens. The key that the service builds today is
`mpd1_` and a digest (`tests/mobile-push-delivery.test.mjs:610` expects it), and the ledger
takes 64 hexadecimal digits alone: with `KeyPrefix = "mpd1_"` it refuses every reservation
and nothing can be sent, where `docs/mobile/PUSH_DELIVERY.md:177` wants that key reserved.
`LedgerTakesKey` is all there is to see of it, so no run is spent on it.
The path is dormant, no caller exists yet. No liveness is stated because the code
promises none: an attempt whose run died while sending keeps its state for ever.

### Proofs

`MobilePushDeliveryProofs` proves every property of `mobile_push` for any number of
senders, checkers, tokens, attempts and checks, and whatever key the service builds:
`PushTyped`, `OnePushAtMost`, `OnlyGoneDevicesAreDisabled`, `LedgerTellsTheTruth`, and
`VerdictsStay` for the action property. They assume `DeliveryDomains` only: the limits are
positive and no token is the null.

One invariant, `IInv`, carries all of them (`DeliveryInvariant`). None of the properties
is inductive, because a row says nothing of the run that works on it:

- `RowFits` ties a row to its lease and to what the provider did; `SenderFits` and
  `CheckerFits` tie a run, between two of its calls, to its row: one that has reserved has
  not sent, one that has sent remembers an answer the provider may give
  (`ProviderAnswers`), one that looks up a receipt has a row that was sent.
- `Chained`: an attempt exists only after the one before it was refused. With
  `OwnAttempts` (no two runs have reserved the same one) it gives `OnePushable`: at most
  one attempt was taken by the provider *or may still be given to it*. `AtMostOnePush`
  is its first half; the second half is what makes it inductive.
- All of it must survive `Unregister`, which deletes the rows under the runs (`Deleted`), and
  a lease that runs out under a run that still has its answer in hand.


## Backups: retention, queue and worker

`RetentionPolicy` is `selectRetention` of `backup-retention.mjs` as operators over
sets of numbers: a pair of files stands for the millisecond in its name, and the loop
of `selectTier` over the sorted list becomes a condition on the keys of the newer pairs.
Two modules use it.

`BackupRetention` follows the backups of one type (the code treats the types apart)
over weeks:

| in the model | in the code |
|---|---|
| `pairs` | what `discoverBackupPairs` would find |
| `Place` | `placeBackupPair` of the worker, as one step |
| `Discover` | `executeRetention` up to its loop: one listing, one decision |
| `MoveArtefact`, `MoveChecksum`, `RollBack` | the two renames of `removePair` and its `catch` |
| `Interrupt` | the process dies between two renames |
| `made` | history: the pairs ever placed |

`BackupJobs` puts the queue, the worker and the retention together:

| in the model | in the code |
|---|---|
| `jobs`, `runs` | the rows of `admin_operation_jobs` and `backup_runs` |
| `leased`, `LeaseRunsOut` | `lease_until > now()` and the passing of time |
| `FindNoneActive`, `ClaimNext`, `ClaimNothing` | the two statements of `claim_admin_backup_job` |
| `worker`, `Start`, `Build`, `PlaceChecksum`, `PlaceArtefact`, `ReturnPlaced`, `Record`, `Finish` | a backup job in `backup-worker.mjs`, a call or a rename at a time |
| `ChooseRun`, `Check`, `Condemn`, `RecordCheck`, `Clear` | `verifyLatestBackup` |
| `ClearChecksum`, `ClearArtefact`, `Fail` | the `catch` of `placeBackupPair` and of `loop` |
| `Crash` | the process dies; systemd starts it again |
| `disk`, `Discover` ... `Interrupt` | the backup directory and `backup-retention.mjs` |

How an archive is made, encrypted and uploaded is one step that succeeds or fails; the
upload's outcome only chooses between row states that all count as backups. Lost
answers are in `Call`: the row may have changed although the worker takes its error
path.

### What the runs show

`backup_retention` takes the 1-1-1 policy of the runbook over nine moments in three
months, two of them on one day, with weeks that straddle the ends of months, and lets
every run of the retention be cut off anywhere. Nine is enough for each tier to lose a
pair to a newer one twice. `RestorePointsKept` is its point: the newest backup, one of
last week and one of last month are there at every moment.

`backup_jobs` is the deployment: one worker, three requests of any kind, two failures
of a call, a rename or a process anywhere (`MaxFaults`; the second failure is what a
retry meets), and the retention beside it. `NArtefacts` and `NRuns` are what three
jobs with two retries can make, so they never block. All artefacts are of one day
there, so the retention keeps the newest pair alone: the policy that gives the
least protection. Every job ends (`JobsEnd`) under weak fairness of the
worker's steps (its loop polls for ever, systemd restarts it) and of leases running
out, as long as failures end: `attempt_count` is written and never read, so a job
that kills its worker each time is taken again for ever.

`backup_overlap` has two workers, which also meet on one job after a lease ran out, and
a failure after the last rename (`LateFailures`): whatever they do to each other, what
is on record was placed and a success points to its own row (`RecordsAreTrue`).

In two places the code leaves what is said of it. `claim_admin_backup_job` asks in one statement whether a job is active and takes the
next one in another, and no lock spans the two, so two workers that poll at once both
become active, although the function's comment and BACKUP_WORKER.md say at most one.
The deployment has one worker, and `AtMostOneActive` is checked and
proved for one; a second name in `Workers` of `MCBackupJobs.cfg` gives the counterexample in a
few steps. The run `backup_late_failure` shows the other place: when a step after the last
rename fails, the worker removes the pair it has just placed; the retention may have
counted that pair as the newest and removed the older one because of it, and the type is
left without a restore point, which BACKUP_RUNBOOK.md:107 excludes. `LateFailures =
FALSE` in `backup_jobs` is therefore an assumption, and the only one, of
`RestorePointSurvives`.

### Proofs

`BackupRetentionProofs` proves for every policy, every calendar whose days, weeks and
months follow the order of time, and any number of backups: the newest pair survives
(`NewestSurvives`), so do the last week and the last month before the present
(`LastWeekSurvives`, `LastMonthSurvives`; `RestorePointsSurvive` is the three together), and a run that is cut off is harmless
(`CutOffRunsResume`).

None of the three safety properties is inductive alone. The invariant is `IInv`:
what a run has still to remove must be known to be harmless *now*, though it was decided
earlier, so `LatestSafe`, `WeekSafe` and `MonthSafe` say of the pairs that are not doomed
what the properties say of all pairs, and `Ordered` says that whatever was placed since
the decision is newer than everything it looked at. `Place` moves the present: the pair
that was newest becomes the last of its week or month, and it was not doomed.
`Discover` decides: `TierKeepsLastOpenKey` shows that a tier keeps the newest pair of the
last key that no earlier tier blocked. `CutOffRunsResume` needs a different fact,
`TierIsStable`: removing pairs that a selection does not keep does not change what
the selection keeps, tier by tier. Keys are natural numbers below a bound, so sets of
keys are finite and their cardinalities, which is what a limit counts, can be compared.

`BackupJobsProofs` proves of the queue and the worker, for any number of workers, jobs,
artefacts and faults: its types (`QueueTyped`) and `RecordsAreTrue` (`RecordsTellTheTruth`)
without any condition; `AtMostOneActive` (`OneActiveJob`) for a worker that is alone, and
`RestorePointSurvives` (`RestorePointsStay`) when no step after the last rename fails.
The two conditions are in the statements of the theorems and each is needed: two workers that
poll at once, and the run `backup_late_failure`, are the counterexamples without them.
`JobsAssumption` says that the bounds and the priorities are numbers and that a
verification is no type of backup.

The invariant `IInv` (`QueueInvariant`) says of a worker, at each place of its code, what
it holds (`WorkerFits`): an artefact that no row names yet while it builds, places or
clears (`Holding`), a row that documents its job from the insert to the last call. Two
workers never hold the same artefact (`OwnArtefacts`) even after one lost its lease to the other,
and that is why the clearing after an error of one cannot remove what the other recorded.
On top of it stand two invariants for the two conditions. `RestoreFits`: every type on
record has a whole pair that the retention's present run does *not* mean to remove
(`Spared`), and so has a worker that has placed its pair and not yet written its row; a
pair alone would not be inductive, since the retention decided earlier. `QueueFits`: while
the worker is between the two statements of the claim no job is active, and while it is
busy only its own is.


## Stripe billing: the event ledger

`StripeEventLedger` is the migration `20260816210000_workspace_stripe_billing_event_ledger.sql`
with its three callers: the webhook route, which turns a payload into a projection; the
operator's adapters, which read a snapshot from Stripe and send it through a journal; and
the administrator's page, which writes the same columns past the ledger. Stripe is
external: a behaviour chooses a `history`, the events Stripe emits, and every event can
arrive at any time after it happened, any number of times, or never.

| in the model | in the code |
|---|---|
| `workspace` | the billing columns of `workspaces` |
| `stream`, `event`, `binding`, `receipts` | `workspace_stripe_billing_streams`, `_events`, the object bindings, `_reconciliations` |
| `enabled` | the third key of the gate: project events, or only capture them |
| `Mode`, `Ref`, `Projected...`, `Written` | the handlers of the route and the `coalesce`s of the `update` |
| `Candidates`, `Missing`, `Contradicts`, `Mismatches` | how the event transaction places an event at a workspace |
| `Collide`, `LeaveUnresolved`, `RecordContradiction`, `RecordMismatch`, `Hold`, `IgnoreStale`, `Apply` | its exits, in their order |
| `Targets`, `StartSnapshot`, `FinishSnapshot`, `Prepare` | `stripeBillingCanonicalSnapshot.mjs`: two reads of the same subscription, the list of the customer's, the command |
| `Commit`, `Commits`, `Reconcile` | `reconcile_workspace_stripe_billing_projection`, sent or recovered by `executeStripeBillingReconciliation` |
| `attempt` | what the operator has in hand; a command survives a crash in the attempt journal, a snapshot does not (`Abandon`) |
| `Administer`, `Toggle`, `Tick` | `updateAdminBillingWorkspace`, the gate, time |
| `touched` | history: an administrator wrote the status since the last snapshot |

A transaction is one step: it takes advisory locks on every object it refers to and the
row lock of its workspace. A delivery whose id and payload are known is answered from the
row and changes nothing, so it is a stutter; one whose object is bound elsewhere raises
and is rolled back (`Bindable`). A payload is its type, its second, the objects it
refers to, the workspace it names and what its object says; `conflict` is a payload
whose own candidates disagree. `trialing` is folded into what it projects, amounts and
prices are left out. The inventory of the ledger that a command is built from is no code
of this repository; the model gives `Prepare` the rows themselves. The adapter's
own limits (types it covers, no demo, one subscription in the customer's list) are in
`StartSnapshot` and `Prepare`.

### What the run shows

`stripe_ledger` takes seven histories of three or four events over seven instants:
`Ending` and `Restart` (a dunned subscription ends, then a late payment or a checkout of
a new one), `Reversal` and `Taxes` (events in one second, a refund that only its charge
places, the other stream), `Tenants` and `Collision` (two workspaces meet over a customer,
and over one event id), `Demonstration` (the demo, which no event may change). Two
instants make a second, so that ties and events inside the snapshot's second happen; a
snapshot is too old after two instants. `MaxActs` bounds snapshots, administrations and
gate switches together by two: enough for two operators on one workspace, for an operator
and a hand-made suspension, and for the gate turned off and on under pending events.
Neither the clock nor the acts go on for ever and Stripe may stay silent, so the system
may stop (`CHECK_DEADLOCK FALSE`). No fairness is stated and no liveness claimed: nothing
in the code makes an operator come.

`NewestStatusWins` is the point of the ledger: whatever the order of arrival, the status of a stream in sync is that of the newest event projected since
the last snapshot, or else something Stripe said at or after that snapshot's cut. The
cut is the instant *before* the two reads; dated after them (`FinishSnapshotLate`) an
event of the time between would be stale and lost. It and the others are also proved.

What Stripe says of a subscription (`StatusAt`) is what the object says that
`subscriptions.retrieve` returns: cancelled from its end on, whatever is paid after, and
before that what its newest event left.

`stripe_terminal` shows where the ledger falls behind this. Order is by the event's second
alone: when `invoice.paid`, made after the end of a subscription, arrives before
`customer.subscription.deleted`, the end is a `stale_event` and ignored, `lifecycle_terminal`
stays unset, and the workspace stays active and in sync, where
`docs/operations/STRIPE_BILLING_EVENT_LEDGER.md` (lines 42-44) wants the end kept
(`EndIsKept`). `NewestStatusWins` holds of that state, since its "newest" is the
ledger's own, the second of creation; `NoRevival` speaks of ends that were applied. The run
has no administrators and no operators: nothing but the order of arrival is at work.

Two things the model makes visible and no run asserts:

- A pending event that was placed at a workspace but names another customer must be
  among the resolved ones (`Attributable`) and cannot be (`Resolvable`): no command
  commits, and the stream stays frozen until somebody repairs the row.
- A top-up checkout goes through the same route and writes the customer's columns with
  an `update` of its own; that path belongs to the AI capacity ledger's packages and is
  not in this model.

### What is proved

`StripeEventLedgerProofs` proves for any workspaces, objects, events and histories:

- `TypesHold`. The invariant `Typed` adds to `TypeOK` what an operator may have in hand
  (`Attempting`): a commit writes what a command of that shape holds.
- `LedgerFollowsTheCut`: with `cut`, `revision` and `frozen` read off the stream rows, the
  ledger implements `ProjectionCut`. Every delivery either only freezes (`Freezing`),
  changes no row, or is `Apply` (`DeliverFreezesOrApplies`); `ApplyMoves` says that
  `Apply` found the row in sync and moved it past its last second. This lemma carries
  all the later proofs.
- `PendingEventsFreeze`: `PendingFreezes` is inductive with the types. `Apply` cannot
  thaw past a pending event because `Held` looks for one, and `Reconcile` must resolve
  every event placed at its workspace.
- `ObjectsHaveOneTenant`: `OneTenant` needs `Identified`, which says that a customer column
  holds a customer and a subscription column a subscription, that there is no
  subscription without a customer, and that a command binds the customer and the
  subscription it writes. `BindKeeps`: a transaction that did not raise moves no binding.
- `ReceiptsAreAChain`: a new receipt is one past the row's revision, its cut past the
  row's, and the row is never behind a receipt.
- `NothingIsRevived`: of all steps of the webhook only `Apply` makes a workspace active; after
  an end it does so only for a checkout of another subscription.
- `NewestStatusHolds`: `NewestStatusWins` is far from inductive. `NewestFits` adds, of
  every workspace but the demo, that its row is never behind an event it took
  (`AppliedBehind`: with `ApplyMoves` the event that is applied is the newest); that a
  suspension by hand is remembered in `touched`, that a row in sync has a customer (a
  contradiction closes every workspace it names, but freezes only the rows of those with
  a customer: one without would be left in sync and suspended), and that a snapshot left
  a subscription (`RowFits`); and, of every operator, that the status in his hand is
  what Stripe said of that subscription at the instant before the reads (`Truthful`).
  `FreezeStands`, `ApplyStands` and `ReconcileStands` are its three cases; a snapshot
  that commits is newer than every event its row took, so that none of them counts any
  more. Two facts of the code carry it: a completed checkout always says a status (line
  501 of the route), and the database refuses a projection whose status is `none` or
  `manual_suspended` (`Projectable`).

They assume `TimeAssumption` and `HistoryAssumption`: the bounds are numbers, histories
consist of deliveries, and `None` is no value of the model. The bounds on time and acts
stand in the guards and are parameters of the theorems.

## The public demo

`DemoSessions` models the temporary demo from the moment a request has passed the
checks of `POST /api/demo/start` (origin, body, cookie, Turnstile) to the deletion of
what it created. The row is in Postgres, the user in the Auth service, and no
transaction spans the two: the route and the cleanup are sequences of calls, each of
which may fail, take effect without an answer, or be the last before the process dies.

| in the model | in the code |
|---|---|
| `row` | the row of `demo_start_sessions`; `due`, `stale`, `young` compare its times with now |
| `user`, `place` | the Auth user and the workspace of a start; a workspace that an administrator wrote is `administered`: `isServerBoundTemporaryDemoWorkspace` is false of it |
| `Forgets`, `UserGoes` | `on delete set null` of the row's two references, `on delete cascade` of the workspace's owner |
| `Count`, `Reserve` | `claim_public_demo_start`: its counts, and its insert |
| `CreateUser` ... `Activate` | the calls of `POST`, in their order |
| `Undo`, `Fail`, `Queue` | `cleanupCreatedDemo` or `deleteCreatedDemoAuthUser`, and `settleFailedDemoStart` |
| `Die` | the process dies, or a call without a catch throws |
| `WindowEnds`, `DemoEnds`, `LeaseAges` | ten minutes, an hour, fifteen minutes pass |
| `OwnerOpens`, `OwnerNormalizes`, `OwnerDeletes`, `OwnerLeaves` | the dashboard of the demo's owner: the check of `normalizeTemporaryDemoWorkspace`, its write, `deleteExpiredTemporaryDemo` a deletion at a time, and the error or the closed browser that ends it anywhere |
| `Administer` | the billing console writes a demo's billing status or flags |
| `Sweep`, `LookUp`, `Delete`, `Complete` | `POST /api/demo/cleanup`: the claim, and each candidate's lookups with the refusal of what no longer looks like a demo (`FirstStep`), deletions and completion |

`fail_public_demo_start` and `claim_expired_demo_cleanup` are those of the later
migration, `20260726120000_workspace_provisioning_rpc.sql`; the mutant `ClaimableOnce` is the
earlier claim, under which a dead cleanup keeps its claim for ever.

What is checked:

- `DemoLastsItsHour`: a start may take longer than its reservation, and a cleanup then
  claims it while the route goes on. A demo that was handed out is nevertheless whole
  until its hour is over.
- `NothingLeftBehind`: wherever a start stops or its rollback fails, a user that exists
  is named by a row that waits for the cleanup. A user without a name is one of three
  cases, which `Nameless` lists because the code has them. The route may die, or the
  answer of the Auth service be lost, after the user was created and before the row
  names it. The Auth service may answer with an error, or without an id, although it
  created the user (`CreateUser`): `failPublicDemoStart` then settles a row that names
  nothing, and the cleanup never claims such a row. And `queuePublicDemoCleanup` asks for the
  states reserved, active, failed and cleanup_failed: a row that has expired or been
  claimed meanwhile is refused, and the log says so. The user of such a start stays,
  although the runbook (`docs/operations/public-demo-protection-runbook.md:188`) wants
  an aborted start removed completely once it has expired. A start that ended in
  any other way, and a route that is past its record, have no exemption.
- `DemosEnd`: every user that a row names is deleted some day, unless an administrator wrote its
  workspace. `deleteServerVerifiedTemporaryDemo` refuses that one every time, and its row stays
  `cleanup_failed` unless a dashboard that was open already writes the demo's values over
  the administrator's.

And what is shown violated: `demo_window`. The quota counts and the insert of
`claim_public_demo_start` are statements of one function without a lock. Two requests of an
address that count at the same time do not see each other, and both get a demo, where
`public-demo-protection-runbook.md:87` allows one in ten minutes (`OneStartPerWindow`). A
start that has its row is counted by every later one, also when it failed; the mistake
needs two requests that are under way together.

Bounds: two starts of one address and browser, of which one gets past its reservation
(`MaxUsers`; the second is there for the counts), two overlapping runs of the
cleanup, and two faults (`MaxFaults`: the one that stops a start and the one that stops its
cleanup; an administrator's write counts as one). `demo_window` lets both starts
through and needs no fault. A run is one day, so that the daily quotas count every row.
Blocked rows count nowhere and are left out; so is a batch smaller than what there is to claim. The
run may stop when everything is removed, so deadlock is not checked.

Fairness: time passes, and a run of the cleanup takes its next step. The timer starts a
run every ten minutes, and a run that died is followed by another. Nothing is asked of
the start route or of the owner.

Assumed: the activation comes within the demo's hour, which the route fixes before it
creates the user.

Proved (`DemoSessionsProofs`), from `DemoDomains` alone and so for any number of starts,
addresses, overlapping cleanups and faults: the types with the foreign keys, and the two
safety properties. The invariant `IInv` adds what each of the two routes may rely on
while the other is at work. `RouteFits` says what the place of a start means for its
row: a route that is about to activate a reserved row has its user, its workspace and
both names, because only the cleanup and the route itself delete, and the cleanup only
what is `OutOfReach`. `ClaimsHold` says what a run of the cleanup knows: what it read
may be old, but a row it claimed never becomes reserved or active again, and that the
row named its user (or none) stays true or the user is gone. `Kept` is the second half
seen from any other step: every action of anybody keeps what the runs know.
The owner deletes only what is due (the last conjunct of `RouteFits`), so it takes
nothing from a demo whose hour is not over, whatever the row has become since the check.


## Proved, checked, left out

Proved for every value of the constants: the ledger's types, its eight safety properties
and that it implements the account; of push delivery its types and its four safety
properties; the retention's types and its four promises; of the backup queue its types
and its three safety properties, two of them under the condition that the deployment
meets; of the catch-up queue its types, its safety properties and that it implements
`CatchupRequests`; of the Stripe billing ledger its types, five safety properties and
that it implements `ProjectionCut`; of the public demo its types and its two safety
properties. Model-checked only: the four properties that a run shows violated. Liveness
under fairness (`OpenJobsEnd`, `JobsEnd`, `DemosEnd`) stays with TLC: ENABLED and
fairness are out of TLAPS's reach here. No module that is proved about uses a recursive
operator; totals are defined by counting (`Totals`), and what is induction over data in
the code (a loop over rows, the last of the attempts, the newest of the backups) is
proved by taking a smallest counterexample among the subsets of a finite set.

Each model leaves out what its properties do not tell apart: identifiers are model
values or numbers, times are a few ticks or the step "it runs out", error texts and
audit rows are absent. One RPC is one step where a row lock or an advisory lock makes
it one; where no lock spans its statements (`claim_admin_backup_job`) it is several.

## The plan

The order is that of importance to money and to data that would be lost. The AI
capacity ledger, the catch-up queue, push delivery, the backups, the Stripe billing
ledger and the public demo are done; this is left.

1. `WebsiteChatSessions`: sessions, receipts, handoffs and the purge.
2. `WhatsAppInbound`: claim, store and disconnect, with leases and five attempts.
3. `AiCapacityCall`: a reply's coordinator around `AiCapacityLedger`: the ledger's
   module is instanced, and the call's promise (no answer of the provider is used
   without a hold; a key pays once) is the property.

The runs stay few: one per question. Where a new module brings its own, a run whose
property has been proved can go.
