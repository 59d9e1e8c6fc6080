-------------------------- MODULE AiCapacityLedger --------------------------
(***************************************************************************)
(* The AI capacity ledger of one workspace: the service-role RPCs of       *)
(* supabase/controlled/ai_capacity_reserve_settle.sql over the tables of   *)
(* ai_capacity_billing_v2.sql.  Each RPC takes the workspace's advisory    *)
(* lock before it reads (and FOR SHARE locks on the policy and entitlement *)
(* rows), so each is one atomic action.  A rejected call and an idempotent *)
(* replay change nothing: they are the steps that are not enabled.         *)
(***************************************************************************)
EXTENDS Totals

CONSTANTS
    Grants,        \* grant rows, as numbers in the order (created_at, id)
    Generations,   \* generation keys: one per AI reply to be paid for
    Packages, Modes,
    Quotes,        \* provider, model, pricing version and FX version of a call
    Usages,        \* token counts a provider may report
    Windows,       \* billing periods: [period, start, end]
    PolicyChoices, \* what administrators submit: [enabled, frozen, modes, budget]
    DefaultBudget, \* the budget per package the migration installs
    EntitlementChoices,  \* what billing projects: [active, package, window]
    Amounts,       \* amounts granted and reserved
    Actuals,       \* amounts a call may turn out to have cost
    Expiries,      \* expires_at of purchased credit (beyond MaxClock: null)
    ReversalKeys,  \* keys of refunds and disputes
    MaxClock,      \* bound on the clock
    MaxRevision,   \* bound on the policy and entitlement revisions
    None           \* an absent row or a null column

ASSUME CapacityDomains ==
    /\ Grants \subseteq Nat /\ IsFiniteSet(Grants)
    /\ IsFiniteSet(Generations)
    /\ Amounts \subseteq Nat \ {0}
    /\ Actuals \subseteq Nat
    /\ Expiries \subseteq Nat
    /\ MaxClock \in Nat /\ MaxRevision \in Nat \ {0}
    /\ IsFiniteSet(ReversalKeys)
    /\ None \notin Amounts /\ None \notin Packages /\ None \notin Windows
    /\ \A w \in Windows : w.start \in Nat /\ w.end \in Nat /\ w.start < w.end
    /\ DefaultBudget \in [Packages -> Amounts]
    /\ PolicyChoices \subseteq [enabled: BOOLEAN, frozen: BOOLEAN,
                                modes: SUBSET Modes,
                                budget: [Packages -> Amounts \cup {None}]]
    /\ EntitlementChoices \subseteq [active: BOOLEAN, package: Packages,
                                     window: Windows]

\* A null is not a row.
ASSUME NullIsNoRow == None \notin [grant: Grants, amount: Nat]

VARIABLES
    clock,         \* clock_timestamp()
    policy,        \* ai_capacity_admin_policy
    entitlement,   \* ai_capacity_workspace_entitlements
    grants,        \* ai_capacity_grants
    reservations,  \* ai_capacity_reservations
    held,          \* reserved_eur_microcents of each allocation row, 0: no row
    spent,         \* settled_eur_microcents of each allocation row
    ledger         \* ai_capacity_ledger_events, totalled per kind of event

vars == <<clock, policy, entitlement, grants, reservations, held, spent, ledger>>

Periods == { w.period : w \in Windows }
Unset   == -1  \* a settled_eur_microcents that is null

Requests == [period: Periods, package: Packages, mode: Modes, amount: Amounts,
             policyRevision: 1..MaxRevision, entitlementRevision: 1..MaxRevision,
             quote: Quotes]

Evidence == [actual: Actuals, usage: Usages, quote: Quotes]

HoldingStates == {"reserved", "indeterminate", "reconciliation_required"}
FinalStates   == {"settled", "released", "reconciliation_required"}
States        == {"none", "reserved", "settled", "released", "indeterminate",
                  "reconciliation_required"}

Budgets  == [Packages -> Amounts \cup {None}]

Policies == [enabled: BOOLEAN, frozen: BOOLEAN, modes: SUBSET Modes, budget: Budgets,
             ready: BOOLEAN, revision: 1..MaxRevision]

Entitlements == [active: BOOLEAN, package: Packages \cup {None},
                 window: Windows \cup {None}, revision: 0..MaxRevision]

GrantRows == [kind: {"included_period", "purchased"}, package: Packages \cup {None},
              window: Windows \cup {None}, expires: Expiries \cup {None},
              granted: Nat, reversed: Nat]

NoGrant == [kind |-> "none", package |-> None, window |-> None, expires |-> None,
            granted |-> 0, reversed |-> 0]

NoReservation == [state |-> "none", request |-> None, settled |-> Unset,
                  evidence |-> None]

NoRows == [g \in Grants |-> 0]

Reservations == [state: States, request: Requests \cup {None},
                 settled: Actuals \cup {0, Unset}, evidence: Evidence \cup {None}]

\* The events of each kind: amounts per grant (granted) and per reservation and
\* grant (created, settled, released), and the events that are not amounts.
Ledgers == [granted: [Grants -> Nat],
            created: [Generations -> [Grants -> Nat]],
            settled: [Generations -> [Grants -> Nat]],
            released: [Generations -> [Grants -> Nat]],
            doubted: [Generations -> Nat],
            overrun: [Generations -> Evidence \cup {None}],
            reversal: [ReversalKeys -> [grant: Grants, amount: Nat] \cup {None}]]

-----------------------------------------------------------------------------
ChargeWithoutDoubt(gen, g) ==
    LET state == reservations[gen].state IN
    IF state \in {"reserved", "reconciliation_required"} THEN held[gen][g]
    ELSE IF state # "settled" THEN 0
    ELSE IF spent[gen][g] = Unset THEN held[gen][g] ELSE spent[gen][g]

\* What a reservation takes out of a grant: its hold while the outcome is open,
\* what was settled once it is known, nothing when it was released.
Charge(gen, g) ==
    LET state == reservations[gen].state IN
    IF state \in HoldingStates THEN held[gen][g]
    ELSE IF state # "settled" THEN 0
    ELSE IF spent[gen][g] = Unset THEN held[gen][g] ELSE spent[gen][g]

Charged(g) == Total([gen \in Generations |-> Charge(gen, g)], Generations)

Available(g) ==
    GreaterOf(0, grants[g].granted - grants[g].reversed - Charged(g))

Exists(g)   == grants[g].kind # "none"
Included(g) == grants[g].kind = "included_period"

\* The window of an included grant contains now; purchased credit has not expired.
Current(g) ==
    \/ /\ Included(g)
       /\ grants[g].window.start <= clock /\ clock < grants[g].window.end
    \/ /\ grants[g].kind = "purchased"
       /\ clock < grants[g].expires

Active(g) == Exists(g) /\ Current(g) /\ grants[g].reversed < grants[g].granted

EligibleOfAnyPeriod(period, package) == { g \in Grants : Active(g) }

\* The grants ai_capacity_reserve loops over for a period and package.
Eligible(period, package) ==
    { g \in Grants :
        /\ Active(g)
        /\ Included(g) => /\ grants[g].window = entitlement.window
                          /\ grants[g].window.period = period
                          /\ grants[g].package = package }

PrecedesByAge(g, h) == g < h

\* order by included before purchased, then created_at, id
Precedes(g, h) ==
    \/ Included(g) /\ ~Included(h)
    \/ (Included(g) <=> Included(h)) /\ g < h

ShareUnclamped(amount, limit, rows, g) ==
    LesserOf(limit[g], amount - Total(limit, { h \in rows : Precedes(h, g) }))

ShareOfWholeAmount(amount, limit, rows, g) == LesserOf(limit[g], amount)

\* least(remaining, limit) when the loop over rows reaches g.
Share(amount, limit, rows, g) ==
    LesserOf(limit[g],
             GreaterOf(0, amount - Total(limit, { h \in rows : Precedes(h, g) })))

Take(req) ==
    LET rows  == Eligible(req.period, req.package)
        limit == [g \in Grants |-> Available(g)]
    IN  [g \in Grants |-> IF g \in rows THEN Share(req.amount, limit, rows, g) ELSE 0]

-----------------------------------------------------------------------------
Init ==
    /\ clock = 0
    /\ policy = [enabled |-> FALSE, frozen |-> TRUE, modes |-> {},
                 budget |-> DefaultBudget, ready |-> FALSE, revision |-> 1]
    /\ entitlement = [active |-> FALSE, package |-> None, window |-> None,
                      revision |-> 0]
    /\ grants = [g \in Grants |-> NoGrant]
    /\ reservations = [gen \in Generations |-> NoReservation]
    /\ held = [gen \in Generations |-> NoRows]
    /\ spent = [gen \in Generations |-> [g \in Grants |-> Unset]]
    /\ ledger = [granted  |-> NoRows,
                 created  |-> [gen \in Generations |-> NoRows],
                 settled  |-> [gen \in Generations |-> NoRows],
                 released |-> [gen \in Generations |-> NoRows],
                 doubted  |-> [gen \in Generations |-> 0],
                 overrun  |-> [gen \in Generations |-> None],
                 reversal |-> [k \in ReversalKeys |-> None]]

\* Time passes.
Tick ==
    /\ clock < MaxClock
    /\ clock' = clock + 1
    /\ UNCHANGED <<policy, entitlement, grants, reservations, held, spent, ledger>>

\* The operator's activation switch: a direct update of the policy row.
SetActivationReady ==
    /\ ~policy.ready
    /\ policy' = [policy EXCEPT !.ready = TRUE]
    /\ UNCHANGED <<clock, entitlement, grants, reservations, held, spent, ledger>>

\* admin_update_ai_capacity_policy: compare-and-set on the revision, behind the
\* activation guard trigger.
UpdatePolicy(expected, choice) ==
    /\ expected = policy.revision /\ expected < MaxRevision
    /\ choice.enabled => /\ choice.modes # {}
                         /\ policy.ready
                         /\ \A k \in Packages : choice.budget[k] # None
    /\ policy' = [enabled |-> choice.enabled, frozen |-> choice.frozen,
                  modes |-> choice.modes, budget |-> choice.budget,
                  ready |-> policy.ready, revision |-> expected + 1]
    /\ UNCHANGED <<clock, entitlement, grants, reservations, held, spent, ledger>>

\* The billing projection replaces the entitlement row (its writer is external).
ProjectEntitlement(choice) ==
    /\ entitlement.revision < MaxRevision
    /\ entitlement' = [active |-> choice.active, package |-> choice.package,
                       window |-> choice.window,
                       revision |-> entitlement.revision + 1]
    /\ UNCHANGED <<clock, policy, grants, reservations, held, spent, ledger>>

AddGrant(g, row) ==
    /\ ~Exists(g)
    /\ grants' = [grants EXCEPT ![g] = row]
    /\ ledger' = [ledger EXCEPT !.granted[g] = @ + row.granted]
    /\ UNCHANGED <<clock, policy, entitlement, reservations, held, spent>>

\* ai_capacity_grant_credit for a billing period: at most once a period, for the
\* entitled package and window, of exactly the approved budget.
GrantIncluded(g, package, window, amount) ==
    /\ \A h \in Grants : Included(h) => grants[h].window.period # window.period
    /\ entitlement.active
    /\ entitlement.package = package /\ entitlement.window = window
    /\ policy.budget[package] = amount
    /\ AddGrant(g, [kind |-> "included_period", package |-> package,
                    window |-> window, expires |-> None,
                    granted |-> amount, reversed |-> 0])

\* ai_capacity_grant_credit for a top-up.
GrantPurchased(g, expires, amount) ==
    AddGrant(g, [kind |-> "purchased", package |-> None, window |-> None,
                 expires |-> expires, granted |-> amount, reversed |-> 0])

\* The checks of ai_capacity_reserve, up to the replay lookup.
Admitted(req) ==
    /\ entitlement.active
    /\ entitlement.package = req.package
    /\ entitlement.window.period = req.period
    /\ \A g \in Grants :
         Included(g) /\ grants[g].window.period = req.period =>
            /\ grants[g].package = entitlement.package
            /\ grants[g].window = entitlement.window
    /\ entitlement.revision = req.entitlementRevision
    /\ policy.revision = req.policyRevision
    /\ policy.enabled /\ ~policy.frozen
    /\ req.mode \in policy.modes
    /\ entitlement.window.start <= clock /\ clock < entitlement.window.end

\* The loop over the grants ends with nothing left to take.
Covered(req) ==
    Total([g \in Grants |-> Available(g)], Eligible(req.period, req.package))
        >= req.amount

ReserveAgain(gen, req) ==
    /\ Admitted(req)
    /\ Covered(req)
    /\ reservations' = [reservations EXCEPT
         ![gen] = [state |-> "reserved", request |-> req, settled |-> Unset,
                   evidence |-> None]]
    /\ held' = [held EXCEPT ![gen] = Take(req)]
    /\ ledger' = [ledger EXCEPT
         !.created[gen] = [g \in Grants |-> @[g] + Take(req)[g]]]
    /\ UNCHANGED <<clock, policy, entitlement, grants, spent>>

\* ai_capacity_reserve: hold the amount on the grants, included ones first.
Reserve(gen, req) ==
    /\ reservations[gen].state = "none"
    /\ Admitted(req)
    /\ Covered(req)
    /\ reservations' = [reservations EXCEPT
         ![gen] = [state |-> "reserved", request |-> req, settled |-> Unset,
                   evidence |-> None]]
    /\ held' = [held EXCEPT ![gen] = Take(req)]
    /\ ledger' = [ledger EXCEPT
         !.created[gen] = [g \in Grants |-> @[g] + Take(req)[g]]]
    /\ UNCHANGED <<clock, policy, entitlement, grants, spent>>

OpenUntilSettled(gen) ==
    reservations[gen].state \in {"reserved", "indeterminate", "released"}

OpenDespiteOverrun(gen) == reservations[gen].state \in HoldingStates

\* The states that settle and release accept.
Open(gen) == reservations[gen].state \in {"reserved", "indeterminate"}

Rows(gen) == { g \in Grants : held[gen][g] > 0 }

\* What the settlement loop charges a grant for a cost of the reservation.
SettledShare(gen, actual, g) ==
    IF g \in Rows(gen) THEN Share(actual, held[gen], Rows(gen), g) ELSE 0

\* ai_capacity_settle for a cost within the hold: settle the rows in the order of
\* the reservation and release what is left of each.
Settle(gen, evidence) ==
    LET share == [g \in Grants |-> SettledShare(gen, evidence.actual, g)] IN
    /\ Open(gen)
    /\ evidence.quote = reservations[gen].request.quote
    /\ evidence.actual <= reservations[gen].request.amount
    /\ Total(held[gen], Rows(gen)) >= evidence.actual
    /\ reservations' = [reservations EXCEPT
         ![gen].state = "settled", ![gen].settled = evidence.actual,
         ![gen].evidence = evidence]
    /\ spent' = [spent EXCEPT ![gen] =
         [g \in Grants |-> IF g \in Rows(gen) THEN share[g] ELSE Unset]]
    /\ ledger' = [ledger EXCEPT
         !.settled[gen]  = [g \in Grants |-> @[g] + share[g]],
         !.released[gen] = [g \in Grants |-> @[g] + held[gen][g] - share[g]]]
    /\ UNCHANGED <<clock, policy, entitlement, grants, held>>

\* ai_capacity_settle for a cost above the hold: keep the hold for reconciliation.
SettleOverrun(gen, evidence) ==
    /\ Open(gen)
    /\ evidence.quote = reservations[gen].request.quote
    /\ evidence.actual > reservations[gen].request.amount
    /\ reservations' = [reservations EXCEPT ![gen].state = "reconciliation_required"]
    /\ ledger' = [ledger EXCEPT !.overrun[gen] = evidence]
    /\ UNCHANGED <<clock, policy, entitlement, grants, held, spent>>

\* ai_capacity_release
Release(gen) ==
    /\ Open(gen)
    /\ reservations' = [reservations EXCEPT ![gen].state = "released",
                                            ![gen].settled = 0]
    /\ ledger' = [ledger EXCEPT
         !.released[gen] = [g \in Grants |-> @[g] + held[gen][g]]]
    /\ UNCHANGED <<clock, policy, entitlement, grants, held, spent>>

\* ai_capacity_mark_indeterminate
MarkIndeterminate(gen) ==
    /\ reservations[gen].state = "reserved"
    /\ reservations' = [reservations EXCEPT ![gen].state = "indeterminate"]
    /\ ledger' = [ledger EXCEPT !.doubted[gen] = @ + 1]
    /\ UNCHANGED <<clock, policy, entitlement, grants, held, spent>>

ReversePurchaseAgain(key, g) ==
    /\ grants[g].kind = "purchased"
    /\ grants' = [grants EXCEPT ![g].reversed = @ + Available(g)]
    /\ ledger' = [ledger EXCEPT !.reversal[key] = [grant |-> g, amount |-> Available(g)]]
    /\ UNCHANGED <<clock, policy, entitlement, reservations, held, spent>>

\* ai_capacity_reverse_purchase: take back what is neither consumed nor held.
ReversePurchase(key, g) ==
    /\ ledger.reversal[key] = None
    /\ grants[g].kind = "purchased"
    /\ grants' = [grants EXCEPT ![g].reversed = @ + Available(g)]
    /\ ledger' = [ledger EXCEPT !.reversal[key] = [grant |-> g, amount |-> Available(g)]]
    /\ UNCHANGED <<clock, policy, entitlement, reservations, held, spent>>

Next ==
    \/ Tick
    \/ SetActivationReady
    \/ \E expected \in 1..MaxRevision, choice \in PolicyChoices :
          UpdatePolicy(expected, choice)
    \/ \E choice \in EntitlementChoices : ProjectEntitlement(choice)
    \/ \E g \in Grants, package \in Packages, window \in Windows, amount \in Amounts :
          GrantIncluded(g, package, window, amount)
    \/ \E g \in Grants, expires \in Expiries, amount \in Amounts :
          GrantPurchased(g, expires, amount)
    \/ \E gen \in Generations, req \in Requests : Reserve(gen, req)
    \/ \E gen \in Generations, evidence \in Evidence : Settle(gen, evidence)
    \/ \E gen \in Generations, evidence \in Evidence : SettleOverrun(gen, evidence)
    \/ \E gen \in Generations : Release(gen)
    \/ \E gen \in Generations : MarkIndeterminate(gen)
    \/ \E key \in ReversalKeys, g \in Grants : ReversePurchase(key, g)

Spec == Init /\ [][Next]_vars

-----------------------------------------------------------------------------
\* ai_capacity_balance_snapshot: what the customer's meter shows.
ActiveGrants == { g \in Grants : Active(g) }

TotalGranted ==
    Total([g \in Grants |-> GreaterOf(0, grants[g].granted - grants[g].reversed)],
          ActiveGrants)

\* Consumed and held capacity of a grant, summed over reservations in some states.
UsageIn(states, g) ==
    Total([gen \in Generations |->
             IF reservations[gen].state \in states THEN Charge(gen, g) ELSE 0],
          Generations)

TotalHeldWhileOpen ==
    Total([g \in Grants |-> UsageIn({"reserved", "indeterminate"}, g)], ActiveGrants)

TotalHeld     == Total([g \in Grants |-> UsageIn(HoldingStates, g)], ActiveGrants)
TotalConsumed == Total([g \in Grants |-> UsageIn({"settled"}, g)], ActiveGrants)

Spendable == GreaterOf(0, TotalGranted - TotalConsumed - TotalHeld)

RemainingPercent ==
    IF TotalGranted = 0 THEN None ELSE (Spendable * 100) \div TotalGranted

-----------------------------------------------------------------------------
\* Every row has the shape its table gives it.
TypeOK ==
    /\ clock \in 0..MaxClock
    /\ policy \in Policies
    /\ entitlement \in Entitlements
    /\ grants \in [Grants -> GrantRows \cup {NoGrant}]
    /\ reservations \in [Generations -> Reservations]
    /\ held \in [Generations -> [Grants -> Nat]]
    /\ spent \in [Generations -> [Grants -> Nat \cup {Unset}]]
    /\ ledger \in Ledgers

\* No grant is ever overdrawn: what reservations hold or have consumed and what
\* was reversed never exceed what was granted, whatever the order of grants,
\* holds, settlements, releases and refunds.  (greatest(0, ...) in the RPCs
\* would hide an overdraft, so it has to be ruled out.)
NoOverdraft ==
    \A g \in Grants : Charged(g) + grants[g].reversed <= grants[g].granted

\* The allocation rows of a reservation add up to the amount it holds, so that
\* "ai_capacity_allocation_incomplete" cannot stop a settlement within the hold,
\* and a settled one charges its grants exactly the reported cost.
HeldAndSettledExactly ==
    \A gen \in Generations :
        /\ reservations[gen].state # "none" =>
             Total(held[gen], Grants) = reservations[gen].request.amount
        /\ reservations[gen].state = "settled" =>
             /\ Total([g \in Grants |-> Charge(gen, g)], Grants)
                  = reservations[gen].evidence.actual
             /\ reservations[gen].settled = reservations[gen].evidence.actual

\* The append-only events explain the projection: what a reservation charges a
\* grant is what was reserved on it minus what was released to it, each once.
LedgerExplainsCharges ==
    \A gen \in Generations, g \in Grants :
        /\ Charge(gen, g) + ledger.released[gen][g] = ledger.created[gen][g]
        /\ reservations[gen].state = "settled" =>
             ledger.settled[gen][g] = Charge(gen, g)

\* Included capacity is used before purchased capacity, and kept: a settlement
\* charges purchased credit only when the included hold was used up.
IncludedIsSpentFirst ==
    \A gen \in Generations, g, h \in Grants :
        /\ reservations[gen].state = "settled"
        /\ Included(g) /\ ~Included(h)
        /\ Charge(gen, h) > 0
        => Charge(gen, g) = held[gen][g]

\* A period has one included allowance, however often its worker is retried, and a
\* reservation never debits that of another period or package, even when it is
\* settled after its period ended.
OneAllowancePerPeriod ==
    /\ \A g, h \in Grants :
          Included(g) /\ Included(h) /\ grants[g].window.period = grants[h].window.period
              => g = h
    /\ \A gen \in Generations, g \in Grants :
          held[gen][g] > 0 /\ Included(g) =>
              /\ grants[g].window.period = reservations[gen].request.period
              /\ grants[g].package = reservations[gen].request.package

\* A settled, released or overrun reservation and its evidence never change
\* again: reconciliation settles or releases exactly once.
FinalIsFinal ==
    [][\A gen \in Generations : reservations[gen].state \in FinalStates =>
          /\ reservations'[gen] = reservations[gen]
          /\ \A g \in Grants : Charge(gen, g)' = Charge(gen, g)]_vars

\* A refund or dispute is applied once per reversal key: what was taken back from
\* a grant is the sum of the reversals the ledger records for it.
RefundsAddUp ==
    \A g \in Grants :
        Total([key \in ReversalKeys |->
                 IF ledger.reversal[key] # None /\ ledger.reversal[key].grant = g
                 THEN ledger.reversal[key].amount ELSE 0], ReversalKeys)
          = grants[g].reversed

\* The customer's meter never shows capacity that is committed to a call in
\* flight or unresolved, and never hides capacity a reservation could still get.
MeterIsHonest ==
    /\ Spendable = Total([g \in Grants |-> Available(g)], ActiveGrants)
    /\ \A period \in Periods, package \in Packages :
         Total([g \in Grants |-> Available(g)], Eligible(period, package)) <= Spendable
    /\ RemainingPercent # None => RemainingPercent \in 0..100

\* Purchased capacity that was reversed and not consumed becomes unavailable.
ReversedPurchaseIsUnavailable ==
    \A key \in ReversalKeys :
        ledger.reversal[key] # None => Available(ledger.reversal[key].grant) = 0

-----------------------------------------------------------------------------
\* The account a caller may think of instead of rows and events.
Account == INSTANCE CapacityAccount WITH
    Accounts <- Grants,
    Holders  <- Generations,
    credit   <- [g \in Grants |-> grants[g].granted - grants[g].reversed],
    charge   <- [gen \in Generations |-> [g \in Grants |-> Charge(gen, g)]],
    phase    <- [gen \in Generations |->
                   IF reservations[gen].state = "none" THEN "free"
                   ELSE IF reservations[gen].state \in FinalStates THEN "closed"
                   ELSE "held"]

\* The ledger implements the account: every RPC is one legal step of it, or none.
ImplementsAccount == Account!AccountSpec
=============================================================================
