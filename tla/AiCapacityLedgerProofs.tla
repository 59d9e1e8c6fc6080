----------------------- MODULE AiCapacityLedgerProofs -----------------------
(***************************************************************************)
(* What AiCapacityLedger promises for any number of grants, generations,   *)
(* packages, periods and amounts.  The heart of it is NoOverdraft: with    *)
(* TypeOK it is inductive, because a reservation takes at most what is     *)
(* available and a refund exactly what is available.                       *)
(***************************************************************************)
EXTENDS AiCapacityLedger, TotalsTheorems

USE CapacityDomains

-----------------------------------------------------------------------------
(* The operators of the ledger.                                            *)

ChargesAreNat == \A gen \in Generations, g \in Grants : Charge(gen, g) \in Nat

\* What a reservation charges a grant is a natural amount.
LEMMA ChargeIsNat == TypeOK => ChargesAreNat
<1> SUFFICES ASSUME TypeOK, NEW gen \in Generations, NEW g \in Grants
             PROVE  Charge(gen, g) \in Nat
  BY DEF ChargesAreNat
<1>1. held[gen][g] \in Nat /\ spent[gen][g] \in Nat \cup {Unset}
  BY DEF TypeOK
<1>2. QED
  BY <1>1 DEF Charge

\* So are the total charged to a grant and what is left of it.
LEMMA AvailableIsNat ==
  ASSUME TypeOK
  PROVE  \A g \in Grants :
           /\ Charged(g) \in Nat
           /\ grants[g].granted \in Nat /\ grants[g].reversed \in Nat
           /\ Available(g) \in Nat
<1> SUFFICES ASSUME NEW g \in Grants
             PROVE  /\ Charged(g) \in Nat
                    /\ grants[g].granted \in Nat /\ grants[g].reversed \in Nat
                    /\ Available(g) \in Nat
  OBVIOUS
<1> DEFINE charge == [gen \in Generations |-> Charge(gen, g)]
<1>1. \A gen \in Generations : charge[gen] \in Nat
  BY ChargeIsNat DEF ChargesAreNat
<1>2. Total(charge, Generations) \in Nat
  <2> HIDE DEF charge
  <2>1. QED
    BY <1>1, TotalIsNat
<1>3. Charged(g) \in Nat
  BY <1>2 DEF Charged
<1>4. grants[g].granted \in Nat /\ grants[g].reversed \in Nat
  BY DEF TypeOK, GrantRows, NoGrant
<1>5. QED
  BY <1>3, <1>4 DEF Available, GreaterOf

\* A share is natural and never above the limit of its row.
LEMMA ShareIsBounded ==
  ASSUME NEW amount \in Nat, NEW limit \in [Grants -> Nat],
         NEW rows \in SUBSET Grants, NEW g \in Grants
  PROVE  /\ Share(amount, limit, rows, g) \in Nat
         /\ Share(amount, limit, rows, g) <= limit[g]
<1> DEFINE before == { h \in rows : Precedes(h, g) }
<1>1. IsFiniteSet(before)
  BY FS_Subset
<1>2. Total(limit, before) \in Nat
  <2>1. \A h \in before : limit[h] \in Nat
    OBVIOUS
  <2> HIDE DEF before
  <2>2. QED
    BY <1>1, <2>1, TotalIsNat
<1>3. limit[g] \in Nat
  OBVIOUS
<1> HIDE DEF before
<1>4. QED
  BY <1>2, <1>3 DEF Share, LesserOf, GreaterOf, before

\* A reservation takes from each grant at most what is available there.
LEMMA TakeIsBounded ==
  ASSUME TypeOK, NEW req \in Requests
  PROVE  /\ Take(req) \in [Grants -> Nat]
         /\ \A g \in Grants : Take(req)[g] <= Available(g)
<1> DEFINE rows  == Eligible(req.period, req.package)
           limit == [g \in Grants |-> Available(g)]
<1>1. limit \in [Grants -> Nat]
  BY AvailableIsNat
<1>2. rows \in SUBSET Grants
  BY DEF Eligible
<1>3. req.amount \in Nat
  BY DEF Requests
<1>4. Take(req) =
        [g \in Grants |-> IF g \in rows THEN Share(req.amount, limit, rows, g) ELSE 0]
  BY DEF Take
<1>5. \A g \in Grants : limit[g] = Available(g) /\ Available(g) \in Nat
  BY AvailableIsNat
<1> HIDE DEF rows, limit
<1>6. \A g \in Grants : /\ Share(req.amount, limit, rows, g) \in Nat
                        /\ Share(req.amount, limit, rows, g) <= limit[g]
  BY <1>1, <1>2, <1>3, ShareIsBounded
<1>7. QED
  BY <1>4, <1>5, <1>6

\* A settlement charges each row at most its hold.
LEMMA SettledShareIsBounded ==
  ASSUME TypeOK, NEW gen \in Generations, NEW evidence \in Evidence,
         NEW g \in Grants
  PROVE  /\ held[gen][g] \in Nat
         /\ SettledShare(gen, evidence.actual, g) \in Nat
         /\ SettledShare(gen, evidence.actual, g) <= held[gen][g]
<1>1. evidence.actual \in Nat
  BY DEF Evidence
<1>2. held[gen] \in [Grants -> Nat]
  BY DEF TypeOK
<1>3. Rows(gen) \in SUBSET Grants
  BY DEF Rows
<1>4. /\ Share(evidence.actual, held[gen], Rows(gen), g) \in Nat
      /\ Share(evidence.actual, held[gen], Rows(gen), g) <= held[gen][g]
  BY <1>1, <1>2, <1>3, ShareIsBounded
<1>5. held[gen][g] \in Nat
  BY <1>2
<1>6. QED
  BY <1>4, <1>5 DEF SettledShare

-----------------------------------------------------------------------------
(* Type correctness.                                                       *)

LEMMA InitTyped == Init => TypeOK
<1> SUFFICES ASSUME Init PROVE TypeOK
  OBVIOUS
<1>1. clock \in 0..MaxClock
  BY DEF Init
<1>2. policy \in Policies
  BY DEF Init, Policies, Budgets
<1>3. entitlement \in Entitlements
  BY DEF Init, Entitlements
<1>4. grants \in [Grants -> GrantRows \cup {NoGrant}]
  BY DEF Init
<1>5. reservations \in [Generations -> Reservations]
  BY DEF Init, Reservations, NoReservation, States
<1>6. held \in [Generations -> [Grants -> Nat]]
  BY DEF Init, NoRows
<1>7. spent \in [Generations -> [Grants -> Nat \cup {Unset}]]
  BY DEF Init
<1>8. ledger \in Ledgers
  BY DEF Init, Ledgers, NoRows
<1>9. QED
  BY <1>1, <1>2, <1>3, <1>4, <1>5, <1>6, <1>7, <1>8 DEF TypeOK

LEMMA StepTyped == TypeOK /\ [Next]_vars => TypeOK'
<1> SUFFICES ASSUME TypeOK, [Next]_vars PROVE TypeOK'
  OBVIOUS
<1>1. CASE Tick
  BY <1>1 DEF Tick, TypeOK
<1>2. CASE SetActivationReady
  BY <1>2 DEF SetActivationReady, TypeOK, Policies
<1>3. ASSUME NEW expected \in 1..MaxRevision, NEW choice \in PolicyChoices,
             UpdatePolicy(expected, choice)
      PROVE  TypeOK'
  <2>1. policy' \in Policies
    BY <1>3 DEF UpdatePolicy, TypeOK, Policies, Budgets
  <2>2. QED
    BY <1>3, <2>1 DEF UpdatePolicy, TypeOK
<1>4. ASSUME NEW choice \in EntitlementChoices, ProjectEntitlement(choice)
      PROVE  TypeOK'
  <2>1. entitlement' \in Entitlements
    BY <1>4 DEF ProjectEntitlement, TypeOK, Entitlements
  <2>2. QED
    BY <1>4, <2>1 DEF ProjectEntitlement, TypeOK
<1>5. ASSUME NEW g \in Grants, NEW row \in GrantRows, AddGrant(g, row)
      PROVE  TypeOK'
  <2>1. grants' \in [Grants -> GrantRows \cup {NoGrant}]
    BY <1>5 DEF AddGrant, TypeOK
  <2>2. ledger' \in Ledgers
    <3>1. ledger \in Ledgers /\ row.granted \in Nat
      BY DEF TypeOK, GrantRows
    <3>2. [ledger.granted EXCEPT ![g] = @ + row.granted] \in [Grants -> Nat]
      BY <3>1 DEF Ledgers
    <3>3. QED
      BY <1>5, <3>1, <3>2 DEF AddGrant, Ledgers
  <2>3. QED
    BY <1>5, <2>1, <2>2 DEF AddGrant, TypeOK
<1>6. ASSUME NEW g \in Grants, NEW package \in Packages, NEW window \in Windows,
             NEW amount \in Amounts, GrantIncluded(g, package, window, amount)
      PROVE  TypeOK'
  BY <1>5, <1>6 DEF GrantIncluded, GrantRows
<1>7. ASSUME NEW g \in Grants, NEW expires \in Expiries, NEW amount \in Amounts,
             GrantPurchased(g, expires, amount)
      PROVE  TypeOK'
  BY <1>5, <1>7 DEF GrantPurchased, GrantRows
<1>8. ASSUME NEW gen \in Generations, NEW req \in Requests, Reserve(gen, req)
      PROVE  TypeOK'
  <2>1. Take(req) \in [Grants -> Nat]
    BY TakeIsBounded
  <2>2. reservations' \in [Generations -> Reservations]
    BY <1>8 DEF Reserve, TypeOK, Reservations, States
  <2>3. held' \in [Generations -> [Grants -> Nat]]
    BY <1>8, <2>1 DEF Reserve, TypeOK
  <2>4. ledger' \in Ledgers
    <3>1. ledger \in Ledgers
      BY DEF TypeOK
    <3>2. [ledger.created EXCEPT ![gen] = [g \in Grants |-> @[g] + Take(req)[g]]]
            \in [Generations -> [Grants -> Nat]]
      BY <2>1, <3>1 DEF Ledgers
    <3>3. QED
      BY <1>8, <3>1, <3>2 DEF Reserve, Ledgers
  <2>5. QED
    BY <1>8, <2>2, <2>3, <2>4 DEF Reserve, TypeOK
<1>9. ASSUME NEW gen \in Generations, NEW evidence \in Evidence,
             Settle(gen, evidence)
      PROVE  TypeOK'
  <2> DEFINE share == [g \in Grants |-> SettledShare(gen, evidence.actual, g)]
  <2>1. /\ share \in [Grants -> Nat]
        /\ \A g \in Grants : held[gen][g] \in Nat /\ share[g] <= held[gen][g]
    BY SettledShareIsBounded
  <2>2. reservations' \in [Generations -> Reservations]
    <3>1. reservations[gen] \in Reservations
      BY DEF TypeOK
    <3>2. [reservations[gen] EXCEPT !.state = "settled",
             !.settled = evidence.actual, !.evidence = evidence] \in Reservations
      BY <3>1 DEF Reservations, States, Evidence
    <3>3. QED
      BY <1>9, <3>2 DEF Settle, TypeOK
  <2>3. spent' = [spent EXCEPT ![gen] =
                    [g \in Grants |-> IF g \in Rows(gen) THEN share[g] ELSE Unset]]
    BY <1>9 DEF Settle
  <2>4. ledger' = [ledger EXCEPT
                     !.settled[gen]  = [g \in Grants |-> @[g] + share[g]],
                     !.released[gen] = [g \in Grants |-> @[g] + held[gen][g] - share[g]]]
    BY <1>9 DEF Settle
  <2> HIDE DEF share
  <2>5. spent' \in [Generations -> [Grants -> Nat \cup {Unset}]]
    BY <2>1, <2>3 DEF TypeOK
  <2>6. ledger' \in Ledgers
    <3>1. [g \in Grants |-> ledger.settled[gen][g] + share[g]] \in [Grants -> Nat]
      BY <2>1 DEF TypeOK, Ledgers
    <3>2. [g \in Grants |-> ledger.released[gen][g] + held[gen][g] - share[g]]
            \in [Grants -> Nat]
      BY <2>1 DEF TypeOK, Ledgers
    <3>3. ledger \in Ledgers
      BY DEF TypeOK
    <3>4. QED
      BY <2>4, <3>1, <3>2, <3>3 DEF Ledgers
  <2>7. QED
    BY <1>9, <2>2, <2>5, <2>6 DEF Settle, TypeOK
<1>10. ASSUME NEW gen \in Generations, NEW evidence \in Evidence,
              SettleOverrun(gen, evidence)
       PROVE  TypeOK'
  <2>1. reservations' \in [Generations -> Reservations]
    <3>1. reservations[gen] \in Reservations
      BY DEF TypeOK
    <3>2. [reservations[gen] EXCEPT !.state = "reconciliation_required"] \in Reservations
      BY <3>1 DEF Reservations, States
    <3>3. QED
      BY <1>10, <3>2 DEF SettleOverrun, TypeOK
  <2>2. ledger' \in Ledgers
    BY <1>10 DEF SettleOverrun, TypeOK, Ledgers
  <2>3. QED
    BY <1>10, <2>1, <2>2 DEF SettleOverrun, TypeOK
<1>11. ASSUME NEW gen \in Generations, Release(gen)
       PROVE  TypeOK'
  <2>1. reservations' \in [Generations -> Reservations]
    <3>1. reservations[gen] \in Reservations
      BY DEF TypeOK
    <3>2. [reservations[gen] EXCEPT !.state = "released", !.settled = 0] \in Reservations
      BY <3>1 DEF Reservations, States
    <3>3. QED
      BY <1>11, <3>2 DEF Release, TypeOK
  <2>2. ledger' \in Ledgers
    <3>1. ledger \in Ledgers /\ held[gen] \in [Grants -> Nat]
      BY DEF TypeOK
    <3>2. [ledger.released EXCEPT ![gen] = [g \in Grants |-> @[g] + held[gen][g]]]
            \in [Generations -> [Grants -> Nat]]
      BY <3>1 DEF Ledgers
    <3>3. QED
      BY <1>11, <3>1, <3>2 DEF Release, Ledgers
  <2>3. QED
    BY <1>11, <2>1, <2>2 DEF Release, TypeOK
<1>12. ASSUME NEW gen \in Generations, MarkIndeterminate(gen)
       PROVE  TypeOK'
  <2>1. reservations' \in [Generations -> Reservations]
    <3>1. reservations[gen] \in Reservations
      BY DEF TypeOK
    <3>2. [reservations[gen] EXCEPT !.state = "indeterminate"] \in Reservations
      BY <3>1 DEF Reservations, States
    <3>3. QED
      BY <1>12, <3>2 DEF MarkIndeterminate, TypeOK
  <2>2. ledger' \in Ledgers
    <3>1. ledger \in Ledgers
      BY DEF TypeOK
    <3>2. [ledger.doubted EXCEPT ![gen] = @ + 1] \in [Generations -> Nat]
      BY <3>1 DEF Ledgers
    <3>3. QED
      BY <1>12, <3>1, <3>2 DEF MarkIndeterminate, Ledgers
  <2>3. QED
    BY <1>12, <2>1, <2>2 DEF MarkIndeterminate, TypeOK
<1>13. ASSUME NEW key \in ReversalKeys, NEW g \in Grants, ReversePurchase(key, g)
       PROVE  TypeOK'
  <2>1. Available(g) \in Nat
    BY AvailableIsNat
  <2>2. grants' \in [Grants -> GrantRows \cup {NoGrant}]
    <3>1. grants[g] \in GrantRows
      BY <1>13 DEF ReversePurchase, TypeOK, NoGrant
    <3>2. [grants[g] EXCEPT !.reversed = @ + Available(g)] \in GrantRows
      BY <2>1, <3>1 DEF GrantRows
    <3>3. QED
      BY <1>13, <3>2 DEF ReversePurchase, TypeOK
  <2>3. ledger' \in Ledgers
    BY <1>13, <2>1 DEF ReversePurchase, TypeOK, Ledgers
  <2>4. QED
    BY <1>13, <2>2, <2>3 DEF ReversePurchase, TypeOK
<1>14. CASE UNCHANGED vars
  BY <1>14 DEF vars, TypeOK
<1>15. QED
  BY <1>1, <1>2, <1>3, <1>4, <1>6, <1>7, <1>8, <1>9, <1>10, <1>11, <1>12, <1>13, <1>14
     DEF Next

\* The rows keep the shape their tables give them, on every run of the ledger.
THEOREM Typed == Spec => []TypeOK
<1>1. QED
  BY InitTyped, StepTyped, PTL DEF Spec

-----------------------------------------------------------------------------
(* No overdraft.                                                           *)

\* A reservation that is not touched charges what it charged before.
LEMMA ChargeFrame ==
  ASSUME NEW gen, reservations'[gen] = reservations[gen],
         held'[gen] = held[gen], spent'[gen] = spent[gen], NEW g
  PROVE  Charge(gen, g)' = Charge(gen, g)
BY DEF Charge

\* When one reservation changes, a grant's charge changes by the difference.
LEMMA ChargedUpdate ==
  ASSUME TypeOK, TypeOK', NEW gen \in Generations, NEW g \in Grants,
         \A other \in Generations \ {gen} : Charge(other, g)' = Charge(other, g)
  PROVE  Charged(g)' = Charged(g) - Charge(gen, g) + Charge(gen, g)'
<1> DEFINE before == [x \in Generations |-> Charge(x, g)]
           after  == [x \in Generations |-> Charge(x, g)']
<1>1. \A x \in Generations : before[x] \in Nat
  BY ChargeIsNat DEF ChargesAreNat
<1>2. \A x \in Generations : after[x] \in Nat
  <2>1. ChargesAreNat'
    BY ChargeIsNat, PTL
  <2>2. QED
    BY <2>1 DEF ChargesAreNat
<1>3. \A x \in Generations \ {gen} : before[x] = after[x]
  OBVIOUS
<1>4. /\ Charged(g) = Total(before, Generations)
      /\ Charged(g)' = Total(after, Generations)
      /\ before[gen] = Charge(gen, g) /\ after[gen] = Charge(gen, g)'
  BY DEF Charged
<1> HIDE DEF before, after
<1>5. Total(after, Generations) = Total(before, Generations) - before[gen] + after[gen]
  BY <1>1, <1>2, <1>3, TotalUpdate
<1>6. QED
  BY <1>4, <1>5

\* Steps that leave the reservations alone leave the charges alone.
LEMMA ChargesUnchanged ==
  ASSUME UNCHANGED <<reservations, held, spent>>
  PROVE  \A g \in Grants : /\ Charged(g)' = Charged(g)
                           /\ \A gen \in Generations : Charge(gen, g)' = Charge(gen, g)
BY DEF Charged, Charge

\* A settlement charges each grant at most what was held there.
LEMMA SettleLowersCharges ==
  ASSUME TypeOK, NEW gen \in Generations, NEW evidence \in Evidence,
         Settle(gen, evidence), NEW g \in Grants
  PROVE  /\ Charge(gen, g) = held[gen][g]
         /\ Charge(gen, g)' = SettledShare(gen, evidence.actual, g)
         /\ Charge(gen, g)' <= Charge(gen, g)
<1>1. Charge(gen, g) = held[gen][g]
  BY DEF Settle, Open, Charge, HoldingStates
<1>2. reservations'[gen].state = "settled" /\ held' = held
  BY DEF Settle, TypeOK, Reservations
<1>3. /\ held[gen][g] \in Nat
      /\ SettledShare(gen, evidence.actual, g) \in Nat
      /\ SettledShare(gen, evidence.actual, g) <= held[gen][g]
  BY SettledShareIsBounded
<1>4. spent'[gen][g] = IF g \in Rows(gen) THEN SettledShare(gen, evidence.actual, g)
                                          ELSE Unset
  BY DEF Settle, TypeOK
<1>5. Charge(gen, g)' = IF spent'[gen][g] = Unset THEN held[gen][g] ELSE spent'[gen][g]
  BY <1>2 DEF Charge, HoldingStates
<1>6. CASE g \in Rows(gen)
  BY <1>1, <1>3, <1>4, <1>5, <1>6 DEF Unset
<1>7. CASE g \notin Rows(gen)
  <2>1. held[gen][g] = 0
    BY <1>3, <1>7 DEF Rows
  <2>2. QED
    BY <1>1, <1>4, <1>5, <1>7, <2>1 DEF SettledShare
<1>8. QED
  BY <1>6, <1>7

LEMMA InitNoOverdraft == Init => NoOverdraft
<1> SUFFICES ASSUME Init, NEW g \in Grants
             PROVE  Charged(g) + grants[g].reversed <= grants[g].granted
  BY DEF NoOverdraft
<1> DEFINE charge == [gen \in Generations |-> Charge(gen, g)]
<1>1. \A gen \in Generations : charge[gen] = 0
  BY DEF Init, NoReservation, Charge, HoldingStates
<1>2. Total(charge, Generations) = 0
  <2> HIDE DEF charge
  <2>1. QED
    BY <1>1, TotalZero
<1>3. Charged(g) = 0
  BY <1>2 DEF Charged
<1>4. grants[g].granted = 0 /\ grants[g].reversed = 0
  BY DEF Init, NoGrant
<1>5. QED
  BY <1>3, <1>4

\* A reservation that did not exist charges nothing, so a grant's charge grows
\* by what is taken, and what is taken is at most what is available.
LEMMA ReserveNoOverdraft ==
  ASSUME TypeOK, TypeOK', NoOverdraft, NEW gen \in Generations, NEW req \in Requests,
         Reserve(gen, req)
  PROVE  NoOverdraft'
<1> SUFFICES ASSUME NEW g \in Grants
             PROVE  Charged(g)' + grants'[g].reversed <= grants'[g].granted
  BY DEF NoOverdraft
<1>1. grants' = grants
  BY DEF Reserve
<1>2. Charge(gen, g) = 0
  BY DEF Reserve, Charge, HoldingStates
<1>3. Charge(gen, g)' = Take(req)[g]
  <2>1. reservations'[gen].state = "reserved"
    BY DEF Reserve, TypeOK
  <2>2. held'[gen] = Take(req)
    BY DEF Reserve, TypeOK
  <2>3. QED
    BY <2>1, <2>2 DEF Charge, HoldingStates
<1>4. \A other \in Generations \ {gen} : Charge(other, g)' = Charge(other, g)
  BY ChargeFrame DEF Reserve, TypeOK
<1>5. Charged(g)' = Charged(g) - Charge(gen, g) + Charge(gen, g)'
  BY <1>4, ChargedUpdate
<1>6. Take(req)[g] \in Nat /\ Take(req)[g] <= Available(g)
  BY TakeIsBounded
<1>7. /\ Charged(g) \in Nat /\ Available(g) \in Nat
      /\ grants[g].granted \in Nat /\ grants[g].reversed \in Nat
  BY AvailableIsNat
<1>8. Charged(g) + grants[g].reversed <= grants[g].granted
  BY DEF NoOverdraft
<1>9. Available(g) = grants[g].granted - grants[g].reversed - Charged(g)
  BY <1>7, <1>8 DEF Available, GreaterOf
<1>10. QED
  BY <1>1, <1>2, <1>3, <1>5, <1>6, <1>7, <1>8, <1>9

\* A step of one reservation that raises no charge overdraws nothing.
LEMMA LowerChargeNoOverdraft ==
  ASSUME TypeOK, TypeOK', NoOverdraft, NEW gen \in Generations,
         UNCHANGED grants,
         \A other \in Generations \ {gen} :
            /\ reservations'[other] = reservations[other]
            /\ held'[other] = held[other] /\ spent'[other] = spent[other],
         \A g \in Grants : Charge(gen, g)' <= Charge(gen, g)
  PROVE  NoOverdraft'
<1> SUFFICES ASSUME NEW g \in Grants
             PROVE  Charged(g)' + grants'[g].reversed <= grants'[g].granted
  BY DEF NoOverdraft
<1>1. \A other \in Generations \ {gen} : Charge(other, g)' = Charge(other, g)
  BY ChargeFrame
<1>2. Charged(g)' = Charged(g) - Charge(gen, g) + Charge(gen, g)'
  BY <1>1, ChargedUpdate
<1>3. Charge(gen, g) \in Nat /\ Charge(gen, g)' \in Nat
  <2>1. ChargesAreNat /\ ChargesAreNat'
    BY ChargeIsNat, PTL
  <2>2. QED
    BY <2>1 DEF ChargesAreNat
<1>4. /\ Charged(g) \in Nat
      /\ grants[g].granted \in Nat /\ grants[g].reversed \in Nat
  BY AvailableIsNat
<1>5. Charged(g) + grants[g].reversed <= grants[g].granted
  BY DEF NoOverdraft
<1>6. QED
  BY <1>2, <1>3, <1>4, <1>5

LEMMA StepNoOverdraft ==
  TypeOK /\ TypeOK' /\ NoOverdraft /\ [Next]_vars => NoOverdraft'
<1> SUFFICES ASSUME TypeOK, TypeOK', NoOverdraft, [Next]_vars PROVE NoOverdraft'
  OBVIOUS
<1>1. ASSUME UNCHANGED <<grants, reservations, held, spent>>
      PROVE  NoOverdraft'
  BY <1>1, ChargesUnchanged DEF NoOverdraft
<1>2. CASE Tick
  BY <1>1, <1>2 DEF Tick
<1>3. CASE SetActivationReady
  BY <1>1, <1>3 DEF SetActivationReady
<1>4. ASSUME NEW expected \in 1..MaxRevision, NEW choice \in PolicyChoices,
             UpdatePolicy(expected, choice)
      PROVE  NoOverdraft'
  BY <1>1, <1>4 DEF UpdatePolicy
<1>5. ASSUME NEW choice \in EntitlementChoices, ProjectEntitlement(choice)
      PROVE  NoOverdraft'
  BY <1>1, <1>5 DEF ProjectEntitlement
<1>6. ASSUME NEW g \in Grants, NEW row \in GrantRows, row.reversed = 0, AddGrant(g, row)
      PROVE  NoOverdraft'
  <2> SUFFICES ASSUME NEW h \in Grants
               PROVE  Charged(h)' + grants'[h].reversed <= grants'[h].granted
    BY DEF NoOverdraft
  <2>1. Charged(h)' = Charged(h) /\ Charged(h) \in Nat
    BY <1>6, ChargesUnchanged, AvailableIsNat DEF AddGrant
  <2>2. Charged(h) + grants[h].reversed <= grants[h].granted
    BY DEF NoOverdraft
  <2>3. CASE h = g
    <3>1. grants[g] = NoGrant
      BY <1>6 DEF AddGrant, Exists, TypeOK, GrantRows
    <3>2. Charged(h) = 0
      BY <2>1, <2>2, <2>3, <3>1 DEF NoGrant
    <3>3. grants'[h] = row
      BY <1>6, <2>3 DEF AddGrant, TypeOK
    <3>4. QED
      BY <1>6, <2>1, <3>2, <3>3 DEF GrantRows
  <2>4. CASE h # g
    <3>1. grants'[h] = grants[h]
      BY <1>6, <2>4 DEF AddGrant, TypeOK
    <3>2. QED
      BY <2>1, <2>2, <3>1
  <2>5. QED
    BY <2>3, <2>4
<1>7. ASSUME NEW g \in Grants, NEW package \in Packages, NEW window \in Windows,
             NEW amount \in Amounts, GrantIncluded(g, package, window, amount)
      PROVE  NoOverdraft'
  BY <1>6, <1>7 DEF GrantIncluded, GrantRows
<1>8. ASSUME NEW g \in Grants, NEW expires \in Expiries, NEW amount \in Amounts,
             GrantPurchased(g, expires, amount)
      PROVE  NoOverdraft'
  BY <1>6, <1>8 DEF GrantPurchased, GrantRows
<1>9. ASSUME NEW gen \in Generations, NEW req \in Requests, Reserve(gen, req)
      PROVE  NoOverdraft'
  BY <1>9, ReserveNoOverdraft
<1>10. ASSUME NEW gen \in Generations, NEW evidence \in Evidence,
              Settle(gen, evidence)
       PROVE  NoOverdraft'
  <2>1. \A g \in Grants : Charge(gen, g)' <= Charge(gen, g)
    BY <1>10, SettleLowersCharges
  <2>2. QED
    BY <1>10, <2>1, LowerChargeNoOverdraft DEF Settle, TypeOK
<1>11. ASSUME NEW gen \in Generations, NEW evidence \in Evidence,
              SettleOverrun(gen, evidence)
       PROVE  NoOverdraft'
  <2>1. \A g \in Grants : Charge(gen, g)' = Charge(gen, g)
    BY <1>11 DEF SettleOverrun, Open, Charge, HoldingStates, TypeOK, Reservations
  <2>2. \A g \in Grants : Charge(gen, g)' <= Charge(gen, g)
    BY <2>1, ChargeIsNat DEF ChargesAreNat
  <2>3. QED
    BY <1>11, <2>2, LowerChargeNoOverdraft DEF SettleOverrun, TypeOK
<1>12. ASSUME NEW gen \in Generations, Release(gen)
       PROVE  NoOverdraft'
  <2>1. \A g \in Grants : Charge(gen, g)' = 0
    BY <1>12 DEF Release, Charge, HoldingStates, TypeOK, Reservations
  <2>2. \A g \in Grants : Charge(gen, g)' <= Charge(gen, g)
    BY <2>1, ChargeIsNat DEF ChargesAreNat
  <2>3. QED
    BY <1>12, <2>2, LowerChargeNoOverdraft DEF Release, TypeOK
<1>13. ASSUME NEW gen \in Generations, MarkIndeterminate(gen)
       PROVE  NoOverdraft'
  <2>1. \A g \in Grants : Charge(gen, g)' = Charge(gen, g)
    BY <1>13 DEF MarkIndeterminate, Charge, HoldingStates, TypeOK, Reservations
  <2>2. \A g \in Grants : Charge(gen, g)' <= Charge(gen, g)
    BY <2>1, ChargeIsNat DEF ChargesAreNat
  <2>3. QED
    BY <1>13, <2>2, LowerChargeNoOverdraft DEF MarkIndeterminate, TypeOK
<1>14. ASSUME NEW key \in ReversalKeys, NEW g \in Grants, ReversePurchase(key, g)
       PROVE  NoOverdraft'
  <2> SUFFICES ASSUME NEW h \in Grants
               PROVE  Charged(h)' + grants'[h].reversed <= grants'[h].granted
    BY DEF NoOverdraft
  <2>1. Charged(h)' = Charged(h)
    BY <1>14, ChargesUnchanged DEF ReversePurchase
  <2>2. Charged(h) + grants[h].reversed <= grants[h].granted
    BY DEF NoOverdraft
  <2>3. /\ Charged(h) \in Nat /\ Available(h) \in Nat
        /\ grants[h].granted \in Nat /\ grants[h].reversed \in Nat
    BY AvailableIsNat
  <2>4. CASE h = g
    <3>1. Available(h) = grants[h].granted - grants[h].reversed - Charged(h)
      BY <2>2, <2>3 DEF Available, GreaterOf
    <3>2. grants[g] \in GrantRows
      BY <1>14 DEF ReversePurchase, TypeOK, NoGrant
    <3>3. grants'[g] = [grants[g] EXCEPT !.reversed = @ + Available(g)]
      BY <1>14 DEF ReversePurchase, TypeOK
    <3>4. /\ grants'[g].granted = grants[g].granted
          /\ grants'[g].reversed = grants[g].reversed + Available(g)
      BY <3>2, <3>3 DEF GrantRows
    <3>5. QED
      BY <2>1, <2>2, <2>3, <2>4, <3>1, <3>4
  <2>5. CASE h # g
    <3>1. grants'[h] = grants[h]
      BY <1>14, <2>5 DEF ReversePurchase, TypeOK
    <3>2. QED
      BY <2>1, <2>2, <3>1
  <2>6. QED
    BY <2>4, <2>5
<1>15. CASE UNCHANGED vars
  BY <1>1, <1>15 DEF vars
<1>16. QED
  BY <1>2, <1>3, <1>4, <1>5, <1>7, <1>8, <1>9, <1>10, <1>11, <1>12, <1>13, <1>14,
     <1>15 DEF Next

\* No grant is ever overdrawn.
THEOREM NeverOverdrawn == Spec => []NoOverdraft
<1>1. Spec => []TypeOK
  BY Typed
<1>2. QED
  BY <1>1, InitNoOverdraft, StepNoOverdraft, PTL DEF Spec

-----------------------------------------------------------------------------
(* The events explain the balances.                                        *)

\* LedgerExplainsCharges alone is not inductive: a settlement writes its amount
\* on top of whatever was settled before, so an open reservation must not have
\* settled anything yet.
NothingSettledWhileOpen ==
    \A gen \in Generations, g \in Grants :
        reservations[gen].state # "settled" => ledger.settled[gen][g] = 0

Explained == LedgerExplainsCharges /\ NothingSettledWhileOpen

LEMMA InitExplained == Init => Explained
BY DEF Init, NoReservation, NoRows, Charge, HoldingStates, Explained,
       LedgerExplainsCharges, NothingSettledWhileOpen

\* One reservation with its columns of the ledger: when it is explained after a
\* step that touches no other, all are.
ExplainedAt(gen) ==
    \A g \in Grants :
        /\ Charge(gen, g) + ledger.released[gen][g] = ledger.created[gen][g]
        /\ reservations[gen].state = "settled" =>
             ledger.settled[gen][g] = Charge(gen, g)
        /\ reservations[gen].state # "settled" => ledger.settled[gen][g] = 0

LEMMA ExplainedByRow == Explained <=> \A gen \in Generations : ExplainedAt(gen)
BY DEF Explained, ExplainedAt, LedgerExplainsCharges, NothingSettledWhileOpen

LEMMA ExplainedFrame ==
  ASSUME Explained, NEW gen \in Generations, ExplainedAt(gen)',
         \A other \in Generations \ {gen} :
            /\ reservations'[other] = reservations[other]
            /\ held'[other] = held[other] /\ spent'[other] = spent[other]
            /\ ledger'.created[other] = ledger.created[other]
            /\ ledger'.settled[other] = ledger.settled[other]
            /\ ledger'.released[other] = ledger.released[other]
  PROVE  Explained'
<1>1. \A other \in Generations \ {gen}, g \in Grants :
         Charge(other, g)' = Charge(other, g)
  BY ChargeFrame
<1>2. \A other \in Generations \ {gen} : ExplainedAt(other)'
  BY <1>1, ExplainedByRow DEF ExplainedAt
<1>3. \A x \in Generations : ExplainedAt(x)'
  BY <1>2
<1>4. QED
  BY <1>3 DEF Explained, ExplainedAt, LedgerExplainsCharges, NothingSettledWhileOpen

\* The amount columns of a ledger.
LEMMA LedgerTyped ==
  ASSUME TypeOK, NEW gen \in Generations, NEW g \in Grants
  PROVE  /\ ledger.created[gen][g] \in Nat
         /\ ledger.settled[gen][g] \in Nat
         /\ ledger.released[gen][g] \in Nat
         /\ held[gen][g] \in Nat
<1>1. ledger \in Ledgers /\ held \in [Generations -> [Grants -> Nat]]
  BY DEF TypeOK
<1>2. QED
  BY <1>1 DEF Ledgers

LEMMA ReserveExplained ==
  ASSUME TypeOK, Explained, NEW gen \in Generations, NEW req \in Requests,
         Reserve(gen, req)
  PROVE  Explained'
<1>1. /\ ledger \in Ledgers
      /\ reservations \in [Generations -> Reservations]
      /\ held \in [Generations -> [Grants -> Nat]]
  BY DEF TypeOK
<1>2. /\ ledger'.created = [ledger.created EXCEPT
                              ![gen] = [g \in Grants |-> @[g] + Take(req)[g]]]
      /\ ledger'.settled = ledger.settled /\ ledger'.released = ledger.released
  BY <1>1 DEF Reserve, Ledgers
<1>3. ExplainedAt(gen)'
  <2> SUFFICES ASSUME NEW g \in Grants
               PROVE  /\ Charge(gen, g)' + ledger'.released[gen][g]
                            = ledger'.created[gen][g]
                      /\ reservations'[gen].state # "settled"
                      /\ ledger'.settled[gen][g] = 0
    BY DEF ExplainedAt
  <2>1. reservations'[gen].state = "reserved" /\ held'[gen] = Take(req)
    BY <1>1 DEF Reserve
  <2>2. Charge(gen, g)' = Take(req)[g]
    BY <2>1 DEF Charge, HoldingStates
  <2>3. Take(req)[g] \in Nat
    BY TakeIsBounded
  <2>4. Charge(gen, g) = 0 /\ reservations[gen].state = "none"
    BY DEF Reserve, Charge, HoldingStates
  <2>5. /\ ledger.released[gen][g] = ledger.created[gen][g]
        /\ ledger.settled[gen][g] = 0
    BY <2>4, LedgerTyped DEF Explained, LedgerExplainsCharges, NothingSettledWhileOpen
  <2>6. ledger'.created[gen][g] = ledger.created[gen][g] + Take(req)[g]
    BY <1>1, <1>2 DEF Ledgers
  <2>7. /\ ledger.created[gen][g] \in Nat
        /\ ledger'.settled[gen][g] = 0
        /\ ledger'.released[gen][g] = ledger.created[gen][g]
    BY <1>2, <2>5, LedgerTyped
  <2>8. Charge(gen, g)' + ledger'.released[gen][g] = ledger'.created[gen][g]
    BY <2>2, <2>3, <2>6, <2>7
  <2>9. QED
    BY <2>1, <2>7, <2>8
<1>4. QED
  BY <1>1, <1>2, <1>3, ExplainedFrame DEF Reserve, Ledgers

LEMMA SettleExplained ==
  ASSUME TypeOK, Explained, NEW gen \in Generations, NEW evidence \in Evidence,
         Settle(gen, evidence)
  PROVE  Explained'
<1> DEFINE share == [g \in Grants |-> SettledShare(gen, evidence.actual, g)]
<1>1. /\ ledger \in Ledgers
      /\ reservations \in [Generations -> Reservations]
      /\ held \in [Generations -> [Grants -> Nat]]
      /\ spent \in [Generations -> [Grants -> Nat \cup {Unset}]]
  BY DEF TypeOK
<1>2. /\ ledger'.created = ledger.created
      /\ ledger'.settled = [ledger.settled EXCEPT
                              ![gen] = [g \in Grants |-> @[g] + share[g]]]
      /\ ledger'.released = [ledger.released EXCEPT
                              ![gen] = [g \in Grants |-> @[g] + held[gen][g] - share[g]]]
  BY <1>1 DEF Settle, Ledgers
<1>3. ExplainedAt(gen)'
  <2> SUFFICES ASSUME NEW g \in Grants
               PROVE  /\ Charge(gen, g)' + ledger'.released[gen][g]
                            = ledger'.created[gen][g]
                      /\ reservations'[gen].state = "settled"
                      /\ ledger'.settled[gen][g] = Charge(gen, g)'
    BY DEF ExplainedAt
  <2>1. reservations'[gen].state = "settled"
    BY <1>1 DEF Settle, Reservations
  <2>2. reservations[gen].state # "settled"
    BY DEF Settle, Open
  <2>3. /\ Charge(gen, g) = held[gen][g]
        /\ Charge(gen, g)' = share[g]
    BY SettleLowersCharges
  <2>4. share[g] \in Nat
    BY SettledShareIsBounded
  <2>5. /\ held[gen][g] + ledger.released[gen][g] = ledger.created[gen][g]
        /\ ledger.settled[gen][g] = 0
    BY <2>2, <2>3 DEF Explained, LedgerExplainsCharges, NothingSettledWhileOpen
  <2>6. /\ ledger'.settled[gen][g] = ledger.settled[gen][g] + share[g]
        /\ ledger'.released[gen][g]
             = ledger.released[gen][g] + held[gen][g] - share[g]
    BY <1>1, <1>2 DEF Ledgers
  <2>7. ledger'.created[gen][g] = ledger.created[gen][g]
    BY <1>2
  <2> HIDE DEF share
  <2>8. /\ ledger.created[gen][g] \in Nat /\ ledger.released[gen][g] \in Nat
        /\ held[gen][g] \in Nat
    BY LedgerTyped
  <2>9. Charge(gen, g)' + ledger'.released[gen][g] = ledger'.created[gen][g]
    BY <2>3, <2>4, <2>5, <2>6, <2>7, <2>8
  <2>10. ledger'.settled[gen][g] = Charge(gen, g)'
    BY <2>3, <2>4, <2>5, <2>6
  <2>11. QED
    BY <2>1, <2>9, <2>10
<1>4. QED
  BY <1>1, <1>2, <1>3, ExplainedFrame DEF Settle, Ledgers

LEMMA ReleaseExplained ==
  ASSUME TypeOK, Explained, NEW gen \in Generations, Release(gen)
  PROVE  Explained'
<1>1. /\ ledger \in Ledgers
      /\ reservations \in [Generations -> Reservations]
  BY DEF TypeOK
<1>2. /\ ledger'.created = ledger.created /\ ledger'.settled = ledger.settled
      /\ ledger'.released = [ledger.released EXCEPT
                              ![gen] = [g \in Grants |-> @[g] + held[gen][g]]]
  BY <1>1 DEF Release, Ledgers
<1>3. ExplainedAt(gen)'
  <2> SUFFICES ASSUME NEW g \in Grants
               PROVE  /\ Charge(gen, g)' + ledger'.released[gen][g]
                            = ledger'.created[gen][g]
                      /\ reservations'[gen].state # "settled"
                      /\ ledger'.settled[gen][g] = 0
    BY DEF ExplainedAt
  <2>1. reservations'[gen].state = "released" /\ reservations[gen].state # "settled"
    BY <1>1 DEF Release, Open, Reservations
  <2>2. Charge(gen, g)' = 0 /\ Charge(gen, g) = held[gen][g]
    BY <2>1 DEF Release, Open, Charge, HoldingStates
  <2>3. /\ held[gen][g] + ledger.released[gen][g] = ledger.created[gen][g]
        /\ ledger.settled[gen][g] = 0
    BY <2>1, <2>2 DEF Explained, LedgerExplainsCharges, NothingSettledWhileOpen
  <2>4. ledger'.released[gen][g] = ledger.released[gen][g] + held[gen][g]
    BY <1>1, <1>2 DEF Ledgers
  <2>5. QED
    BY <1>2, <2>1, <2>2, <2>3, <2>4, LedgerTyped
<1>4. QED
  BY <1>1, <1>2, <1>3, ExplainedFrame DEF Release, Ledgers

LEMMA StepExplained == TypeOK /\ Explained /\ [Next]_vars => Explained'
<1> SUFFICES ASSUME TypeOK, Explained, [Next]_vars PROVE Explained'
  OBVIOUS
<1>1. ledger \in Ledgers /\ reservations \in [Generations -> Reservations]
  BY DEF TypeOK
<1>2. ASSUME UNCHANGED <<reservations, held, spent>>,
             ledger'.created = ledger.created,
             ledger'.settled = ledger.settled,
             ledger'.released = ledger.released
      PROVE  Explained'
  BY <1>2, ChargesUnchanged DEF Explained, LedgerExplainsCharges, NothingSettledWhileOpen
<1>3. CASE Tick
  BY <1>2, <1>3 DEF Tick
<1>4. CASE SetActivationReady
  BY <1>2, <1>4 DEF SetActivationReady
<1>5. ASSUME NEW expected \in 1..MaxRevision, NEW choice \in PolicyChoices,
             UpdatePolicy(expected, choice)
      PROVE  Explained'
  BY <1>2, <1>5 DEF UpdatePolicy
<1>6. ASSUME NEW choice \in EntitlementChoices, ProjectEntitlement(choice)
      PROVE  Explained'
  BY <1>2, <1>6 DEF ProjectEntitlement
<1>7. ASSUME NEW g \in Grants, NEW row, AddGrant(g, row)
      PROVE  Explained'
  BY <1>1, <1>2, <1>7 DEF AddGrant, Ledgers
<1>8. ASSUME NEW g \in Grants, NEW package \in Packages, NEW window \in Windows,
             NEW amount \in Amounts, GrantIncluded(g, package, window, amount)
      PROVE  Explained'
  BY <1>7, <1>8 DEF GrantIncluded
<1>9. ASSUME NEW g \in Grants, NEW expires \in Expiries, NEW amount \in Amounts,
             GrantPurchased(g, expires, amount)
      PROVE  Explained'
  BY <1>7, <1>9 DEF GrantPurchased
<1>10. ASSUME NEW gen \in Generations, NEW req \in Requests, Reserve(gen, req)
       PROVE  Explained'
  BY <1>10, ReserveExplained
<1>11. ASSUME NEW gen \in Generations, NEW evidence \in Evidence,
              Settle(gen, evidence)
       PROVE  Explained'
  BY <1>11, SettleExplained
<1>12. ASSUME NEW gen \in Generations, Release(gen)
       PROVE  Explained'
  BY <1>12, ReleaseExplained
<1>13. ASSUME NEW gen \in Generations, NEW state \in {"indeterminate", "reconciliation_required"},
              Open(gen), UNCHANGED <<held, spent>>,
              reservations' = [reservations EXCEPT ![gen].state = state],
              ledger'.created = ledger.created,
              ledger'.settled = ledger.settled,
              ledger'.released = ledger.released
       PROVE  Explained'
  <2>1. \A g \in Grants : Charge(gen, g)' = Charge(gen, g)
    BY <1>1, <1>13 DEF Open, Charge, HoldingStates, Reservations
  <2>2. reservations[gen].state # "settled" /\ reservations'[gen].state # "settled"
    BY <1>1, <1>13 DEF Open, Reservations
  <2>3. ExplainedAt(gen)'
    BY <1>13, <2>1, <2>2, ExplainedByRow DEF ExplainedAt
  <2>4. QED
    BY <1>1, <1>13, <2>3, ExplainedFrame
<1>14. ASSUME NEW gen \in Generations, NEW evidence \in Evidence,
              SettleOverrun(gen, evidence)
       PROVE  Explained'
  BY <1>1, <1>13, <1>14 DEF SettleOverrun, Ledgers
<1>15. ASSUME NEW gen \in Generations, MarkIndeterminate(gen)
       PROVE  Explained'
  BY <1>1, <1>13, <1>15 DEF MarkIndeterminate, Open, Ledgers
<1>16. ASSUME NEW key \in ReversalKeys, NEW g \in Grants, ReversePurchase(key, g)
       PROVE  Explained'
  BY <1>1, <1>2, <1>16 DEF ReversePurchase, Ledgers
<1>17. CASE UNCHANGED vars
  BY <1>2, <1>17 DEF vars
<1>18. QED
  BY <1>3, <1>4, <1>5, <1>6, <1>8, <1>9, <1>10, <1>11, <1>12, <1>14, <1>15, <1>16,
     <1>17 DEF Next

\* The append-only events always explain what each reservation charges.
THEOREM EventsExplainCharges == Spec => []LedgerExplainsCharges
<1>1. Explained => LedgerExplainsCharges
  BY DEF Explained
<1>2. QED
  BY <1>1, Typed, InitExplained, StepExplained, PTL DEF Spec

-----------------------------------------------------------------------------
(* The ledger implements the account of CapacityAccount.                   *)

PhaseOf(gen) == IF reservations[gen].state = "none" THEN "free"
                ELSE IF reservations[gen].state \in FinalStates THEN "closed"
                ELSE "held"

\* The refinement mapping hides the sum, not its value.
LEMMA SolventMapped == TypeOK /\ NoOverdraft => Account!Solvent
<1> SUFFICES ASSUME TypeOK, NoOverdraft, NEW g \in Grants
             PROVE  Account!ChargedTo(g) <= grants[g].granted - grants[g].reversed
  BY DEF Account!Solvent
<1>1. Account!ChargedTo(g) = Charged(g)
  <2> DEFINE mapped == [h \in Generations |->
                          [gen \in Generations |->
                             [a \in Grants |-> Charge(gen, a)]][h][g]]
             charge == [gen \in Generations |-> Charge(gen, g)]
  <2>1. mapped = charge
    OBVIOUS
  <2>2. Account!Total(mapped, Generations) = Total(mapped, Generations)
    BY DEF Account!Total, Account!Units, Account!Cardinality, Total, Units, Cardinality
  <2>3. Account!ChargedTo(g) = Account!Total(mapped, Generations)
    BY DEF Account!ChargedTo
  <2>4. QED
    BY <2>1, <2>2, <2>3 DEF Charged
<1>2. Charged(g) \in Nat /\ grants[g].granted \in Nat /\ grants[g].reversed \in Nat
  BY AvailableIsNat
<1>3. Charged(g) + grants[g].reversed <= grants[g].granted
  BY DEF NoOverdraft
<1>4. Charged(g) <= grants[g].granted - grants[g].reversed
  BY <1>2, <1>3
<1>5. QED
  BY <1>1, <1>4

LEMMA InitOpen == Init => Account!Open
<1> SUFFICES ASSUME Init PROVE Account!Open
  OBVIOUS
<1>1. \A g \in Grants : grants[g].granted - grants[g].reversed = 0
  BY DEF Init, NoGrant
<1>2. \A gen \in Generations, g \in Grants : Charge(gen, g) = 0
  BY DEF Init, NoReservation, Charge, HoldingStates
<1>3. \A gen \in Generations : reservations[gen].state = "none"
  BY DEF Init, NoReservation
<1>4. QED
  BY <1>1, <1>2, <1>3 DEF Account!Open

\* Steps that change no charge and no phase are funding, a refund or nothing.
LEMMA MapsToFund ==
  ASSUME Account!Solvent',
         \A gen \in Generations, g \in Grants : Charge(gen, g)' = Charge(gen, g),
         \A gen \in Generations : PhaseOf(gen)' = PhaseOf(gen)
  PROVE  Account!AccountNext
BY DEF Account!AccountNext, Account!Fund, PhaseOf

\* Steps of one reservation that leave the grants alone are holds or closures.
LEMMA MapsToHold ==
  ASSUME Account!Solvent', UNCHANGED grants, NEW gen \in Generations,
         PhaseOf(gen) = "free", PhaseOf(gen)' = "held",
         \A other \in Generations \ {gen} :
            /\ PhaseOf(other)' = PhaseOf(other)
            /\ \A g \in Grants : Charge(other, g)' = Charge(other, g)
  PROVE  Account!AccountNext
BY DEF Account!AccountNext, Account!Hold, Account!OnlyChanges, PhaseOf

LEMMA MapsToClose ==
  ASSUME UNCHANGED grants, NEW gen \in Generations,
         PhaseOf(gen) = "held", PhaseOf(gen)' = "closed",
         \A g \in Grants : Charge(gen, g)' <= Charge(gen, g),
         \A other \in Generations \ {gen} :
            /\ PhaseOf(other)' = PhaseOf(other)
            /\ \A g \in Grants : Charge(other, g)' = Charge(other, g)
  PROVE  Account!AccountNext
BY DEF Account!AccountNext, Account!Close, Account!OnlyChanges, PhaseOf

\* A row that is not touched keeps its charges and its phase.
LEMMA OthersKept ==
  ASSUME NEW gen \in Generations,
         \A other \in Generations \ {gen} :
            /\ reservations'[other] = reservations[other]
            /\ held'[other] = held[other] /\ spent'[other] = spent[other]
  PROVE  \A other \in Generations \ {gen} :
            /\ PhaseOf(other)' = PhaseOf(other)
            /\ \A g \in Grants : Charge(other, g)' = Charge(other, g)
BY ChargeFrame DEF PhaseOf

LEMMA StepMaps ==
  TypeOK /\ NoOverdraft /\ Account!Solvent' /\ [Next]_vars
    => [Account!AccountNext]_(Account!accountVars)
<1> SUFFICES ASSUME TypeOK, NoOverdraft, Account!Solvent', [Next]_vars
             PROVE  Account!AccountNext
  OBVIOUS
<1>1. ASSUME UNCHANGED <<reservations, held, spent>>
      PROVE  Account!AccountNext
  BY <1>1, ChargesUnchanged, MapsToFund DEF PhaseOf
<1>2. CASE Tick
  BY <1>1, <1>2 DEF Tick
<1>3. CASE SetActivationReady
  BY <1>1, <1>3 DEF SetActivationReady
<1>4. ASSUME NEW expected \in 1..MaxRevision, NEW choice \in PolicyChoices,
             UpdatePolicy(expected, choice)
      PROVE  Account!AccountNext
  BY <1>1, <1>4 DEF UpdatePolicy
<1>5. ASSUME NEW choice \in EntitlementChoices, ProjectEntitlement(choice)
      PROVE  Account!AccountNext
  BY <1>1, <1>5 DEF ProjectEntitlement
<1>6. ASSUME NEW g \in Grants, NEW package \in Packages, NEW window \in Windows,
             NEW amount \in Amounts, GrantIncluded(g, package, window, amount)
      PROVE  Account!AccountNext
  BY <1>1, <1>6 DEF GrantIncluded, AddGrant
<1>7. ASSUME NEW g \in Grants, NEW expires \in Expiries, NEW amount \in Amounts,
             GrantPurchased(g, expires, amount)
      PROVE  Account!AccountNext
  BY <1>1, <1>7 DEF GrantPurchased, AddGrant
<1>8. ASSUME NEW key \in ReversalKeys, NEW g \in Grants, ReversePurchase(key, g)
      PROVE  Account!AccountNext
  BY <1>1, <1>8 DEF ReversePurchase
<1>9. ASSUME NEW gen \in Generations, NEW req \in Requests, Reserve(gen, req)
      PROVE  Account!AccountNext
  <2>1. PhaseOf(gen) = "free" /\ PhaseOf(gen)' = "held"
    BY <1>9 DEF Reserve, PhaseOf, FinalStates, TypeOK
  <2>2. \A other \in Generations \ {gen} :
          /\ reservations'[other] = reservations[other]
          /\ held'[other] = held[other] /\ spent'[other] = spent[other]
    BY <1>9 DEF Reserve, TypeOK
  <2>3. QED
    BY <1>9, <2>1, <2>2, OthersKept, MapsToHold DEF Reserve
<1>10. ASSUME NEW gen \in Generations, NEW evidence \in Evidence,
              Settle(gen, evidence)
       PROVE  Account!AccountNext
  <2>1. PhaseOf(gen) = "held" /\ PhaseOf(gen)' = "closed"
    BY <1>10 DEF Settle, Open, PhaseOf, FinalStates, TypeOK, Reservations
  <2>2. \A other \in Generations \ {gen} :
          /\ reservations'[other] = reservations[other]
          /\ held'[other] = held[other] /\ spent'[other] = spent[other]
    BY <1>10 DEF Settle, TypeOK
  <2>3. \A g \in Grants : Charge(gen, g)' <= Charge(gen, g)
    BY <1>10, SettleLowersCharges
  <2>4. QED
    BY <1>10, <2>1, <2>2, <2>3, OthersKept, MapsToClose DEF Settle
<1>11. ASSUME NEW gen \in Generations, NEW evidence \in Evidence,
              SettleOverrun(gen, evidence)
       PROVE  Account!AccountNext
  <2>1. PhaseOf(gen) = "held" /\ PhaseOf(gen)' = "closed"
    BY <1>11 DEF SettleOverrun, Open, PhaseOf, FinalStates, TypeOK, Reservations
  <2>2. \A other \in Generations \ {gen} :
          /\ reservations'[other] = reservations[other]
          /\ held'[other] = held[other] /\ spent'[other] = spent[other]
    BY <1>11 DEF SettleOverrun, TypeOK
  <2>3. \A g \in Grants : Charge(gen, g)' = Charge(gen, g)
    BY <1>11 DEF SettleOverrun, Open, Charge, HoldingStates, TypeOK, Reservations
  <2>4. \A g \in Grants : Charge(gen, g)' <= Charge(gen, g)
    BY <2>3, ChargeIsNat DEF ChargesAreNat
  <2>5. QED
    BY <1>11, <2>1, <2>2, <2>4, OthersKept, MapsToClose DEF SettleOverrun
<1>12. ASSUME NEW gen \in Generations, Release(gen)
       PROVE  Account!AccountNext
  <2>1. PhaseOf(gen) = "held" /\ PhaseOf(gen)' = "closed"
    BY <1>12 DEF Release, Open, PhaseOf, FinalStates, TypeOK, Reservations
  <2>2. \A other \in Generations \ {gen} :
          /\ reservations'[other] = reservations[other]
          /\ held'[other] = held[other] /\ spent'[other] = spent[other]
    BY <1>12 DEF Release, TypeOK
  <2>3. \A g \in Grants : Charge(gen, g)' = 0
    BY <1>12 DEF Release, Charge, HoldingStates, TypeOK, Reservations
  <2>4. \A g \in Grants : Charge(gen, g)' <= Charge(gen, g)
    BY <2>3, ChargeIsNat DEF ChargesAreNat
  <2>5. QED
    BY <1>12, <2>1, <2>2, <2>4, OthersKept, MapsToClose DEF Release
<1>13. ASSUME NEW gen \in Generations, MarkIndeterminate(gen)
       PROVE  Account!AccountNext
  <2>1. PhaseOf(gen)' = PhaseOf(gen)
    BY <1>13 DEF MarkIndeterminate, PhaseOf, FinalStates, TypeOK, Reservations
  <2>2. \A g \in Grants : Charge(gen, g)' = Charge(gen, g)
    BY <1>13 DEF MarkIndeterminate, Charge, HoldingStates, TypeOK, Reservations
  <2>3. \A other \in Generations \ {gen} :
          /\ reservations'[other] = reservations[other]
          /\ held'[other] = held[other] /\ spent'[other] = spent[other]
    BY <1>13 DEF MarkIndeterminate, TypeOK
  <2>4. QED
    BY <2>1, <2>2, <2>3, OthersKept, MapsToFund
<1>14. CASE UNCHANGED vars
  BY <1>1, <1>14 DEF vars
<1>15. QED
  BY <1>2, <1>3, <1>4, <1>5, <1>6, <1>7, <1>8, <1>9, <1>10, <1>11, <1>12, <1>13, <1>14
     DEF Next

\* The RPCs of the ledger implement the account: a hold is taken once from credit
\* that covers it, closed once for at most what it held, and a refund never takes
\* credit that is held or used.
THEOREM LedgerImplementsAccount == Spec => ImplementsAccount
<1>1. Spec => []TypeOK /\ []NoOverdraft
  BY Typed, NeverOverdrawn, PTL
<1>2. QED
  BY <1>1, InitOpen, SolventMapped, StepMaps, PTL
     DEF Spec, ImplementsAccount, Account!AccountSpec

-----------------------------------------------------------------------------
(* A closed reservation stays as it is.                                    *)

\* A step that touches at most one reservation, and that one open or new, keeps
\* the closed ones and what they charge.
LEMMA ClosedRowsKept ==
  ASSUME NEW gen \in Generations, reservations[gen].state \notin FinalStates,
         \A other \in Generations \ {gen} :
            /\ reservations'[other] = reservations[other]
            /\ held'[other] = held[other] /\ spent'[other] = spent[other]
  PROVE  \A final \in Generations : reservations[final].state \in FinalStates =>
            /\ reservations'[final] = reservations[final]
            /\ \A g \in Grants : Charge(final, g)' = Charge(final, g)
<1> SUFFICES ASSUME NEW final \in Generations, reservations[final].state \in FinalStates
             PROVE  /\ reservations'[final] = reservations[final]
                    /\ \A g \in Grants : Charge(final, g)' = Charge(final, g)
  OBVIOUS
<1>1. final \in Generations \ {gen}
  OBVIOUS
<1>2. /\ reservations'[final] = reservations[final]
      /\ held'[final] = held[final] /\ spent'[final] = spent[final]
  BY <1>1
<1>3. QED
  BY <1>2, ChargeFrame

LEMMA StepKeepsFinal ==
  TypeOK /\ [Next]_vars =>
    \A gen \in Generations : reservations[gen].state \in FinalStates =>
       /\ reservations'[gen] = reservations[gen]
       /\ \A g \in Grants : Charge(gen, g)' = Charge(gen, g)
<1> DEFINE Kept == \A gen \in Generations : reservations[gen].state \in FinalStates =>
                      /\ reservations'[gen] = reservations[gen]
                      /\ \A g \in Grants : Charge(gen, g)' = Charge(gen, g)
<1> SUFFICES ASSUME TypeOK, [Next]_vars PROVE Kept
  OBVIOUS
<1>1. ASSUME UNCHANGED <<reservations, held, spent>>
      PROVE  Kept
  BY <1>1, ChargesUnchanged
<1>2. ASSUME NEW gen \in Generations, reservations[gen].state \notin FinalStates,
             \A other \in Generations \ {gen} :
                /\ reservations'[other] = reservations[other]
                /\ held'[other] = held[other] /\ spent'[other] = spent[other]
      PROVE  Kept
  BY <1>2, ClosedRowsKept
<1> HIDE DEF Kept
<1>3. CASE Tick
  BY <1>1, <1>3 DEF Tick
<1>4. CASE SetActivationReady
  BY <1>1, <1>4 DEF SetActivationReady
<1>5. ASSUME NEW expected \in 1..MaxRevision, NEW choice \in PolicyChoices,
             UpdatePolicy(expected, choice)
      PROVE  Kept
  BY <1>1, <1>5 DEF UpdatePolicy
<1>6. ASSUME NEW choice \in EntitlementChoices, ProjectEntitlement(choice)
      PROVE  Kept
  BY <1>1, <1>6 DEF ProjectEntitlement
<1>7. ASSUME NEW g \in Grants, NEW row, AddGrant(g, row)
      PROVE  Kept
  BY <1>1, <1>7 DEF AddGrant
<1>8. ASSUME NEW key \in ReversalKeys, NEW g \in Grants, ReversePurchase(key, g)
      PROVE  Kept
  BY <1>1, <1>8 DEF ReversePurchase
<1>9. ASSUME NEW gen \in Generations, NEW req \in Requests, Reserve(gen, req)
      PROVE  Kept
  <2>1. reservations[gen].state \notin FinalStates
    BY <1>9 DEF Reserve, FinalStates
  <2>2. QED
    BY <1>2, <1>9, <2>1 DEF Reserve, TypeOK
<1>10. ASSUME NEW gen \in Generations, NEW evidence \in Evidence,
              Settle(gen, evidence)
       PROVE  Kept
  <2>1. reservations[gen].state \notin FinalStates
    BY <1>10 DEF Settle, Open, FinalStates
  <2>2. QED
    BY <1>2, <1>10, <2>1 DEF Settle, TypeOK
<1>11. ASSUME NEW gen \in Generations, NEW evidence \in Evidence,
              SettleOverrun(gen, evidence)
       PROVE  Kept
  <2>1. reservations[gen].state \notin FinalStates
    BY <1>11 DEF SettleOverrun, Open, FinalStates
  <2>2. QED
    BY <1>2, <1>11, <2>1 DEF SettleOverrun, TypeOK
<1>12. ASSUME NEW gen \in Generations, Release(gen)
       PROVE  Kept
  <2>1. reservations[gen].state \notin FinalStates
    BY <1>12 DEF Release, Open, FinalStates
  <2>2. QED
    BY <1>2, <1>12, <2>1 DEF Release, TypeOK
<1>13. ASSUME NEW gen \in Generations, MarkIndeterminate(gen)
       PROVE  Kept
  <2>1. reservations[gen].state \notin FinalStates
    BY <1>13 DEF MarkIndeterminate, FinalStates
  <2>2. QED
    BY <1>2, <1>13, <2>1 DEF MarkIndeterminate, TypeOK
<1>14. CASE UNCHANGED vars
  BY <1>1, <1>14 DEF vars
<1>15. QED
  BY <1>3, <1>4, <1>5, <1>6, <1>7, <1>8, <1>9, <1>10, <1>11, <1>12, <1>13, <1>14
     DEF Next, GrantIncluded, GrantPurchased

\* A settled, released or overrun reservation and its evidence never change again,
\* whatever is retried and in whatever order.
THEOREM ClosedStaysClosed == Spec => FinalIsFinal
<1>1. TypeOK /\ [Next]_vars =>
        [\A gen \in Generations : reservations[gen].state \in FinalStates =>
            /\ reservations'[gen] = reservations[gen]
            /\ \A g \in Grants : Charge(gen, g)' = Charge(gen, g)]_vars
  BY StepKeepsFinal
<1>2. QED
  BY <1>1, Typed, PTL DEF Spec, FinalIsFinal

-----------------------------------------------------------------------------
(* One allowance a period, and only for that period.                       *)

\* OneAllowancePerPeriod alone is not inductive: a grant row inserted under a key
\* that a reservation already holds credit on would break it, so a held row must
\* belong to a grant that exists.
HeldRowsExist ==
    \A gen \in Generations, g \in Grants : held[gen][g] > 0 => Exists(g)

AllowanceInv == HeldRowsExist /\ OneAllowancePerPeriod

LEMMA InitAllowance == Init => AllowanceInv
<1> SUFFICES ASSUME Init PROVE AllowanceInv
  OBVIOUS
<1>1. \A g \in Grants : ~Included(g)
  BY DEF Init, NoGrant, Included
<1>2. \A gen \in Generations, g \in Grants : ~(held[gen][g] > 0)
  BY DEF Init, NoRows
<1>3. QED
  BY <1>1, <1>2 DEF AllowanceInv, HeldRowsExist, OneAllowancePerPeriod

\* What a reservation takes from, it was entitled to take from.
LEMMA TakesFromEligible ==
  ASSUME TypeOK, NEW req \in Requests, NEW g \in Grants, Take(req)[g] > 0
  PROVE  /\ Exists(g)
         /\ Included(g) => /\ grants[g].window.period = req.period
                           /\ grants[g].package = req.package
<1>1. g \in Eligible(req.period, req.package)
  BY DEF Take
<1>2. QED
  BY <1>1 DEF Eligible, Active

\* Steps that keep the grants' terms and the holds, and every request of a
\* reservation that is made.
LEMMA AllowanceFrame ==
  ASSUME AllowanceInv, UNCHANGED held,
         \A g \in Grants : /\ grants'[g].kind = grants[g].kind
                           /\ grants'[g].window = grants[g].window
                           /\ grants'[g].package = grants[g].package,
         \A gen \in Generations : reservations'[gen].request = reservations[gen].request
  PROVE  AllowanceInv'
<1>1. \A g \in Grants : /\ Included(g)' <=> Included(g)
                        /\ Exists(g)' <=> Exists(g)
  BY DEF Included, Exists
<1>2. HeldRowsExist'
  BY <1>1 DEF AllowanceInv, HeldRowsExist
<1>3. OneAllowancePerPeriod'
  BY <1>1 DEF AllowanceInv, OneAllowancePerPeriod
<1>4. QED
  BY <1>2, <1>3 DEF AllowanceInv

\* A new row is held by nobody, and a new allowance has a period of its own.
LEMMA AddGrantAllowance ==
  ASSUME TypeOK, AllowanceInv, NEW g \in Grants, NEW row \in GrantRows,
         AddGrant(g, row),
         row.kind = "included_period" =>
            \A h \in Grants : Included(h) => grants[h].window.period # row.window.period
  PROVE  AllowanceInv'
<1>1. /\ grants'[g] = row
      /\ \A h \in Grants \ {g} : grants'[h] = grants[h]
  BY DEF AddGrant, TypeOK
<1>2. held' = held /\ reservations' = reservations
  BY DEF AddGrant
<1>3. \A gen \in Generations : held[gen][g] = 0
  <2>1. \A gen \in Generations : held[gen][g] \in Nat /\ ~(held[gen][g] > 0)
    BY DEF AddGrant, AllowanceInv, HeldRowsExist, TypeOK
  <2>2. QED
    BY <2>1
<1>4. \A h \in Grants \ {g} : /\ Included(h)' <=> Included(h)
                              /\ Exists(h)' <=> Exists(h)
  BY <1>1 DEF Included, Exists
<1>5. ~Included(g) /\ (Included(g)' <=> row.kind = "included_period")
  BY <1>1 DEF AddGrant, Included, Exists
<1>6. HeldRowsExist'
  <2> SUFFICES ASSUME NEW gen \in Generations, NEW h \in Grants, held'[gen][h] > 0
               PROVE  Exists(h)'
    BY DEF HeldRowsExist
  <2>1. h # g /\ held[gen][h] > 0
    BY <1>2, <1>3
  <2>2. Exists(h)
    BY <2>1 DEF AllowanceInv, HeldRowsExist
  <2>3. QED
    BY <1>4, <2>1, <2>2
<1>7. ASSUME NEW h \in Grants, NEW k \in Grants, Included(h)', Included(k)',
             grants'[h].window.period = grants'[k].window.period
      PROVE  h = k
  <2>1. CASE h = g /\ k # g
    BY <1>1, <1>4, <1>5, <1>7, <2>1
  <2>2. CASE k = g /\ h # g
    BY <1>1, <1>4, <1>5, <1>7, <2>2
  <2>3. CASE h # g /\ k # g
    <3>1. /\ Included(h) /\ Included(k)
          /\ grants[h].window.period = grants[k].window.period
      BY <1>1, <1>4, <1>7, <2>3
    <3>2. QED
      BY <3>1 DEF AllowanceInv, OneAllowancePerPeriod
  <2>4. QED
    BY <2>1, <2>2, <2>3
<1>8. ASSUME NEW gen \in Generations, NEW h \in Grants, held'[gen][h] > 0, Included(h)'
      PROVE  /\ grants'[h].window.period = reservations'[gen].request.period
             /\ grants'[h].package = reservations'[gen].request.package
  <2>1. h # g /\ held[gen][h] > 0
    BY <1>2, <1>3, <1>8
  <2>2. Included(h) /\ grants'[h] = grants[h]
    BY <1>1, <1>4, <1>8, <2>1
  <2>3. /\ grants[h].window.period = reservations[gen].request.period
        /\ grants[h].package = reservations[gen].request.package
    BY <2>1, <2>2 DEF AllowanceInv, OneAllowancePerPeriod
  <2>4. QED
    BY <1>2, <2>2, <2>3
<1>9. OneAllowancePerPeriod'
  BY <1>7, <1>8 DEF OneAllowancePerPeriod
<1>10. QED
  BY <1>6, <1>9 DEF AllowanceInv

\* A reservation holds only what it was entitled to.
LEMMA ReserveAllowance ==
  ASSUME TypeOK, AllowanceInv, NEW gen \in Generations, NEW req \in Requests,
         Reserve(gen, req)
  PROVE  AllowanceInv'
<1>1. grants' = grants
  BY DEF Reserve
<1>2. held'[gen] = Take(req) /\ reservations'[gen].request = req
  BY DEF Reserve, TypeOK
<1>3. \A other \in Generations \ {gen} :
        held'[other] = held[other] /\ reservations'[other] = reservations[other]
  BY DEF Reserve, TypeOK
<1>4. \A g \in Grants : /\ Included(g)' <=> Included(g)
                        /\ Exists(g)' <=> Exists(g)
  BY <1>1 DEF Included, Exists
<1>5. ASSUME NEW x \in Generations, NEW g \in Grants, held'[x][g] > 0
      PROVE  /\ Exists(g)
             /\ Included(g) => /\ grants[g].window.period = reservations'[x].request.period
                               /\ grants[g].package = reservations'[x].request.package
  <2>1. CASE x = gen
    BY <1>2, <1>5, <2>1, TakesFromEligible
  <2>2. CASE x # gen
    BY <1>3, <1>5, <2>2 DEF AllowanceInv, HeldRowsExist, OneAllowancePerPeriod
  <2>3. QED
    BY <2>1, <2>2
<1>6. HeldRowsExist'
  BY <1>4, <1>5 DEF HeldRowsExist
<1>7. OneAllowancePerPeriod'
  <2>1. \A g, h \in Grants :
          Included(g)' /\ Included(h)'
            /\ grants'[g].window.period = grants'[h].window.period => g = h
    BY <1>1, <1>4 DEF AllowanceInv, OneAllowancePerPeriod
  <2>2. \A x \in Generations, g \in Grants : held'[x][g] > 0 /\ Included(g)' =>
          /\ grants'[g].window.period = reservations'[x].request.period
          /\ grants'[g].package = reservations'[x].request.package
    BY <1>1, <1>4, <1>5
  <2>3. QED
    BY <2>1, <2>2 DEF OneAllowancePerPeriod
<1>8. QED
  BY <1>6, <1>7 DEF AllowanceInv

\* A step that changes no grant row keeps the terms of every grant.
TermsKept ==
    \A g \in Grants : /\ grants'[g].kind = grants[g].kind
                      /\ grants'[g].window = grants[g].window
                      /\ grants'[g].package = grants[g].package

RequestsKept ==
    \A gen \in Generations : reservations'[gen].request = reservations[gen].request

\* A settlement, a release and a note of doubt leave the request as it was made.
LEMMA ClosingKeepsRequests ==
  ASSUME TypeOK, NEW gen \in Generations
  PROVE  /\ \A evidence \in Evidence : Settle(gen, evidence) => RequestsKept
         /\ \A evidence \in Evidence : SettleOverrun(gen, evidence) => RequestsKept
         /\ Release(gen) => RequestsKept
         /\ MarkIndeterminate(gen) => RequestsKept
<1>1. ASSUME NEW row, row.request = reservations[gen].request,
             reservations' = [reservations EXCEPT ![gen] = row]
      PROVE  RequestsKept
  BY <1>1 DEF RequestsKept, TypeOK
<1>2. reservations[gen] \in Reservations
  BY DEF TypeOK
<1>3. ASSUME NEW evidence \in Evidence, Settle(gen, evidence)
      PROVE  RequestsKept
  <2>1. [reservations[gen] EXCEPT !.state = "settled", !.settled = evidence.actual,
           !.evidence = evidence].request = reservations[gen].request
    BY <1>2 DEF Reservations
  <2>2. QED
    BY <1>1, <1>3, <2>1 DEF Settle
<1>4. ASSUME NEW evidence \in Evidence, SettleOverrun(gen, evidence)
      PROVE  RequestsKept
  <2>1. [reservations[gen] EXCEPT !.state = "reconciliation_required"].request
          = reservations[gen].request
    BY <1>2 DEF Reservations
  <2>2. QED
    BY <1>1, <1>4, <2>1 DEF SettleOverrun
<1>5. ASSUME Release(gen)
      PROVE  RequestsKept
  <2>1. [reservations[gen] EXCEPT !.state = "released", !.settled = 0].request
          = reservations[gen].request
    BY <1>2 DEF Reservations
  <2>2. QED
    BY <1>1, <1>5, <2>1 DEF Release
<1>6. ASSUME MarkIndeterminate(gen)
      PROVE  RequestsKept
  <2>1. [reservations[gen] EXCEPT !.state = "indeterminate"].request
          = reservations[gen].request
    BY <1>2 DEF Reservations
  <2>2. QED
    BY <1>1, <1>6, <2>1 DEF MarkIndeterminate
<1>7. QED
  BY <1>3, <1>4, <1>5, <1>6

LEMMA StepAllowance == TypeOK /\ AllowanceInv /\ [Next]_vars => AllowanceInv'
<1> SUFFICES ASSUME TypeOK, AllowanceInv, [Next]_vars PROVE AllowanceInv'
  OBVIOUS
<1>1. ASSUME UNCHANGED <<grants, held>>, RequestsKept
      PROVE  AllowanceInv'
  BY <1>1, AllowanceFrame DEF RequestsKept
<1>2. ASSUME UNCHANGED <<grants, held, reservations>>
      PROVE  AllowanceInv'
  BY <1>1, <1>2 DEF RequestsKept
<1>3. CASE Tick
  BY <1>2, <1>3 DEF Tick
<1>4. CASE SetActivationReady
  BY <1>2, <1>4 DEF SetActivationReady
<1>5. ASSUME NEW expected \in 1..MaxRevision, NEW choice \in PolicyChoices,
             UpdatePolicy(expected, choice)
      PROVE  AllowanceInv'
  BY <1>2, <1>5 DEF UpdatePolicy
<1>6. ASSUME NEW choice \in EntitlementChoices, ProjectEntitlement(choice)
      PROVE  AllowanceInv'
  BY <1>2, <1>6 DEF ProjectEntitlement
<1>7. ASSUME NEW g \in Grants, NEW package \in Packages, NEW window \in Windows,
             NEW amount \in Amounts, GrantIncluded(g, package, window, amount)
      PROVE  AllowanceInv'
  BY <1>7, AddGrantAllowance DEF GrantIncluded, GrantRows
<1>8. ASSUME NEW g \in Grants, NEW expires \in Expiries, NEW amount \in Amounts,
             GrantPurchased(g, expires, amount)
      PROVE  AllowanceInv'
  BY <1>8, AddGrantAllowance DEF GrantPurchased, GrantRows
<1>9. ASSUME NEW gen \in Generations, NEW req \in Requests, Reserve(gen, req)
      PROVE  AllowanceInv'
  BY <1>9, ReserveAllowance
<1>10. ASSUME NEW gen \in Generations, NEW evidence \in Evidence,
              Settle(gen, evidence)
       PROVE  AllowanceInv'
  <2>1. UNCHANGED <<grants, held>>
    BY <1>10 DEF Settle
  <2>2. RequestsKept
    BY <1>10, ClosingKeepsRequests
  <2>3. QED
    BY <1>1, <2>1, <2>2
<1>11. ASSUME NEW gen \in Generations, NEW evidence \in Evidence,
              SettleOverrun(gen, evidence)
       PROVE  AllowanceInv'
  BY <1>1, <1>11, ClosingKeepsRequests DEF SettleOverrun
<1>12. ASSUME NEW gen \in Generations, Release(gen)
       PROVE  AllowanceInv'
  BY <1>1, <1>12, ClosingKeepsRequests DEF Release
<1>13. ASSUME NEW gen \in Generations, MarkIndeterminate(gen)
       PROVE  AllowanceInv'
  BY <1>1, <1>13, ClosingKeepsRequests DEF MarkIndeterminate
<1>14. ASSUME NEW key \in ReversalKeys, NEW g \in Grants, ReversePurchase(key, g)
       PROVE  AllowanceInv'
  <2>1. grants[g] \in GrantRows
    BY <1>14 DEF ReversePurchase, TypeOK, NoGrant
  <2>2. TermsKept
    BY <1>14, <2>1 DEF ReversePurchase, TypeOK, TermsKept, GrantRows
  <2>3. held' = held /\ reservations' = reservations
    BY <1>14 DEF ReversePurchase
  <2>4. QED
    BY <2>2, <2>3, AllowanceFrame DEF TermsKept
<1>15. CASE UNCHANGED vars
  BY <1>2, <1>15 DEF vars
<1>16. QED
  BY <1>3, <1>4, <1>5, <1>6, <1>7, <1>8, <1>9, <1>10, <1>11, <1>12, <1>13, <1>14,
     <1>15 DEF Next

\* A period has one allowance however often its worker runs, and a reservation
\* holds credit of its own period and package only.
THEOREM AllowancesAreOnePerPeriod == Spec => []OneAllowancePerPeriod
<1>1. Spec => []AllowanceInv
  BY Typed, InitAllowance, StepAllowance, PTL DEF Spec
<1>2. QED
  BY <1>1, PTL DEF AllowanceInv

-----------------------------------------------------------------------------
(* Refunds add up.                                                         *)

\* What the ledger records under a reversal key as taken back from a grant.
TakenBack(g) ==
    [key \in ReversalKeys |->
       IF ledger.reversal[key] # None /\ ledger.reversal[key].grant = g
       THEN ledger.reversal[key].amount ELSE 0]

TakenBackAreNat == \A g \in Grants, key \in ReversalKeys : TakenBack(g)[key] \in Nat

\* It is a natural amount.
LEMMA TakenBackIsNat == TypeOK => TakenBackAreNat
<1> SUFFICES ASSUME TypeOK, NEW g \in Grants, NEW key \in ReversalKeys
             PROVE  TakenBack(g)[key] \in Nat
  BY DEF TakenBackAreNat
<1>1. ledger.reversal[key] \in [grant: Grants, amount: Nat] \cup {None}
  BY DEF TypeOK, Ledgers
<1>2. QED
  BY <1>1 DEF TakenBack

LEMMA RefundsByGrant ==
  RefundsAddUp <=>
    \A g \in Grants : Total(TakenBack(g), ReversalKeys) = grants[g].reversed
BY DEF RefundsAddUp, TakenBack

LEMMA InitRefunds == Init => RefundsAddUp
<1> SUFFICES ASSUME Init, NEW g \in Grants
             PROVE  Total(TakenBack(g), ReversalKeys) = grants[g].reversed
  BY RefundsByGrant
<1>1. \A key \in ReversalKeys : TakenBack(g)[key] = 0
  BY DEF Init, TakenBack
<1>2. Total(TakenBack(g), ReversalKeys) = 0
  BY <1>1, TotalZero
<1>3. QED
  BY <1>2 DEF Init, NoGrant

\* Steps that record no reversal and change no grant's reversed amount.
LEMMA RefundsFrame ==
  ASSUME RefundsAddUp, ledger'.reversal = ledger.reversal,
         \A g \in Grants : grants'[g].reversed = grants[g].reversed
  PROVE  RefundsAddUp'
<1>1. \A g \in Grants : Total(TakenBack(g), ReversalKeys) = grants[g].reversed
  BY RefundsByGrant
<1>2. \A g \in Grants : TakenBack(g)' = TakenBack(g)
  BY DEF TakenBack
<1>3. \A g \in Grants : Total(TakenBack(g)', ReversalKeys) = grants'[g].reversed
  BY <1>1, <1>2
<1>4. RefundsAddUp' <=>
        \A g \in Grants : Total(TakenBack(g)', ReversalKeys) = grants'[g].reversed
  BY DEF RefundsAddUp, TakenBack
<1>5. QED
  BY <1>3, <1>4

\* A reversal records under its key what it takes back, and the key was unused.
LEMMA ReverseRefunds ==
  ASSUME TypeOK, TypeOK', RefundsAddUp, NEW key \in ReversalKeys, NEW g \in Grants,
         ReversePurchase(key, g)
  PROVE  RefundsAddUp'
<1> DEFINE amount == Available(g)
<1>1. amount \in Nat
  BY AvailableIsNat
<1>2. /\ ledger.reversal[key] = None
      /\ ledger'.reversal[key] = [grant |-> g, amount |-> amount]
      /\ \A other \in ReversalKeys \ {key} : ledger'.reversal[other] = ledger.reversal[other]
  BY DEF ReversePurchase, TypeOK, Ledgers
<1>3. grants[g] \in GrantRows
  BY DEF ReversePurchase, TypeOK, NoGrant
<1>4. grants' = [grants EXCEPT ![g].reversed = @ + amount]
  BY DEF ReversePurchase
<1> HIDE DEF amount
<1>5. /\ grants'[g].reversed = grants[g].reversed + amount
      /\ \A h \in Grants \ {g} : grants'[h] = grants[h]
  BY <1>3, <1>4 DEF TypeOK, GrantRows
<1>6. [grant |-> g, amount |-> amount] # None
  <2>1. [grant |-> g, amount |-> amount] \in [grant: Grants, amount: Nat]
    BY <1>1
  <2>2. QED
    BY <2>1, NullIsNoRow
<1>7. ASSUME NEW h \in Grants
      PROVE  Total(TakenBack(h)', ReversalKeys) = grants'[h].reversed
  <2> DEFINE before == TakenBack(h)
             after  == TakenBack(h)'
  <2>1. \A k \in ReversalKeys : before[k] \in Nat
    BY TakenBackIsNat DEF TakenBackAreNat
  <2>2. \A k \in ReversalKeys : after[k] \in Nat
    <3>1. TakenBackAreNat'
      BY TakenBackIsNat, PTL
    <3>2. QED
      BY <3>1 DEF TakenBackAreNat
  <2>3. \A k \in ReversalKeys \ {key} : before[k] = after[k]
    BY <1>2 DEF TakenBack
  <2>4. before[key] = 0 /\ after[key] = IF h = g THEN amount ELSE 0
    BY <1>2, <1>6 DEF TakenBack
  <2>5. Total(before, ReversalKeys) = grants[h].reversed
    BY RefundsByGrant
  <2>6. grants[h].reversed \in Nat
    BY AvailableIsNat
  <2> HIDE DEF before, after
  <2>7. Total(after, ReversalKeys)
          = Total(before, ReversalKeys) - before[key] + after[key]
    BY <2>1, <2>2, <2>3, TotalUpdate
  <2>8. Total(after, ReversalKeys) = grants'[h].reversed
    BY <1>1, <1>5, <2>4, <2>5, <2>6, <2>7
  <2>9. QED
    BY <2>8 DEF after
<1>8. RefundsAddUp' <=>
        \A h \in Grants : Total(TakenBack(h)', ReversalKeys) = grants'[h].reversed
  BY DEF RefundsAddUp, TakenBack
<1>9. QED
  BY <1>7, <1>8

LEMMA StepRefunds ==
  TypeOK /\ TypeOK' /\ RefundsAddUp /\ [Next]_vars => RefundsAddUp'
<1> SUFFICES ASSUME TypeOK, TypeOK', RefundsAddUp, [Next]_vars PROVE RefundsAddUp'
  OBVIOUS
<1>1. ASSUME ledger'.reversal = ledger.reversal, UNCHANGED grants
      PROVE  RefundsAddUp'
  BY <1>1, RefundsFrame
<1>2. CASE Tick
  BY <1>1, <1>2 DEF Tick
<1>3. CASE SetActivationReady
  BY <1>1, <1>3 DEF SetActivationReady
<1>4. ASSUME NEW expected \in 1..MaxRevision, NEW choice \in PolicyChoices,
             UpdatePolicy(expected, choice)
      PROVE  RefundsAddUp'
  BY <1>1, <1>4 DEF UpdatePolicy
<1>5. ASSUME NEW choice \in EntitlementChoices, ProjectEntitlement(choice)
      PROVE  RefundsAddUp'
  BY <1>1, <1>5 DEF ProjectEntitlement
<1>6. ASSUME NEW g \in Grants, NEW row \in GrantRows, row.reversed = 0, AddGrant(g, row)
      PROVE  RefundsAddUp'
  <2>1. grants[g].reversed = 0
    BY <1>6 DEF AddGrant, Exists, TypeOK, GrantRows, NoGrant
  <2>2. \A h \in Grants : grants'[h].reversed = grants[h].reversed
    BY <1>6, <2>1 DEF AddGrant, TypeOK
  <2>3. ledger'.reversal = ledger.reversal
    BY <1>6 DEF AddGrant, TypeOK, Ledgers
  <2>4. QED
    BY <2>2, <2>3, RefundsFrame
<1>7. ASSUME NEW g \in Grants, NEW package \in Packages, NEW window \in Windows,
             NEW amount \in Amounts, GrantIncluded(g, package, window, amount)
      PROVE  RefundsAddUp'
  BY <1>6, <1>7 DEF GrantIncluded, GrantRows
<1>8. ASSUME NEW g \in Grants, NEW expires \in Expiries, NEW amount \in Amounts,
             GrantPurchased(g, expires, amount)
      PROVE  RefundsAddUp'
  BY <1>6, <1>8 DEF GrantPurchased, GrantRows
<1>9. ASSUME NEW gen \in Generations, NEW req \in Requests, Reserve(gen, req)
      PROVE  RefundsAddUp'
  BY <1>1, <1>9 DEF Reserve, TypeOK, Ledgers
<1>10. ASSUME NEW gen \in Generations, NEW evidence \in Evidence,
              Settle(gen, evidence)
       PROVE  RefundsAddUp'
  <2>1. UNCHANGED grants
    BY <1>10 DEF Settle
  <2> DEFINE share == [g \in Grants |-> SettledShare(gen, evidence.actual, g)]
  <2>2. ledger' = [ledger EXCEPT
                     !.settled[gen]  = [g \in Grants |-> @[g] + share[g]],
                     !.released[gen] = [g \in Grants |-> @[g] + held[gen][g] - share[g]]]
    BY <1>10 DEF Settle
  <2> HIDE DEF share
  <2>3. ASSUME NEW charged, NEW freed
        PROVE  [ledger EXCEPT !.settled = charged, !.released = freed].reversal
                 = ledger.reversal
    <3>1. ledger \in Ledgers
      BY DEF TypeOK
    <3>2. QED
      BY <3>1 DEF Ledgers
  <2>4. ledger'.reversal = ledger.reversal
    BY <2>2, <2>3
  <2>5. QED
    BY <1>1, <2>1, <2>4
<1>11. ASSUME NEW gen \in Generations, NEW evidence \in Evidence,
              SettleOverrun(gen, evidence)
       PROVE  RefundsAddUp'
  BY <1>1, <1>11 DEF SettleOverrun, TypeOK, Ledgers
<1>12. ASSUME NEW gen \in Generations, Release(gen)
       PROVE  RefundsAddUp'
  BY <1>1, <1>12 DEF Release, TypeOK, Ledgers
<1>13. ASSUME NEW gen \in Generations, MarkIndeterminate(gen)
       PROVE  RefundsAddUp'
  BY <1>1, <1>13 DEF MarkIndeterminate, TypeOK, Ledgers
<1>14. ASSUME NEW key \in ReversalKeys, NEW g \in Grants, ReversePurchase(key, g)
       PROVE  RefundsAddUp'
  BY <1>14, ReverseRefunds
<1>15. CASE UNCHANGED vars
  BY <1>1, <1>15 DEF vars
<1>16. QED
  BY <1>2, <1>3, <1>4, <1>5, <1>7, <1>8, <1>9, <1>10, <1>11, <1>12, <1>13, <1>14,
     <1>15 DEF Next

\* A refund or dispute is applied once per reversal key, whatever is redelivered.
THEOREM ReversalsAddUp == Spec => []RefundsAddUp
<1>1. QED
  BY Typed, InitRefunds, StepRefunds, PTL DEF Spec

-----------------------------------------------------------------------------
(* The customer's meter.                                                   *)

\* What is consumed and what is held of a grant are natural, and all it is charged.
LEMMA UsageAddsUp ==
  ASSUME TypeOK, NEW g \in Grants
  PROVE  /\ UsageIn({"settled"}, g) \in Nat
         /\ UsageIn(HoldingStates, g) \in Nat
         /\ Charged(g) = UsageIn({"settled"}, g) + UsageIn(HoldingStates, g)
<1> DEFINE used == [gen \in Generations |->
                      IF reservations[gen].state \in {"settled"} THEN Charge(gen, g) ELSE 0]
           kept == [gen \in Generations |->
                      IF reservations[gen].state \in HoldingStates THEN Charge(gen, g) ELSE 0]
           charge == [gen \in Generations |-> Charge(gen, g)]
<1>1. \A gen \in Generations : Charge(gen, g) \in Nat
  BY ChargeIsNat DEF ChargesAreNat
<1>2. \A gen \in Generations : used[gen] \in Nat /\ kept[gen] \in Nat
  BY <1>1
<1>3. \A gen \in Generations : charge[gen] = used[gen] + kept[gen]
  <2> SUFFICES ASSUME NEW gen \in Generations
               PROVE  charge[gen] = used[gen] + kept[gen]
    OBVIOUS
  <2>1. CASE reservations[gen].state = "settled"
    BY <1>1, <2>1 DEF HoldingStates
  <2>2. CASE reservations[gen].state \in HoldingStates
    BY <1>1, <2>2 DEF HoldingStates
  <2>3. CASE reservations[gen].state \notin HoldingStates \cup {"settled"}
    BY <2>3 DEF Charge
  <2>4. QED
    BY <2>1, <2>2, <2>3
<1> HIDE DEF used, kept, charge
<1>4. /\ Total(used, Generations) \in Nat /\ Total(kept, Generations) \in Nat
      /\ Total(charge, Generations) = Total(used, Generations) + Total(kept, Generations)
  BY <1>2, <1>3, TotalSum, TotalIsNat
<1>5. /\ UsageIn({"settled"}, g) = Total(used, Generations)
      /\ UsageIn(HoldingStates, g) = Total(kept, Generations)
      /\ Charged(g) = Total(charge, Generations)
  BY DEF UsageIn, Charged, used, kept, charge
<1>6. QED
  BY <1>4, <1>5

\* What can be spent is what is left of the active grants, and no more than they
\* were granted.
LEMMA SpendableIsAvailable ==
  ASSUME TypeOK, NoOverdraft
  PROVE  /\ TotalGranted \in Nat /\ Spendable \in Nat
         /\ Spendable = Total([g \in Grants |-> Available(g)], ActiveGrants)
         /\ Spendable <= TotalGranted
<1> DEFINE granted == [g \in Grants |-> GreaterOf(0, grants[g].granted - grants[g].reversed)]
           left    == [g \in Grants |-> Available(g)]
           charged == [g \in Grants |-> Charged(g)]
           used    == [g \in Grants |-> UsageIn({"settled"}, g)]
           kept    == [g \in Grants |-> UsageIn(HoldingStates, g)]
<1>1. ActiveGrants \subseteq Grants /\ IsFiniteSet(ActiveGrants)
  BY FS_Subset DEF ActiveGrants
<1>2. ASSUME NEW g \in Grants
      PROVE  /\ granted[g] = left[g] + charged[g]
             /\ left[g] \in Nat /\ charged[g] \in Nat /\ granted[g] \in Nat
  <2>1. /\ Charged(g) \in Nat /\ Available(g) \in Nat
        /\ grants[g].granted \in Nat /\ grants[g].reversed \in Nat
    BY AvailableIsNat
  <2>2. Charged(g) + grants[g].reversed <= grants[g].granted
    BY DEF NoOverdraft
  <2>3. QED
    BY <2>1, <2>2 DEF Available, GreaterOf
<1>3. ASSUME NEW g \in Grants
      PROVE  /\ charged[g] = used[g] + kept[g]
             /\ used[g] \in Nat /\ kept[g] \in Nat
  BY UsageAddsUp
<1>4. /\ TotalGranted = Total(granted, ActiveGrants)
      /\ TotalConsumed = Total(used, ActiveGrants)
      /\ TotalHeld = Total(kept, ActiveGrants)
  BY DEF TotalGranted, TotalConsumed, TotalHeld
<1>5. Total([g \in Grants |-> Available(g)], ActiveGrants) = Total(left, ActiveGrants)
  OBVIOUS
<1> HIDE DEF granted, left, charged, used, kept
<1>6. /\ \A g \in ActiveGrants : granted[g] = left[g] + charged[g]
      /\ \A g \in ActiveGrants : charged[g] = used[g] + kept[g]
      /\ \A g \in ActiveGrants : left[g] \in Nat
      /\ \A g \in ActiveGrants : charged[g] \in Nat
      /\ \A g \in ActiveGrants : used[g] \in Nat
      /\ \A g \in ActiveGrants : kept[g] \in Nat
  BY <1>1, <1>2, <1>3
<1>7. Total(granted, ActiveGrants) = Total(left, ActiveGrants) + Total(charged, ActiveGrants)
  BY <1>1, <1>6, TotalSum
<1>8. Total(charged, ActiveGrants) = Total(used, ActiveGrants) + Total(kept, ActiveGrants)
  BY <1>1, <1>6, TotalSum
<1>9. /\ Total(left, ActiveGrants) \in Nat
      /\ Total(used, ActiveGrants) \in Nat /\ Total(kept, ActiveGrants) \in Nat
  BY <1>1, <1>6, TotalIsNat
<1>10. QED
  BY <1>4, <1>5, <1>7, <1>8, <1>9 DEF Spendable, GreaterOf

\* A part in percent of the whole.
LEMMA PercentOfWhole ==
  ASSUME NEW whole \in Nat, NEW part \in Nat, part <= whole, whole # 0
  PROVE  (part * 100) \div whole \in 0..100
<1> DEFINE q == (part * 100) \div whole
           r == (part * 100) % whole
<1>1. q \in Int /\ r \in 0..(whole - 1) /\ part * 100 = whole * q + r
  OBVIOUS
<1> HIDE DEF q, r
<1>2. q >= 0
  <2>1. ASSUME q <= -1 PROVE FALSE
    <3>1. whole * q <= -whole
      BY <1>1, <2>1
    <3>2. QED
      BY <1>1, <3>1
  <2>2. QED
    BY <1>1, <2>1
<1>3. q <= 100
  <2>1. ASSUME q >= 101 PROVE FALSE
    <3>1. whole * q >= whole * 101
      BY <1>1, <2>1
    <3>2. QED
      BY <1>1, <3>1
  <2>2. QED
    BY <1>1, <2>1
<1>4. QED
  BY <1>1, <1>2, <1>3 DEF q

LEMMA MeterFollows == TypeOK /\ NoOverdraft => MeterIsHonest
<1> SUFFICES ASSUME TypeOK, NoOverdraft PROVE MeterIsHonest
  OBVIOUS
<1> DEFINE left == [g \in Grants |-> Available(g)]
<1>1. /\ TotalGranted \in Nat /\ Spendable \in Nat
      /\ Spendable = Total(left, ActiveGrants)
      /\ Spendable <= TotalGranted
  BY SpendableIsAvailable
<1>2. ASSUME NEW period \in Periods, NEW package \in Packages
      PROVE  Total(left, Eligible(period, package)) <= Spendable
  <2>1. Eligible(period, package) \in SUBSET ActiveGrants
    BY DEF Eligible, ActiveGrants
  <2>2. IsFiniteSet(ActiveGrants) /\ \A g \in ActiveGrants : left[g] \in Nat
    BY AvailableIsNat, FS_Subset DEF ActiveGrants
  <2> HIDE DEF left
  <2>3. QED
    BY <1>1, <2>1, <2>2, TotalOfSubset
<1>3. ASSUME RemainingPercent # None PROVE RemainingPercent \in 0..100
  <2>1. TotalGranted # 0
    BY <1>3 DEF RemainingPercent
  <2>2. RemainingPercent = (Spendable * 100) \div TotalGranted
    BY <2>1 DEF RemainingPercent
  <2>3. QED
    BY <1>1, <2>1, <2>2, PercentOfWhole
<1>4. QED
  BY <1>1, <1>2, <1>3 DEF MeterIsHonest

\* The meter never shows credit that is held or used, never hides credit a
\* reservation could get, and stays within 0 to 100 percent.
THEOREM MeterStaysHonest == Spec => []MeterIsHonest
<1>1. QED
  BY Typed, NeverOverdrawn, MeterFollows, PTL

-----------------------------------------------------------------------------
(* Debiting grants in order.                                               *)

\* The order of the loop is a strict total order on the grants.
LEMMA PrecedesIsTotal ==
  /\ \A x \in Grants : ~Precedes(x, x)
  /\ \A x, y, z \in Grants : Precedes(x, y) /\ Precedes(y, z) => Precedes(x, z)
  /\ \A x, y \in Grants : x = y \/ Precedes(x, y) \/ Precedes(y, x)
<1>1. \A x \in Grants : ~Precedes(x, x)
  BY DEF Precedes, Included
<1>2. \A x, y, z \in Grants : Precedes(x, y) /\ Precedes(y, z) => Precedes(x, z)
  BY DEF Precedes, Included
<1>3. \A x, y \in Grants : x = y \/ Precedes(x, y) \/ Precedes(y, x)
  <2>1. \A x, y \in Grants : x = y \/ x < y \/ y < x
    <3>1. \A x \in Grants : x \in Nat
      OBVIOUS
    <3>2. \A x, y \in Nat : x = y \/ x < y \/ y < x
      OBVIOUS
    <3>3. QED
      BY <3>1, <3>2
  <2>2. QED
    BY <2>1 DEF Precedes, Included
<1>4. QED
  BY <1>1, <1>2, <1>3

\* The order, as a set of pairs.
DebitOrder == { p \in Grants \X Grants : Precedes(p[1], p[2]) }

LEMMA DebitOrderIsTotal ==
  /\ \A x \in Grants : <<x, x>> \notin DebitOrder
  /\ \A x, y, z \in Grants :
       <<x, y>> \in DebitOrder /\ <<y, z>> \in DebitOrder => <<x, z>> \in DebitOrder
  /\ \A x, y \in Grants : x = y \/ <<x, y>> \in DebitOrder \/ <<y, x>> \in DebitOrder
<1>1. \A x, y \in Grants : <<x, y>> \in DebitOrder <=> Precedes(x, y)
  BY DEF DebitOrder
<1>2. QED
  BY <1>1, PrecedesIsTotal

\* The loop over the grants takes the whole amount, or everything there is.
LEMMA SharesAddUp ==
  ASSUME NEW amount \in Nat, NEW limit \in [Grants -> Nat], NEW rows \in SUBSET Grants
  PROVE  Total([g \in Grants |-> Share(amount, limit, rows, g)], rows)
           = LesserOf(amount, Total(limit, rows))
<1> DEFINE share == [g \in Grants |-> Share(amount, limit, rows, g)]
           Reached == { P \in SUBSET rows :
                          \A g \in P, h \in rows : <<h, g>> \in DebitOrder => h \in P }
           Bad == { P \in Reached :
                      Total(share, P) # LesserOf(amount, Total(limit, P)) }
<1>1. /\ IsFiniteSet(rows)
      /\ \A g \in rows : limit[g] \in Nat
      /\ \A g \in rows : share[g] \in Nat
  BY FS_Subset, ShareIsBounded
<1>2. ASSUME NEW g \in rows
      PROVE  share[g] = LesserOf(limit[g], GreaterOf(0, amount -
                          Total(limit, { h \in rows : <<h, g>> \in DebitOrder })))
  <2>1. { h \in rows : Precedes(h, g) } = { h \in rows : <<h, g>> \in DebitOrder }
    BY DEF DebitOrder
  <2>2. QED
    BY <2>1 DEF Share
<1> HIDE DEF share
<1>3. ASSUME NEW P \in Reached, \A Q \in Reached : Q \subseteq P /\ Q # P =>
                Total(share, Q) = LesserOf(amount, Total(limit, Q))
      PROVE  Total(share, P) = LesserOf(amount, Total(limit, P))
  <2>1. P \subseteq rows /\ IsFiniteSet(P)
    BY <1>1, FS_Subset
  <2>2. CASE P = {}
    <3>1. Total(share, P) = 0 /\ Total(limit, P) = 0
      <4>1. \A g \in P : share[g] = 0 /\ limit[g] = 0
        BY <2>2
      <4>2. QED
        BY <4>1, TotalZero
    <3>2. QED
      BY <3>1 DEF LesserOf
  <2>3. CASE P # {}
    <3>1. PICK y \in P : \A z \in P : <<y, z>> \notin DebitOrder
      <4>1. Orders(DebitOrder, P)
        BY <2>1, DebitOrderIsTotal DEF Orders
      <4>2. QED
        BY <2>1, <2>3, <4>1, LastElement
    <3> DEFINE rest == P \ {y}
    <3>2. rest = { h \in rows : <<h, y>> \in DebitOrder }
      <4>1. \A h \in rest : h \in rows /\ <<h, y>> \in DebitOrder
        BY <2>1, <3>1, DebitOrderIsTotal
      <4>2. \A h \in rows : <<h, y>> \in DebitOrder => h \in rest
        BY <2>1, <3>1, DebitOrderIsTotal
      <4>3. QED
        BY <4>1, <4>2
    <3>3. rest \in Reached
      <4>1. \A g \in rest, h \in rows : <<h, g>> \in DebitOrder => h \in rest
        BY <3>1
      <4>2. QED
        BY <2>1, <4>1
    <3>4. Total(share, rest) = LesserOf(amount, Total(limit, rest))
      BY <1>3, <3>3
    <3>5. /\ \A g \in P : limit[g] \in Nat
          /\ \A g \in P : share[g] \in Nat
      BY <1>1, <2>1
    <3>6. /\ Total(share, P) = Total(share, rest) + share[y]
          /\ Total(limit, P) = Total(limit, rest) + limit[y]
          /\ Total(limit, rest) \in Nat /\ limit[y] \in Nat
      BY <2>1, <3>1, <3>5, TotalSplit
    <3>7. share[y] = LesserOf(limit[y], GreaterOf(0, amount - Total(limit, rest)))
      BY <1>2, <2>1, <3>2
    <3> HIDE DEF rest
    <3>8. QED
      BY <3>4, <3>6, <3>7 DEF LesserOf, GreaterOf
  <2>4. QED
    BY <2>2, <2>3
<1>4. ASSUME Bad # {} PROVE FALSE
  <2>1. Bad \in SUBSET (SUBSET rows)
    OBVIOUS
  <2>2. PICK P \in Bad : \A Q \in Bad : Q \subseteq P => Q = P
    <3>1. IsFiniteSet(rows)
      BY <1>1
    <3> HIDE CapacityDomains DEF Bad
    <3>2. QED
      BY <1>4, <2>1, <3>1, SmallestSet
  <2>3. P \in Reached /\ Total(share, P) # LesserOf(amount, Total(limit, P))
    BY <2>2
  <2>4. \A Q \in Reached : Q \subseteq P /\ Q # P =>
           Total(share, Q) = LesserOf(amount, Total(limit, Q))
    BY <2>2
  <2> HIDE DEF Reached
  <2>5. QED
    BY <1>3, <2>3, <2>4
<1>5. rows \in Reached
  OBVIOUS
<1>6. Total(share, rows) = LesserOf(amount, Total(limit, rows))
  BY <1>4, <1>5
<1>7. QED
  BY <1>6 DEF share

-----------------------------------------------------------------------------
(* Holds and settlements are exact.                                        *)

\* A reservation that is covered takes exactly its amount.
LEMMA TakeIsExact ==
  ASSUME TypeOK, NEW req \in Requests, Covered(req)
  PROVE  Total(Take(req), Grants) = req.amount
<1> DEFINE rows  == Eligible(req.period, req.package)
           limit == [g \in Grants |-> Available(g)]
           share == [g \in Grants |-> Share(req.amount, limit, rows, g)]
<1>1. limit \in [Grants -> Nat] /\ rows \in SUBSET Grants /\ req.amount \in Nat
  BY AvailableIsNat DEF Eligible, Requests
<1>2. Take(req) = [g \in Grants |-> IF g \in rows THEN share[g] ELSE 0]
  BY DEF Take
<1>3. Total(limit, rows) >= req.amount
  BY DEF Covered
<1>4. Total(limit, rows) \in Nat
  <2>1. IsFiniteSet(rows) /\ \A g \in rows : limit[g] \in Nat
    BY <1>1, FS_Subset
  <2> HIDE DEF rows, limit
  <2>2. QED
    BY <2>1, TotalIsNat
<1>5. Total(share, rows) = LesserOf(req.amount, Total(limit, rows))
  <2> HIDE DEF rows, limit
  <2>1. QED
    BY <1>1, SharesAddUp
<1> HIDE DEF rows, limit, share
<1>6. Total(Take(req), Grants) = Total(Take(req), rows)
  <2>1. \A g \in Grants \ rows : Take(req)[g] = 0
    BY <1>2
  <2>2. QED
    BY <1>1, <2>1, TotalOfPart
<1>7. Total(Take(req), rows) = Total(share, rows)
  <2>1. \A g \in rows : Take(req)[g] = share[g]
    BY <1>1, <1>2
  <2>2. QED
    BY <2>1, TotalSame
<1>8. QED
  BY <1>1, <1>3, <1>4, <1>5, <1>6, <1>7 DEF LesserOf

\* A settlement that the rows cover charges exactly the reported cost.
LEMMA SettlementIsExact ==
  ASSUME TypeOK, NEW gen \in Generations, NEW actual \in Actuals,
         Total(held[gen], Rows(gen)) >= actual
  PROVE  Total([g \in Grants |-> SettledShare(gen, actual, g)], Grants) = actual
<1> DEFINE rows   == Rows(gen)
           limit  == held[gen]
           share  == [g \in Grants |-> Share(actual, limit, rows, g)]
           charge == [g \in Grants |-> SettledShare(gen, actual, g)]
<1>1. limit \in [Grants -> Nat] /\ rows \in SUBSET Grants /\ actual \in Nat
  BY DEF TypeOK, Rows
<1>2. \A g \in Grants : charge[g] = IF g \in rows THEN share[g] ELSE 0
  BY DEF SettledShare
<1>3. Total(limit, rows) >= actual
  OBVIOUS
<1>4. Total(limit, rows) \in Nat
  <2>1. IsFiniteSet(rows) /\ \A g \in rows : limit[g] \in Nat
    BY <1>1, FS_Subset
  <2> HIDE DEF rows, limit
  <2>2. QED
    BY <2>1, TotalIsNat
<1>5. Total(share, rows) = LesserOf(actual, Total(limit, rows))
  <2> HIDE DEF rows, limit
  <2>1. QED
    BY <1>1, SharesAddUp
<1> HIDE DEF rows, limit, share, charge
<1>6. Total(charge, Grants) = Total(charge, rows)
  <2>1. \A g \in Grants \ rows : charge[g] = 0
    BY <1>2
  <2>2. QED
    BY <1>1, <2>1, TotalOfPart
<1>7. Total(charge, rows) = Total(share, rows)
  <2>1. \A g \in rows : charge[g] = share[g]
    BY <1>1, <1>2
  <2>2. QED
    BY <2>1, TotalSame
<1>8. Total(charge, Grants) = actual
  BY <1>1, <1>3, <1>4, <1>5, <1>6, <1>7 DEF LesserOf
<1>9. QED
  BY <1>8 DEF charge

\* HeldAndSettledExactly, of one reservation.
ExactAt(gen) ==
    /\ reservations[gen].state # "none" =>
         Total(held[gen], Grants) = reservations[gen].request.amount
    /\ reservations[gen].state = "settled" =>
         /\ Total([g \in Grants |-> Charge(gen, g)], Grants)
              = reservations[gen].evidence.actual
         /\ reservations[gen].settled = reservations[gen].evidence.actual

LEMMA ExactByRow ==
  HeldAndSettledExactly <=> \A gen \in Generations : ExactAt(gen)
BY DEF HeldAndSettledExactly, ExactAt

\* A reservation that is not touched stays exact.
LEMMA ExactFrame ==
  ASSUME NEW gen \in Generations, ExactAt(gen), reservations'[gen] = reservations[gen],
         held'[gen] = held[gen], spent'[gen] = spent[gen]
  PROVE  ExactAt(gen)'
<1>1. [g \in Grants |-> Charge(gen, g)]' = [g \in Grants |-> Charge(gen, g)]
  BY ChargeFrame
<1>2. QED
  BY <1>1 DEF ExactAt

\* So does one that keeps its hold and its request and is not settled.
LEMMA ExactWhileHeld ==
  ASSUME NEW gen \in Generations, ExactAt(gen), reservations[gen].state # "none",
         held'[gen] = held[gen], reservations'[gen].state # "settled",
         reservations'[gen].request = reservations[gen].request
  PROVE  ExactAt(gen)'
BY DEF ExactAt

LEMMA InitExact == Init => HeldAndSettledExactly
BY DEF Init, NoReservation, HeldAndSettledExactly

\* A step of one reservation leaves the others exact.
LEMMA ExactAfterOne ==
  ASSUME HeldAndSettledExactly, NEW gen \in Generations, ExactAt(gen)',
         \A other \in Generations \ {gen} :
            /\ reservations'[other] = reservations[other]
            /\ held'[other] = held[other] /\ spent'[other] = spent[other]
  PROVE  HeldAndSettledExactly'
<1>1. \A x \in Generations : ExactAt(x)
  BY ExactByRow
<1>2. \A x \in Generations \ {gen} : ExactAt(x)'
  BY <1>1, ExactFrame
<1>3. \A x \in Generations : ExactAt(x)'
  BY <1>2
<1>4. QED
  BY <1>3 DEF HeldAndSettledExactly, ExactAt

LEMMA ReserveExact ==
  ASSUME TypeOK, HeldAndSettledExactly, NEW gen \in Generations, NEW req \in Requests,
         Reserve(gen, req)
  PROVE  HeldAndSettledExactly'
<1>1. reservations'[gen].state = "reserved" /\ reservations'[gen].request = req
  BY DEF Reserve, TypeOK
<1>2. held'[gen] = Take(req)
  BY DEF Reserve, TypeOK
<1>3. Total(Take(req), Grants) = req.amount
  BY TakeIsExact DEF Reserve
<1>4. ExactAt(gen)'
  BY <1>1, <1>2, <1>3 DEF ExactAt
<1>5. QED
  BY <1>4, ExactAfterOne DEF Reserve, TypeOK

LEMMA SettleExact ==
  ASSUME TypeOK, HeldAndSettledExactly, NEW gen \in Generations,
         NEW evidence \in Evidence, Settle(gen, evidence)
  PROVE  HeldAndSettledExactly'
<1>1. reservations[gen] \in Reservations /\ evidence.actual \in Actuals
  BY DEF TypeOK, Evidence
<1>2. /\ reservations'[gen].request = reservations[gen].request
      /\ reservations'[gen].settled = evidence.actual
      /\ reservations'[gen].evidence = evidence
  <2>1. reservations' = [reservations EXCEPT
          ![gen].state = "settled", ![gen].settled = evidence.actual,
          ![gen].evidence = evidence]
    BY DEF Settle
  <2>2. QED
    BY <1>1, <2>1 DEF TypeOK, Reservations
<1>3. Total(held[gen], Rows(gen)) >= evidence.actual /\ held' = held
  BY DEF Settle
<1>4. reservations[gen].state # "none"
  BY DEF Settle, Open
<1>5. [g \in Grants |-> Charge(gen, g)]' = [g \in Grants |-> SettledShare(gen, evidence.actual, g)]
  BY SettleLowersCharges
<1>6. Total([g \in Grants |-> SettledShare(gen, evidence.actual, g)], Grants) = evidence.actual
  BY <1>1, <1>3, SettlementIsExact
<1>7. Total([g \in Grants |-> Charge(gen, g)], Grants)' = evidence.actual
  BY <1>5, <1>6
<1>8. Total(held[gen], Grants) = reservations[gen].request.amount
  BY <1>4 DEF HeldAndSettledExactly
<1>9. ExactAt(gen)'
  BY <1>2, <1>3, <1>7, <1>8 DEF ExactAt
<1>10. \A other \in Generations \ {gen} :
         /\ reservations'[other] = reservations[other]
         /\ held'[other] = held[other] /\ spent'[other] = spent[other]
  BY DEF Settle, TypeOK
<1>11. QED
  BY <1>9, <1>10, ExactAfterOne

LEMMA StepExact ==
  TypeOK /\ HeldAndSettledExactly /\ [Next]_vars => HeldAndSettledExactly'
<1> SUFFICES ASSUME TypeOK, HeldAndSettledExactly, [Next]_vars
             PROVE  HeldAndSettledExactly'
  OBVIOUS
<1>1. ASSUME UNCHANGED <<reservations, held, spent>>
      PROVE  HeldAndSettledExactly'
  <2>1. \A gen \in Generations : ExactAt(gen)'
    BY <1>1, ExactByRow, ExactFrame
  <2>2. QED
    BY <2>1 DEF HeldAndSettledExactly, ExactAt
<1>2. CASE Tick
  BY <1>1, <1>2 DEF Tick
<1>3. CASE SetActivationReady
  BY <1>1, <1>3 DEF SetActivationReady
<1>4. ASSUME NEW expected \in 1..MaxRevision, NEW choice \in PolicyChoices,
             UpdatePolicy(expected, choice)
      PROVE  HeldAndSettledExactly'
  BY <1>1, <1>4 DEF UpdatePolicy
<1>5. ASSUME NEW choice \in EntitlementChoices, ProjectEntitlement(choice)
      PROVE  HeldAndSettledExactly'
  BY <1>1, <1>5 DEF ProjectEntitlement
<1>6. ASSUME NEW g \in Grants, NEW row, AddGrant(g, row)
      PROVE  HeldAndSettledExactly'
  BY <1>1, <1>6 DEF AddGrant
<1>7. ASSUME NEW key \in ReversalKeys, NEW g \in Grants, ReversePurchase(key, g)
      PROVE  HeldAndSettledExactly'
  BY <1>1, <1>7 DEF ReversePurchase
<1>8. ASSUME NEW gen \in Generations, NEW req \in Requests, Reserve(gen, req)
      PROVE  HeldAndSettledExactly'
  BY <1>8, ReserveExact
<1>9. ASSUME NEW gen \in Generations, NEW evidence \in Evidence,
             Settle(gen, evidence)
      PROVE  HeldAndSettledExactly'
  BY <1>9, SettleExact
<1>10. ASSUME NEW gen \in Generations, NEW state, state # "settled",
              reservations[gen].state # "none", reservations'[gen].state = state,
              RequestsKept, UNCHANGED <<held, spent>>,
              \A other \in Generations \ {gen} : reservations'[other] = reservations[other]
       PROVE  HeldAndSettledExactly'
  <2>1. ExactAt(gen)'
    BY <1>10, ExactByRow, ExactWhileHeld DEF RequestsKept
  <2>2. QED
    BY <1>10, <2>1, ExactAfterOne
<1>11. ASSUME NEW gen \in Generations, NEW evidence \in Evidence,
              SettleOverrun(gen, evidence)
       PROVE  HeldAndSettledExactly'
  <2>1. /\ reservations[gen].state # "none"
        /\ reservations'[gen].state = "reconciliation_required"
        /\ \A other \in Generations \ {gen} : reservations'[other] = reservations[other]
        /\ UNCHANGED <<held, spent>>
    BY <1>11 DEF SettleOverrun, Open, TypeOK, Reservations
  <2>2. RequestsKept
    BY <1>11, ClosingKeepsRequests
  <2>3. QED
    BY <1>10, <2>1, <2>2
<1>12. ASSUME NEW gen \in Generations, Release(gen)
       PROVE  HeldAndSettledExactly'
  <2>1. /\ reservations[gen].state # "none"
        /\ reservations'[gen].state = "released"
        /\ \A other \in Generations \ {gen} : reservations'[other] = reservations[other]
        /\ UNCHANGED <<held, spent>>
    BY <1>12 DEF Release, Open, TypeOK, Reservations
  <2>2. RequestsKept
    BY <1>12, ClosingKeepsRequests
  <2>3. QED
    BY <1>10, <2>1, <2>2
<1>13. ASSUME NEW gen \in Generations, MarkIndeterminate(gen)
       PROVE  HeldAndSettledExactly'
  <2>1. /\ reservations[gen].state # "none"
        /\ reservations'[gen].state = "indeterminate"
        /\ \A other \in Generations \ {gen} : reservations'[other] = reservations[other]
        /\ UNCHANGED <<held, spent>>
    BY <1>13 DEF MarkIndeterminate, TypeOK, Reservations
  <2>2. RequestsKept
    BY <1>13, ClosingKeepsRequests
  <2>3. QED
    BY <1>10, <2>1, <2>2
<1>14. CASE UNCHANGED vars
  BY <1>1, <1>14 DEF vars
<1>15. QED
  BY <1>2, <1>3, <1>4, <1>5, <1>6, <1>7, <1>8, <1>9, <1>11, <1>12, <1>13, <1>14
     DEF Next, GrantIncluded, GrantPurchased

\* What a reservation holds adds up to its amount, and what a settled one charges
\* adds up to the reported cost.
THEOREM HoldsAreExact == Spec => []HeldAndSettledExactly
<1>1. QED
  BY Typed, InitExact, StepExact, PTL DEF Spec

-----------------------------------------------------------------------------
(* Included capacity is spent first.                                       *)

\* A row that gets a share leaves nothing of the rows before it.
LEMMA EarlierRowsAreUsedUp ==
  ASSUME NEW amount \in Nat, NEW limit \in [Grants -> Nat], NEW rows \in SUBSET Grants,
         NEW g \in rows, NEW h \in rows, Precedes(g, h),
         Share(amount, limit, rows, h) > 0
  PROVE  Share(amount, limit, rows, g) = limit[g]
<1> DEFINE beforeG == { k \in rows : Precedes(k, g) }
           beforeH == { k \in rows : Precedes(k, h) }
           upToG   == beforeG \cup {g}
<1>1. \A x, y, z \in Grants : Precedes(x, y) /\ Precedes(y, z) => Precedes(x, z)
  BY PrecedesIsTotal
<1>2. ~Precedes(g, g)
  BY PrecedesIsTotal
<1>3. upToG \in SUBSET beforeH /\ g \notin beforeG
  BY <1>1, <1>2
<1>4. /\ IsFiniteSet(beforeH) /\ IsFiniteSet(upToG) /\ IsFiniteSet(beforeG)
      /\ \A k \in beforeH : limit[k] \in Nat
      /\ \A k \in upToG : limit[k] \in Nat
      /\ \A k \in beforeG : limit[k] \in Nat
  <2>1. /\ beforeG \in SUBSET Grants /\ beforeH \in SUBSET Grants /\ upToG \in SUBSET Grants
    OBVIOUS
  <2> HIDE DEF beforeG, beforeH, upToG
  <2>2. QED
    BY <2>1, FS_Subset
<1>5. upToG \ {g} = beforeG /\ g \in upToG
  BY <1>3
<1>6. /\ Share(amount, limit, rows, g)
           = LesserOf(limit[g], GreaterOf(0, amount - Total(limit, beforeG)))
      /\ Share(amount, limit, rows, h)
           = LesserOf(limit[h], GreaterOf(0, amount - Total(limit, beforeH)))
  BY DEF Share
<1>7. limit[g] \in Nat /\ limit[h] \in Nat
  OBVIOUS
<1> HIDE DEF beforeG, beforeH, upToG
<1>8. /\ Total(limit, upToG) = Total(limit, beforeG) + limit[g]
      /\ Total(limit, beforeG) \in Nat
  BY <1>4, <1>5, TotalSplit
<1>9. Total(limit, upToG) <= Total(limit, beforeH) /\ Total(limit, beforeH) \in Nat
  BY <1>3, <1>4, TotalOfSubset, TotalIsNat
<1>10. QED
  BY <1>6, <1>7, <1>8, <1>9 DEF LesserOf, GreaterOf

\* IncludedIsSpentFirst, of one reservation.
IncludedFirstAt(gen) ==
    \A g, h \in Grants :
        /\ reservations[gen].state = "settled"
        /\ Included(g) /\ ~Included(h)
        /\ Charge(gen, h) > 0
        => Charge(gen, g) = held[gen][g]

LEMMA IncludedFirstByRow ==
  IncludedIsSpentFirst <=> \A gen \in Generations : IncludedFirstAt(gen)
BY DEF IncludedIsSpentFirst, IncludedFirstAt

LEMMA InitIncludedFirst == Init => IncludedIsSpentFirst
BY DEF Init, NoReservation, IncludedIsSpentFirst

\* Whether a grant is included capacity does not change.
KindsKept == \A g \in Grants : Included(g)' <=> Included(g)

\* A reservation that is not touched.
LEMMA IncludedFirstFrame ==
  ASSUME NEW gen \in Generations, IncludedFirstAt(gen), KindsKept,
         reservations'[gen] = reservations[gen],
         held'[gen] = held[gen], spent'[gen] = spent[gen]
  PROVE  IncludedFirstAt(gen)'
<1>1. \A g \in Grants : Charge(gen, g)' = Charge(gen, g)
  BY ChargeFrame
<1>2. QED
  BY <1>1 DEF IncludedFirstAt, KindsKept

\* A step of one reservation keeps the others as they should be.
LEMMA IncludedFirstAfterOne ==
  ASSUME IncludedIsSpentFirst, KindsKept, NEW gen \in Generations, IncludedFirstAt(gen)',
         \A other \in Generations \ {gen} :
            /\ reservations'[other] = reservations[other]
            /\ held'[other] = held[other] /\ spent'[other] = spent[other]
  PROVE  IncludedIsSpentFirst'
<1>1. \A x \in Generations : IncludedFirstAt(x)
  BY IncludedFirstByRow
<1>2. \A x \in Generations \ {gen} : IncludedFirstAt(x)'
  BY <1>1, IncludedFirstFrame
<1>3. \A x \in Generations : IncludedFirstAt(x)'
  BY <1>2
<1>4. QED
  BY <1>3 DEF IncludedIsSpentFirst, IncludedFirstAt

\* A settlement reaches a purchased row only past every included one.
LEMMA SettleIncludedFirst ==
  ASSUME TypeOK, IncludedIsSpentFirst, NEW gen \in Generations,
         NEW evidence \in Evidence, Settle(gen, evidence)
  PROVE  IncludedIsSpentFirst'
<1> DEFINE actual == evidence.actual
<1>1. UNCHANGED <<grants, held>>
  BY DEF Settle
<1>2. KindsKept
  BY <1>1 DEF KindsKept, Included
<1>3. ASSUME NEW g \in Grants, NEW h \in Grants, Included(g), ~Included(h),
             Charge(gen, h)' > 0
      PROVE  Charge(gen, g)' = held[gen][g]
  <2>1. /\ Charge(gen, g)' = SettledShare(gen, actual, g)
        /\ Charge(gen, h)' = SettledShare(gen, actual, h)
    BY SettleLowersCharges
  <2>2. /\ actual \in Nat /\ held[gen] \in [Grants -> Nat]
        /\ Rows(gen) \in SUBSET Grants
    BY DEF Evidence, TypeOK, Rows
  <2> HIDE DEF actual
  <2>3. h \in Rows(gen) /\ Share(actual, held[gen], Rows(gen), h) > 0
    BY <1>3, <2>1 DEF SettledShare
  <2>4. Precedes(g, h)
    BY <1>3 DEF Precedes
  <2>5. CASE g \in Rows(gen)
    <3>1. Share(actual, held[gen], Rows(gen), g) = held[gen][g]
      BY <2>2, <2>3, <2>4, <2>5, EarlierRowsAreUsedUp
    <3>2. QED
      BY <2>1, <2>5, <3>1 DEF SettledShare
  <2>6. CASE g \notin Rows(gen)
    <3>1. held[gen][g] \in Nat /\ ~(held[gen][g] > 0)
      BY <2>2, <2>6 DEF Rows
    <3>2. held[gen][g] = 0
      BY <3>1
    <3>3. QED
      BY <2>1, <2>6, <3>2 DEF SettledShare
  <2>7. QED
    BY <2>5, <2>6
<1>4. IncludedFirstAt(gen)'
  BY <1>1, <1>2, <1>3 DEF IncludedFirstAt, KindsKept
<1>5. \A other \in Generations \ {gen} :
        /\ reservations'[other] = reservations[other]
        /\ held'[other] = held[other] /\ spent'[other] = spent[other]
  BY DEF Settle, TypeOK
<1>6. QED
  BY <1>2, <1>4, <1>5, IncludedFirstAfterOne

\* A new grant is charged by nobody.
LEMMA AddGrantIncludedFirst ==
  ASSUME TypeOK, NoOverdraft, AllowanceInv, IncludedIsSpentFirst,
         NEW g \in Grants, NEW row, AddGrant(g, row)
  PROVE  IncludedIsSpentFirst'
<1>1. UNCHANGED <<reservations, held, spent>>
  BY DEF AddGrant
<1>2. \A gen \in Generations, x \in Grants : Charge(gen, x)' = Charge(gen, x)
  BY <1>1, ChargesUnchanged
<1>3. \A x \in Grants \ {g} : Included(x)' <=> Included(x)
  BY DEF AddGrant, TypeOK, Included
<1>4. Charged(g) = 0
  <2>1. grants[g] = NoGrant
    BY DEF AddGrant, Exists, TypeOK, GrantRows
  <2>2. Charged(g) + grants[g].reversed <= grants[g].granted /\ Charged(g) \in Nat
    BY AvailableIsNat DEF NoOverdraft
  <2>3. QED
    BY <2>1, <2>2 DEF NoGrant
<1>5. \A gen \in Generations : Charge(gen, g) = 0 /\ held[gen][g] = 0
  <2> SUFFICES ASSUME NEW gen \in Generations
               PROVE  Charge(gen, g) = 0 /\ held[gen][g] = 0
    OBVIOUS
  <2> DEFINE charge == [x \in Generations |-> Charge(x, g)]
  <2>1. \A x \in Generations : charge[x] \in Nat
    BY ChargeIsNat DEF ChargesAreNat
  <2>2. Total(charge, Generations) = 0 /\ charge[gen] = Charge(gen, g)
    BY <1>4 DEF Charged
  <2>3. held[gen][g] \in Nat /\ ~(held[gen][g] > 0)
    BY DEF TypeOK, AddGrant, AllowanceInv, HeldRowsExist
  <2> HIDE DEF charge
  <2>4. charge[gen] <= Total(charge, Generations)
    BY <2>1, TotalBoundsRow
  <2>5. QED
    BY <2>1, <2>2, <2>3, <2>4
<1>6. ASSUME NEW gen \in Generations, NEW x \in Grants, NEW y \in Grants,
             reservations'[gen].state = "settled", Included(x)', ~Included(y)',
             Charge(gen, y)' > 0
      PROVE  Charge(gen, x)' = held'[gen][x]
  <2>1. Charge(gen, y) > 0 /\ y # g
    BY <1>2, <1>5, <1>6
  <2>2. ~Included(y)
    BY <1>3, <1>6, <2>1
  <2>3. CASE x = g
    BY <1>1, <1>2, <1>5, <2>3
  <2>4. CASE x # g
    <3>1. Included(x)
      BY <1>3, <1>6, <2>4
    <3>2. Charge(gen, x) = held[gen][x]
      BY <1>1, <1>6, <2>1, <2>2, <3>1 DEF IncludedIsSpentFirst
    <3>3. QED
      BY <1>1, <1>2, <3>2
  <2>5. QED
    BY <2>3, <2>4
<1>7. QED
  BY <1>6 DEF IncludedIsSpentFirst

LEMMA StepIncludedFirst ==
  TypeOK /\ NoOverdraft /\ AllowanceInv /\ IncludedIsSpentFirst /\ [Next]_vars
    => IncludedIsSpentFirst'
<1> SUFFICES ASSUME TypeOK, NoOverdraft, AllowanceInv, IncludedIsSpentFirst, [Next]_vars
             PROVE  IncludedIsSpentFirst'
  OBVIOUS
<1>1. ASSUME UNCHANGED <<reservations, held, spent>>, KindsKept
      PROVE  IncludedIsSpentFirst'
  <2>1. \A gen \in Generations : IncludedFirstAt(gen)'
    BY <1>1, IncludedFirstByRow, IncludedFirstFrame
  <2>2. QED
    BY <2>1 DEF IncludedIsSpentFirst, IncludedFirstAt
<1>2. ASSUME UNCHANGED <<grants, reservations, held, spent>>
      PROVE  IncludedIsSpentFirst'
  <2>1. KindsKept
    BY <1>2 DEF KindsKept, Included
  <2>2. QED
    BY <1>1, <1>2, <2>1
<1>3. CASE Tick
  BY <1>2, <1>3 DEF Tick
<1>4. CASE SetActivationReady
  BY <1>2, <1>4 DEF SetActivationReady
<1>5. ASSUME NEW expected \in 1..MaxRevision, NEW choice \in PolicyChoices,
             UpdatePolicy(expected, choice)
      PROVE  IncludedIsSpentFirst'
  BY <1>2, <1>5 DEF UpdatePolicy
<1>6. ASSUME NEW choice \in EntitlementChoices, ProjectEntitlement(choice)
      PROVE  IncludedIsSpentFirst'
  BY <1>2, <1>6 DEF ProjectEntitlement
<1>7. ASSUME NEW g \in Grants, NEW row, AddGrant(g, row)
      PROVE  IncludedIsSpentFirst'
  BY <1>7, AddGrantIncludedFirst
<1>8. ASSUME NEW key \in ReversalKeys, NEW g \in Grants, ReversePurchase(key, g)
      PROVE  IncludedIsSpentFirst'
  <2>1. grants[g] \in GrantRows
    BY <1>8 DEF ReversePurchase, TypeOK, NoGrant
  <2>2. TermsKept
    BY <1>8, <2>1 DEF ReversePurchase, TypeOK, TermsKept, GrantRows
  <2>3. KindsKept
    BY <2>2 DEF TermsKept, KindsKept, Included
  <2>4. UNCHANGED <<reservations, held, spent>>
    BY <1>8 DEF ReversePurchase
  <2>5. QED
    BY <1>1, <2>3, <2>4
<1>9. ASSUME NEW gen \in Generations, reservations'[gen].state # "settled",
             UNCHANGED grants,
             \A other \in Generations \ {gen} :
                /\ reservations'[other] = reservations[other]
                /\ held'[other] = held[other] /\ spent'[other] = spent[other]
      PROVE  IncludedIsSpentFirst'
  <2>1. KindsKept
    BY <1>9 DEF KindsKept, Included
  <2>2. IncludedFirstAt(gen)'
    BY <1>9 DEF IncludedFirstAt
  <2>3. QED
    BY <1>9, <2>1, <2>2, IncludedFirstAfterOne
<1>10. ASSUME NEW gen \in Generations, NEW req \in Requests, Reserve(gen, req)
       PROVE  IncludedIsSpentFirst'
  BY <1>9, <1>10 DEF Reserve, TypeOK
<1>11. ASSUME NEW gen \in Generations, NEW evidence \in Evidence,
              Settle(gen, evidence)
       PROVE  IncludedIsSpentFirst'
  BY <1>11, SettleIncludedFirst
<1>12. ASSUME NEW gen \in Generations, NEW evidence \in Evidence,
              SettleOverrun(gen, evidence)
       PROVE  IncludedIsSpentFirst'
  BY <1>9, <1>12 DEF SettleOverrun, TypeOK, Reservations
<1>13. ASSUME NEW gen \in Generations, Release(gen)
       PROVE  IncludedIsSpentFirst'
  BY <1>9, <1>13 DEF Release, TypeOK, Reservations
<1>14. ASSUME NEW gen \in Generations, MarkIndeterminate(gen)
       PROVE  IncludedIsSpentFirst'
  BY <1>9, <1>14 DEF MarkIndeterminate, TypeOK, Reservations
<1>15. CASE UNCHANGED vars
  BY <1>2, <1>15 DEF vars
<1>16. QED
  BY <1>3, <1>4, <1>5, <1>6, <1>7, <1>8, <1>10, <1>11, <1>12, <1>13, <1>14, <1>15
     DEF Next, GrantIncluded, GrantPurchased

\* A settlement charges purchased credit only when the included hold is used up.
THEOREM IncludedGoesFirst == Spec => []IncludedIsSpentFirst
<1>1. Spec => []AllowanceInv
  BY Typed, InitAllowance, StepAllowance, PTL DEF Spec
<1>2. QED
  BY <1>1, Typed, NeverOverdrawn, InitIncludedFirst, StepIncludedFirst, PTL DEF Spec
=============================================================================
