-------------------------- MODULE CapacityAccount --------------------------
(***************************************************************************)
(* What the capacity ledger promises its callers, without rows, periods or *)
(* events: accounts with credit, and holders that hold a part of it once,  *)
(* then give back what they did not use, once.                             *)
(***************************************************************************)
EXTENDS Totals

CONSTANTS Accounts, Holders

VARIABLES
    credit,  \* what each account was funded with, less what was refunded
    charge,  \* what each holder takes out of each account
    phase    \* "free", "held" or "closed"

accountVars == <<credit, charge, phase>>

ChargedTo(a) == Total([h \in Holders |-> charge[h][a]], Holders)

Solvent == \A a \in Accounts : ChargedTo(a) <= credit[a]

Open ==
    /\ credit = [a \in Accounts |-> 0]
    /\ charge = [h \in Holders |-> [a \in Accounts |-> 0]]
    /\ phase = [h \in Holders |-> "free"]

OnlyChanges(h) ==
    \A other \in Holders \ {h} :
        charge'[other] = charge[other] /\ phase'[other] = phase[other]

\* More credit, or a refund of credit nobody holds or has used.
Fund ==
    /\ UNCHANGED <<charge, phase>>
    /\ Solvent'

\* A holder takes its hold.
Hold(h) ==
    /\ phase[h] = "free" /\ phase'[h] = "held"
    /\ OnlyChanges(h)
    /\ Solvent'
    /\ UNCHANGED credit

\* A holder keeps what it used, for good.
Close(h) ==
    /\ phase[h] = "held" /\ phase'[h] = "closed"
    /\ \A a \in Accounts : charge'[h][a] <= charge[h][a]
    /\ OnlyChanges(h)
    /\ UNCHANGED credit

AccountNext == Fund \/ \E h \in Holders : Hold(h) \/ Close(h)

AccountSpec == Open /\ [][AccountNext]_accountVars
=============================================================================
