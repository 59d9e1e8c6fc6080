------------------------- MODULE MCAiCapacityLedger -------------------------
\* Instances of AiCapacityLedger for TLC.
EXTENDS AiCapacityLedger, TLC

GenerationSymmetry == Permutations(Generations)

MCWindows == { [period |-> "p1", start |-> 0, end |-> 2],
               [period |-> "p2", start |-> 1, end |-> 3] }

MCDefaultBudget == [k \in Packages |-> 2]

Open99 == [enabled |-> TRUE, frozen |-> FALSE, modes |-> Modes,
           budget |-> MCDefaultBudget]

MCPolicyChoices == { Open99, [Open99 EXCEPT !.frozen = TRUE] }

\* The workspace is entitled to either period, or cancelled in the first.
MCEntitlementChoices ==
    { c \in [active: BOOLEAN, package: Packages, window: MCWindows] :
        c.active \/ c.window.period = "p1" }
=============================================================================
