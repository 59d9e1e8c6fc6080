\* Two generations compete for one allowance and two top-ups over two periods.
CONSTANTS
    Grants = {1, 2}
    Generations = {g1, g2}
    Packages = {capacity_99}
    Modes = {fast}
    Quotes = {q1}
    Usages = {u1}
    Windows <- MCWindows
    PolicyChoices <- MCPolicyChoices
    DefaultBudget <- MCDefaultBudget
    EntitlementChoices <- MCEntitlementChoices
    Amounts = {2, 3}
    Actuals = {1, 3}
    Expiries = {1, 9}
    ReversalKeys = {r1}
    MaxClock = 1
    MaxRevision = 2
    None = None
SYMMETRY GenerationSymmetry
SPECIFICATION Spec
\* A workspace may rest: credit used up and nobody calling.
CHECK_DEADLOCK FALSE
INVARIANTS
    TypeOK
    NoOverdraft
    HeldAndSettledExactly
    LedgerExplainsCharges
    IncludedIsSpentFirst
    OneAllowancePerPeriod
    RefundsAddUp
    MeterIsHonest
PROPERTIES
    FinalIsFinal
    ImplementsAccount
