\* Two runs that send and two that look up the receipt, over three attempts.
CONSTANTS
    Senders = {s1, s2}
    Checkers = {c1, c2}
    PushTokens = {t1, t2}
    MaxAttempts = 3
    MaxChecks = 2
    KeyPrefix = ""
    NoPushToken = NoPushToken
SYMMETRY RunSymmetry
SPECIFICATION Spec
\* The reminder is settled and its registration deleted: nothing is left to do.
CHECK_DEADLOCK FALSE
INVARIANTS
    TypeOK
    AtMostOnePush
    DisabledMeansGone
    VerdictsAreTrue
PROPERTIES
    VerdictsAreFinal
