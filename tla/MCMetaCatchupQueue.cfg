\* One conversation asked for twice, two workers and a token for each; with liveness and
\* therefore without symmetry.
CONSTANTS
    Fans = {f1}
    Workers = {w1, w2}
    Tokens = {k1, k2}
    MaxAttempts = 2
    MaxRequests = 2
    NoToken = NoToken
    NoFan = NoFan
SPECIFICATION FairSpec
INVARIANTS
    TypeOK
    NoRequestLost
PROPERTIES
    ImplementsRequests
    FreshRequestsSurviveFailures
    OpenJobsEnd
