SPECIFICATION FairSpec
CONSTANTS
    Username = {alice, bob}
    Bootstrap = {alice}
    Token = {t1}
    Ttl = 2
    Window = 2
    MaxFails = 2
    MaxId = 3
    Request = {q1, q2}
INVARIANTS TypeOK LastUserStaysUnlessRaced FailuresBounded
PROPERTY LimiterReleases
