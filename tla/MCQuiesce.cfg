\* One worker and one pump race each other, the supervisor and the stopper on
\* in_flight and on the lock; the invariants are proved for any number.
CONSTANTS
    Workers = {w1}
    Pumps = {p1}
    Supervisor = sup
    Stopper = stopper
    NoOne = noone
SPECIFICATION FairSpec
INVARIANTS TypeOK SettledMeansIdle InFlightCounts
PROPERTIES ImplementsGate TeardownOnPausedVmEnds PauseIsBounded ResumeReleases
CHECK_DEADLOCK TRUE
