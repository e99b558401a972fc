\* The driver sets the function up, then only masks and unmasks vectors.
CONSTANTS
    Threads = {rx}
    Handler = handler
    Sources = {queue, config}
    Vectors = {v1, v2}
    None = none
    Beyond = beyond
    LiveControl = FALSE
    Refusals = 1
SPECIFICATION FairSpec
INVARIANTS TypeOK PendingIsDeferred NoEventLost
PROPERTY EventIsTold
