\* Wakes, pauses, machine resets and the shutdown in any order.
CONSTANTS
    NSlots = 2
    Wakers = {w1, w2}
SPECIFICATION FairSpec
INVARIANTS TypeOK PendingIsCovered
PROPERTIES WakeServed StopEnds
