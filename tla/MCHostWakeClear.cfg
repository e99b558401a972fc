\* A wake inside the clear() of a machine reset.
CONSTANTS
    NSlots = 2
    Wakers = {w1, w2}
SPECIFICATION FairSpec
PROPERTY WakeAlwaysServed
