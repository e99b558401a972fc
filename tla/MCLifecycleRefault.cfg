\* A faulted AP and a pause.
CONSTANTS
    Vcpu = {bsp, ap}
    Bsp = bsp
    MaxResetStorm = 1
    Ops = {"pause", "resume"}
    GuestActs = {"fault"}
    Failures = {}
SPECIFICATION Spec
INVARIANT FaultedNeverReenters
