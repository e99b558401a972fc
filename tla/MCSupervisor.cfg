\* Every request, failing and not, of a VM that resets itself or powers off.
CONSTANTS
    Vcpu = {bsp}
    Bsp = bsp
    MaxResetStorm = 0
    Ops = {"pause", "resume", "reset", "save"}
    GuestActs = {"poweroff", "reset"}
    Failures = {"timeout", "machineReset", "save"}
    MaxRequests = 3
SPECIFICATION System
VIEW LiveVars
INVARIANTS SupTypeOK HonestState SuspendedNeverRuns StormBounded
