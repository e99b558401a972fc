\* The window is closed in the middle of anything; threads may be stuck.
CONSTANTS
    Vcpu = {bsp}
    Bsp = bsp
    MaxResetStorm = 0
    Ops = {"pause", "resume", "reset", "save"}
    GuestActs = {"fault"}
    Failures = {"timeout", "flush", "vcpuReset"}
    MaxRequests = 2
SPECIFICATION WedgedSystem
PROPERTIES OpsReturn UserStopCompletes
