\* A power-off that meets a reset and then a pause.
CONSTANTS
    Vcpu = {bsp, ap}
    Bsp = bsp
    MaxResetStorm = 1
    Ops = {"pause", "reset"}
    GuestActs = {"poweroff"}
    Failures = {}
    MaxRequests = 2
SPECIFICATION FairSystem
PROPERTY StopAlwaysCompletes
CHECK_DEADLOCK FALSE
