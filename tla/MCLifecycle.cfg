\* Every operation, timing out at any barrier or failing in the machine's
\* reset, and a guest that resets itself or triple-faults.
CONSTANTS
    Vcpu = {bsp, ap}
    Bsp = bsp
    MaxResetStorm = 0
    Ops = {"pause", "resume", "reset", "save"}
    GuestActs = {"reset", "fault"}
    Failures = {"timeout", "machineReset"}
SPECIFICATION Spec
VIEW LiveVars
INVARIANTS TypeOK HeldMeansFrozen SnapshotIsFrozen ResetMachineExclusive RunsFresh NoSpuriousReboot
