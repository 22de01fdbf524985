SPECIFICATION Spec
CONSTANTS
    NumKexts = 2
    IdSpace = 2
    HostFaults = FALSE
    DeviceFaults = FALSE
    SleepCovers = FALSE
INVARIANTS InsertedIntact
