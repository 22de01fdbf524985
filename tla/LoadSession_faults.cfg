SPECIFICATION FairSpec
CONSTANTS
    NumKexts = 3
    IdSpace = 4
    HostFaults = TRUE
    DeviceFaults = FALSE
    SleepCovers = TRUE
INVARIANTS TypeOK InsertedInOrder InsertedIntact FailureIsolated
PROPERTIES SessionEnds BootsWithDelivered
