SPECIFICATION Spec
CONSTANTS
    NumKexts = 3
    IdSpace = 4
    HostFaults = TRUE
    DeviceFaults = TRUE
    SleepCovers = FALSE
INVARIANTS BundleIdsUnique
