SPECIFICATION Spec
CONSTANTS
    NumKexts = 1
    IdSpace = 2
    HostFaults = TRUE
    DeviceFaults = FALSE
    SleepCovers = TRUE
INVARIANTS BootedWithAll
