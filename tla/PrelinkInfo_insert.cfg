SPECIFICATION Spec
CONSTANTS
    Kinds = {"NUL", "</array></dict>", "<dict>", "NNN0", "NNN1", "ADDRESS", "SIZE", "KMODINFO", "</dict>", "old", "data"}
    Base = 2
    Digits = 2
    IdDigits = 1
    Values = {0, 3}
    Sections <- MCSections
    MaxInserts = 3
INVARIANTS TypeOK TextHasAll NeverGivesUp
\* The device may be told to boot after any number of loads.
CHECK_DEADLOCK FALSE
