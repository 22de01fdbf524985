SPECIFICATION Spec
CONSTANTS
    Texts <- MCTexts
    MaxSearch = 4
    MaxCopies = 2
INVARIANTS TypeOK NoLockdownSurvives BootsAsIntended MissingMeansAbsent BootsWithOneCopy
