\* Two clients, every option; the panics and the ends of the clients stop it.
SPECIFICATION FairSpec
CONSTANTS
    Clients = {c1, c2}
    OptsUsed = {"CRASH", "HEAP_OVERFLOW", "INFO_LEAK", "BUFFER_OVERFLOW", "USE_AFTER_FREE", "INTEGER_OVERFLOW", "DOUBLE_FETCH", "ARBITRARY_WRITE", "OTHER"}
INVARIANTS TypeOK NoBufferLeaked LateCallsUseBcopy SuccessMeansCopied
PROPERTIES RegistrationHappens
CHECK_DEADLOCK FALSE
