\* One client of the kind kext_client is.
SPECIFICATION Spec
CONSTANTS
    Clients = {c1}
    OptsUsed = {"HEAP_OVERFLOW"}
INVARIANTS NullMeansKernel
CHECK_DEADLOCK FALSE
