\* Images linked at 1, with one local relocation.
SPECIFICATION Spec
CONSTANTS
    Space = 16
    Space32 = 8
    Page = 2
    Names <- MCNames
    Kmod = "_kmod_info"
    Known <- MCKnown
    Images <- MCRelocated
    Bases = {1}
INVARIANTS SlidWhereDocumented
