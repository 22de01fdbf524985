\* Images linked at 0, and at an address beyond their own size.
SPECIFICATION Spec
CONSTANTS
    Space = 16
    Space32 = 8
    Page = 2
    Names <- MCNames
    Kmod = "_kmod_info"
    Known <- MCKnown
    Images <- MCImages
    Bases = {0, 5}
INVARIANTS TypeOK CopiesInBounds   
