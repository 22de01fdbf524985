SPECIFICATION Spec
CONSTANTS
    Char = {1, 2}
    Names <- MCNames
    Uuids = {"u1", "u2", "u3"}
    Directories <- MCDirectories
    Space32 = 128
    SizeSpace = 16384
    HostMemory = 110
INVARIANTS TypeOK LookupMatchesFiles WholeBlobAccepted BlobFits StoresFit
