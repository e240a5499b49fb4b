CONSTANTS
    r1 = r1
    r2 = r2
    Readers <- MCReaders
    NPages = 5
    ChunkPages = 2
    UIntPages = 4
    Sources <- MCSound
    Configs <- MCEager
    SetupFaults = {}
SPECIFICATION Spec
INVARIANT ReadsAreData
