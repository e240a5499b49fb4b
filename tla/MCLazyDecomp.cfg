CONSTANTS
    r1 = r1
    r2 = r2
    Readers <- MCReaders
    NPages = 3
    ChunkPages = 2
    UIntPages = 8
    Sources <- MCSources
    Configs <- MCConfigs
    SetupFaults = {"uffd"}
SPECIFICATION FairSpec
INVARIANTS
    NoCopyOverFilled
    ReadsAreData
PROPERTIES
    FaultsResolved
    CloseReturns
