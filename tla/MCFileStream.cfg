CONSTANTS
    FileSize = 5
    BufSize = 2
    MaxCount = 3
    TokenLen <- MCTokenLen
    Files <- MCFiles
    RefillEmpty = FALSE
SPECIFICATION Spec
INVARIANTS
    Window
    ScanFindsFirst
    TellExact
    CaptureExact
PROPERTY
    LoopsEnd
