CONSTANTS
    FileSize = 5
    BufSize = 2
    MaxCount = 3
    TokenLen <- MCTokenLen
    Files <- MCFiles
    RefillEmpty = TRUE
SPECIFICATION Spec
INVARIANT LineInBuffer
