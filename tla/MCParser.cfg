\* Sound and broken files, through every kind of stream.
CONSTANTS
    Files <- MCFiles
    Setups <- MCAllSetups
    MaxYaml = 2
    IndexSize = 2
SPECIFICATION FairSpec
\* Some files are never left (HANG), and an assertion ends the process (ABORT).
CHECK_DEADLOCK FALSE
INVARIANTS
    IndexRecordsBlocks
    SoundBlocksFound
    SoundTreeEndIsPos
PROPERTIES
    EventOrder
    SoundTerminates
