\* A client that nests its calls, in plain and encrypted new files.
SPECIFICATION Spec
CONSTANTS
    MaxGeneration = 1
    MaxWritePosition = 100
    Disciplined = TRUE
    MayEncrypt <- BothWays
    OriginalXrefs <- NewFile
    ClientKeys = {"Filter", "Length"}
    MaxDictionaries = 1
    MaxObjects = 5
    MaxTokens = 11
    MaxRestarts = 0
INVARIANTS
    NoLengthIsMissing
    LengthObjectsMeasureStreams
    StreamsUseOwnKey
CHECK_DEADLOCK FALSE
