\* An encrypted document whose writing is interrupted and continued.
SPECIFICATION Spec
CONSTANTS
    MaxGeneration = 1
    MaxWritePosition = 100
    Disciplined = TRUE
    MayEncrypt <- AlwaysEncrypted
    OriginalXrefs <- NewFile
    ClientKeys = {"Filter", "Length"}
    MaxDictionaries = 3
    MaxObjects = 4
    MaxTokens = 7
    MaxRestarts = 1
INVARIANT StreamsUseOwnKey
CHECK_DEADLOCK FALSE
