\* A client that nests its calls and modifies a file, restarts included.
SPECIFICATION Spec
CONSTANTS
    MaxGeneration = 2
    MaxWritePosition = 100
    Disciplined = TRUE
    MayEncrypt <- NeverEncrypted
    OriginalXrefs <- NewAndModifiedFiles
    ClientKeys = {"Filter", "Length"}
    MaxDictionaries = 1
    MaxObjects = 4
    MaxTokens = 7
    MaxRestarts = 1
INVARIANTS
    UpdateListsWhatChanged
    XrefFindsLastVersion
CHECK_DEADLOCK FALSE
