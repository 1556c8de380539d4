\* A client that makes any call at any time.
SPECIFICATION Spec
CONSTANTS
    MaxGeneration = 1
    MaxWritePosition = 6
    Disciplined = FALSE
    MayEncrypt <- NeverEncrypted
    OriginalXrefs <- NewAndModifiedFiles
    ClientKeys = {"Filter", "Length"}
    MaxDictionaries = 3
    MaxObjects = 4
    MaxTokens = 3
    MaxRestarts = 1
INVARIANTS
    TypeOK
    XrefEntriesPointAtHeaders
PROPERTIES
    RestartKeepsXref
CHECK_DEADLOCK FALSE
