SPECIFICATION Spec
CONSTANTS
    MaxNatives = 7
    MaxDepth = 3
    Programs <- MCPrograms
    Fails = TRUE
    WritesBorrowedPages = FALSE
    OpensBorrowedFiles = FALSE
INVARIANTS
    NoDanglingUse
    OutputNests
    NothingLeaks
CHECK_DEADLOCK FALSE
