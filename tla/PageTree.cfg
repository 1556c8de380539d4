\* Trees of up to three levels, of nodes of two kids.
SPECIFICATION Spec
CONSTANTS
    PAGE_TREE_LEVEL_SIZE = 2
    OriginalCounts <- NewOrModified
    MaxPages = 10
    MaxRestarts = 2
INVARIANTS
    TypeOK
    IsTree
    LeavesOnOneLevel
    PagesNameTheirParent
    LeftEdgeTells
    WrittenTreeIsRight
PROPERTIES
    RestartKeepsTree
    CallsEnd
    ImplementsPageList
