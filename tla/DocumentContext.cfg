\* New, modified, continued and following documents of one PDFWriter.
SPECIFICATION Spec
CONSTANTS
    p1 = p1
    p2 = p2
    i1 = i1
    a1 = a1
    MaxGeneration = 9
    MaxWritePosition = 99
    PageObjects = {p1, p2}
    Images = {i1}
    Opacities = {a1}
    Clients <- EveryClient
SYMMETRY Symmetry
INVARIANTS
    TypeOK
    ReferencesResolve
    PagesInOrder
    AnnotationsReachNextPage
    NothingIsWrittenTwice
    UnwrittenAreOwed
    EncryptedAsAnnounced
