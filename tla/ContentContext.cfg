SPECIFICATION Spec
CONSTANTS
    f1 = f1
    simple = simple
    cid = cid
    Fonts = {f1}
    Representations = {simple, cid}
    Wide = {cid}
    FontObject <- MCFontObject
    Sizes = {1, 2}
    Images = {4}
    Forms = {5}
    DrawingOptions <- MCDrawingOptions
    Arguments <- MCArguments
    ClientMappings <- MCClientMappings
    ClientNames <- MCClientNames
    MaxDepth = 1
    MaxCount = 1
INVARIANTS
    TypeOK
    FontInEffect
    NamesKeepTheirMeaning
PROPERTY DrawingCommandsAreWhole
