\* The xref table of every registry of at most five objects.
SPECIFICATION Spec
CONSTANTS
    MaxGeneration = 9
    MaxWritePosition = 20
    MaxID = 4
    Registries <- AllRegistries
INVARIANTS
    TypeOK
    RowsAreRight
    TableIsComplete
    FailsOnlyWhenIncomplete
PROPERTY Terminates
