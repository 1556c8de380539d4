\* The parser reads back to the start of the file.
SPECIFICATION Spec
CONSTANTS
    SourceKinds = {"buffer"}
    SinkKinds = {"buffer"}
    Files <- FilesOfAllLengths
    Chunks <- SmallChunks
    Amounts = {1}
    LineBufferSize = 4
    CopySize = 4
    ReadsPastStart = TRUE
    MaxPosition = 8
    MaxWritten = 2
    MaxCloses = 1
INVARIANT TailIsRead
CHECK_DEADLOCK FALSE
