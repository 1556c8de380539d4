\* The streams of hummus.js and two of a client; the parser reads back no further than
\* whole buffers reach.
SPECIFICATION Spec
CONSTANTS
    SourceKinds = {"file", "buffer"}
    SinkKinds = {"file", "buffer", "response", "mute", "deaf"}
    Files <- FilesOfAllLengths
    Chunks <- SmallChunks
    Amounts = {2}
    LineBufferSize = 2
    CopySize = 2
    ReadsPastStart = FALSE
    MaxPosition = 6
    MaxWritten = 3
    MaxCloses = 2
INVARIANTS
    OffsetsAreTrue
PROPERTIES
    ImplementsByteSource
    CloseAnswers
CHECK_DEADLOCK FALSE
