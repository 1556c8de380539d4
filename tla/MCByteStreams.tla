--------------------------- MODULE MCByteStreams ---------------------------
(* ByteStreams with files of up to four bytes, all different.              *)
EXTENDS ByteStreams

WholeFile == <<1, 2, 3, 4>>
\* Shorter than a line buffer of two bytes, as long as one or two, and in between.
FilesOfAllLengths == {SubSeq(WholeFile, 1, n) : n \in 0 .. 4}
\* An end of line, and objects of one byte or two.
SmallChunks == {<<8>>, <<6, 7>>}
=============================================================================
