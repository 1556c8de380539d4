----------------------------- MODULE ByteStreams -----------------------------
(***************************************************************************)
(* A document is modified from a stream to a stream of JavaScript: the     *)
(* streams of hummus.js (PDFRStreamForFile, PDFRStreamForBuffer,           *)
(* PDFWStreamForFile, PDFWStreamForBuffer, PDFStreamForResponse) or of the *)
(* client, the proxies through which the library calls them                *)
(* (ObjectByteReaderWithPosition, ObjectByteWriterWithPosition), and the   *)
(* library's calls: the copy of the file, the parser's reading forward and *)
(* back from the end, the objects it writes at the positions it is told.   *)
(* Node's event loop writes behind the program's back.                     *)
(*                                                                         *)
(*   phase      "copy", "parse", "write", "ended" or "failed"              *)
(*   source     the stream that is read: its kind, its bytes, rposition    *)
(*              and the descriptor's own offset                            *)
(*   delivered  what the last call on it returned, and call that call      *)
(*   lines      the parser's reading back: mLastReadPositionFromEnd, what  *)
(*              it read so far, mEncounteredFileStart                      *)
(*   sink       the stream that is written: its kind, position and ws      *)
(*   pending    what was handed to node and is not in the file, disk what  *)
(*              is                                                         *)
(*   asked, answered   the calls of close and of their callbacks           *)
(*   written    what the library wrote: at which position which bytes      *)
(*   thrown     an exception is pending or was thrown                      *)
(*   alive      the process runs                                           *)
(***************************************************************************)
EXTENDS Integers, Sequences, SequencesExt

CONSTANTS
    SourceKinds,       \* kinds of streams read, of {"file", "buffer"}
    SinkKinds,         \* of {"file", "buffer", "response", "mute", "deaf"}
    Files,             \* the files that are modified
    Chunks,            \* what the library and the client write at once
    Amounts,           \* arguments of the reading calls
    LineBufferSize,    \* LINE_BUFFER_SIZE
    CopySize,          \* TENMEGS
    ReadsPastStart,    \* whether the parser reads back past the first whole buffers
    MaxPosition,       \* bound on rposition
    MaxWritten,        \* bound on the number of chunks written
    MaxCloses          \* bound on the calls of close

ASSUME StreamsAssumption ==
    /\ SourceKinds \subseteq {"file", "buffer"}
    /\ SinkKinds \subseteq {"file", "buffer", "response", "mute", "deaf"}
    /\ \A bytes \in Files \cup Chunks : bytes \in Seq(Nat)
    /\ Amounts \subseteq Nat /\ LineBufferSize \in Nat \ {0} /\ CopySize \in Nat \ {0}
    /\ ReadsPastStart \in BOOLEAN /\ MaxPosition \in Nat
    /\ MaxWritten \in Nat /\ MaxCloses \in Nat

VARIABLES
    phase, source, delivered, call, lines, sink, pending, disk, asked, answered,
    written, thrown, alive

readVars == <<source, delivered, call, lines>>
sinkVars == <<sink, pending, disk, asked, answered>>
vars == <<phase, readVars, sinkVars, written, thrown, alive>>

-----------------------------------------------------------------------------
(* Reading.                                                                *)

\* Array.prototype.slice: an index below zero counts from the end.
Index(i, length) ==
    IF i >= 0 THEN IF i < length THEN i ELSE length
    ELSE IF length + i > 0 THEN length + i ELSE 0
Slice(s, from, to) == SubSeq(s, Index(from, Len(s)) + 1, Index(to, Len(s)))

\* readSync reads at a position, or, at one below zero, from where the descriptor is
\* (newer versions of node refuse the call).
ReadFile(s, n) ==
    LET from == IF s.rposition >= 0 THEN s.rposition ELSE s.offset
        read == Slice(s.bytes, from, from + n)
    IN  [to |-> [s EXCEPT !.rposition = @ + Len(read),
                          !.offset = IF s.rposition >= 0 THEN @ ELSE @ + Len(read)],
         read |-> read]

\* (mutant: a slice one too long)
ReadBuffer_Past(s, n) ==
    [to |-> [s EXCEPT !.rposition = @ + n],
     read |-> Slice(s.bytes, s.rposition, s.rposition + n + 1)]
\* The position moves by what was asked for, whatever there was.
ReadBuffer(s, n) ==
    [to |-> [s EXCEPT !.rposition = @ + n], read |-> Slice(s.bytes, s.rposition, s.rposition + n)]

Reads(s, n) == IF s.kind = "file" THEN ReadFile(s, n) ELSE ReadBuffer(s, n)
NotEnded(s) == s.rposition < Len(s.bytes)

SetPosition(s, p) == [s EXCEPT !.rposition = p]
SetPositionFromEnd(s, p) == [s EXCEPT !.rposition = Len(s.bytes) - p]
Skip(s, n) == [s EXCEPT !.rposition = @ + n]

\* ReadNextBufferFromEnd finds out by two positions how much there is to read.
ReadNextBufferFromEnd(s, ls) ==
    LET before == SetPositionFromEnd(s, ls.last)
        after == SetPositionFromEnd(before, ls.last + LineBufferSize)
        amount == before.rposition - after.rposition
        outcome == IF amount = 0 THEN [to |-> after, read |-> <<>>] ELSE Reads(after, amount)
    IN  [to |-> outcome.to, read |-> outcome.read,
         lines |-> [last |-> ls.last + Len(outcome.read),
                    text |-> outcome.read \o ls.text,
                    start |-> Len(outcome.read) < LineBufferSize]]

-----------------------------------------------------------------------------
(* Writing.                                                                *)

\* What node was given and what it wrote. A response is only told of chunks.
Sent == disk \o FlattenSeq(pending)

\* Outcome of the write of a stream; "mute" has no such function and "deaf"
\* does not return a number, which the proxy turns into an exception and 0.
WriteOn(k, position, chunk) ==
    [position |-> position + (IF k = "mute" THEN 0 ELSE Len(chunk)),
     result |-> IF k \in {"mute", "deaf"} THEN 0 ELSE Len(chunk),
     throws |-> k \in {"mute", "deaf"},
     keeps |-> k = "buffer",
     sends |-> k \notin {"mute", "buffer"} /\ Len(chunk) > 0]

\* A chunk is written at the position the stream tells.
Puts(chunk) ==
    LET outcome == WriteOn(sink.kind, sink.position, chunk)
    IN  /\ sink' = [sink EXCEPT !.position = outcome.position]
        /\ pending' = IF outcome.sends THEN Append(pending, chunk) ELSE pending
        /\ disk' = IF outcome.keeps THEN disk \o chunk ELSE disk
        /\ thrown' = (thrown \/ outcome.throws)
        /\ UNCHANGED <<asked, answered, alive>>

\* getCurrentPosition of a stream that lacks it is 1: the proxy returns true.
GetCurrentPosition == IF sink.kind = "mute" THEN 1 ELSE sink.position

-----------------------------------------------------------------------------
Init ==
    /\ phase \in {"copy", "write"}   \* a document is modified or created
    /\ source \in [kind: SourceKinds, bytes: Files, rposition: {0}, offset: {0}]
    /\ phase = "write" => source.bytes = <<>>
    /\ delivered = <<>> /\ call = <<"Open", 0>>
    /\ lines = [last |-> 0, text |-> <<>>, start |-> FALSE]
    /\ sink \in [kind: SinkKinds, position: {0}, ws: {"open"}]
    /\ pending = <<>> /\ disk = <<>> /\ asked = 0 /\ answered = 0
    /\ written = {} /\ thrown = FALSE /\ alive = TRUE

\* CopyToOutputStream, a buffer at a time, until the stream says that it ended or
\* delivers nothing.
CopyGoesOn == NotEnded(source) /\ (call[1] = "Read" => delivered # <<>>)
CopyBuffer ==
    /\ phase = "copy" /\ CopyGoesOn
    /\ LET outcome == Reads(source, CopySize)
       IN  /\ source' = outcome.to
           /\ delivered' = outcome.read /\ call' = <<"Read", CopySize>>
           /\ Puts(outcome.read)
           /\ phase' = IF WriteOn(sink.kind, sink.position, outcome.read).result # Len(outcome.read)
                       THEN "failed" ELSE "copy"
    /\ UNCHANGED <<lines, written>>

\* The stream is set to its start, and an end of line separates what follows.
Copied == SetPosition(source, 0)
EndCopy ==
    /\ phase = "copy" /\ ~CopyGoesOn
    /\ source' = Copied /\ delivered' = <<>> /\ call' = <<"Rewind", 0>>
    /\ \E eol \in Chunks :
          /\ Len(eol) = 1
          /\ Puts(eol)
          /\ written' = {[at |-> 0, bytes |-> source.bytes],
                         [at |-> GetCurrentPosition, bytes |-> eol]}
    /\ phase' = "parse"
    /\ UNCHANGED lines

\* The parser reads forward, or the client through the wrapper of its stream.
ReadsForward(n) ==
    /\ phase = "parse" /\ alive /\ source.rposition + n <= MaxPosition
    /\ LET outcome == Reads(source, n)
       IN  /\ source' = outcome.to /\ delivered' = outcome.read /\ call' = <<"Read", n>>
    /\ UNCHANGED <<phase, lines, sinkVars, written, thrown, alive>>

Moves(name, n, to) ==
    /\ phase = "parse" /\ alive
    /\ source' = to /\ delivered' = <<>> /\ call' = <<name, n>>
    /\ to.rposition \in 0 .. MaxPosition
    /\ UNCHANGED <<phase, lines, sinkVars, written, thrown, alive>>

\* The parser looks for the end of file and the xref's position.
ReadsBack ==
    /\ phase = "parse" /\ alive /\ ~lines.start
    /\ ReadsPastStart \/ lines.last + LineBufferSize <= Len(source.bytes)
    /\ LET outcome == ReadNextBufferFromEnd(source, lines)
       IN  /\ source' = outcome.to /\ delivered' = outcome.read
           /\ call' = <<"ReadBack", LineBufferSize>>
           /\ lines' = outcome.lines
    /\ UNCHANGED <<phase, sinkVars, written, thrown, alive>>

EndParsing ==
    /\ phase = "parse" /\ alive /\ phase' = "write"
    /\ UNCHANGED <<readVars, sinkVars, written, thrown, alive>>

\* An object: its position is asked for and kept for the xref.
WriteObject(chunk) ==
    /\ phase = "write" /\ alive /\ Cardinality(written) < MaxWritten
    /\ written' = written \cup {[at |-> GetCurrentPosition, bytes |-> chunk]}
    /\ Puts(chunk)
    /\ UNCHANGED <<phase, readVars>>

\* The client writes on the stream itself, or by a wrapper of the library's.
ClientWrites(chunk) ==
    /\ phase = "write" /\ alive /\ sink.position < MaxPosition
    /\ Puts(chunk)
    /\ UNCHANGED <<phase, readVars, written>>

EndSession ==
    /\ phase = "write" /\ alive /\ phase' = "ended"
    /\ UNCHANGED <<readVars, sinkVars, written, thrown, alive>>

-----------------------------------------------------------------------------
(* Closing, and node.                                                      *)

\* (mutant: answers without waiting for the end of the stream)
CloseOutcome_AtOnce(s) == [ws |-> "null", answers |-> TRUE]
\* close ends the stream and waits, or answers at once when that is done.
CloseOutcome(s) ==
    IF s.ws = "null" THEN [ws |-> "null", answers |-> TRUE]
    ELSE [ws |-> "ending", answers |-> FALSE]
Close ==
    /\ phase \in {"ended", "failed"} /\ alive /\ sink.kind = "file" /\ asked < MaxCloses
    /\ asked' = asked + 1
    /\ answered' = IF CloseOutcome(sink).answers THEN answered + 1 ELSE answered
    /\ sink' = [sink EXCEPT !.ws = CloseOutcome(sink).ws]
    /\ UNCHANGED <<phase, readVars, pending, disk, written, thrown, alive>>

\* Between two turns of the program; a document is copied and parsed in one turn.
BetweenTurns == alive /\ phase \notin {"copy", "parse"}
NodeWrites ==
    /\ BetweenTurns /\ pending # <<>>
    /\ disk' = disk \o Head(pending) /\ pending' = Tail(pending)
    /\ UNCHANGED <<phase, readVars, sink, asked, answered, written, thrown, alive>>

\* (mutant: only the first call of close is answered)
Answered_First == 1
Answered == asked
NodeFinishes ==
    /\ BetweenTurns /\ sink.ws = "ending" /\ pending = <<>>
    /\ sink' = [sink EXCEPT !.ws = "null"] /\ answered' = Answered
    /\ UNCHANGED <<phase, readVars, pending, disk, asked, written, thrown, alive>>

\* An error of the file stream has no listener and ends the process.
NodeFails ==
    /\ BetweenTurns /\ sink.kind = "file" /\ sink.ws # "null"
    /\ alive' = FALSE /\ phase' = "failed"
    /\ UNCHANGED <<readVars, sinkVars, written, thrown>>

Next ==
    \/ CopyBuffer \/ EndCopy \/ ReadsBack
    \/ \E n \in Amounts :
          \/ ReadsForward(n)
          \/ Moves("SetPosition", n, SetPosition(source, n))
          \/ Moves("SetPositionFromEnd", n, SetPositionFromEnd(source, n))
          \/ Moves("Skip", n, Skip(source, n))
    \/ EndParsing
    \/ \E chunk \in Chunks : WriteObject(chunk) \/ ClientWrites(chunk)
    \/ EndSession \/ Close \/ NodeWrites \/ NodeFinishes \/ NodeFails

\* Node goes on as long as there is work.
Fairness == WF_vars(NodeWrites) /\ WF_vars(NodeFinishes)

Spec == Init /\ [][Next]_vars /\ Fairness

-----------------------------------------------------------------------------
(* Properties.                                                             *)

\* What the library wrote is where the stream told it that it would be, in what
\* node has or will write and, once close has answered, in the file itself: the
\* xref's offsets, those of the copied original included, lead to their objects.
\* Otherwise the program has seen an exception.
OffsetsAreTrue ==
    LET output == IF answered > 0 THEN disk ELSE Sent
    IN  phase # "failed" /\ ~thrown =>
          \A w \in written :
             /\ w.at + Len(w.bytes) <= Len(output)
             /\ SubSeq(output, w.at + 1, w.at + Len(w.bytes)) = w.bytes

\* What the parser has read back is the end of the file, and where it takes itself
\* to be at the start it has read all of it.
TailIsRead ==
    LET length == Len(source.bytes)
    IN  /\ lines.text = SubSeq(source.bytes, length - Len(lines.text) + 1, length)
        /\ lines.start => lines.text = source.bytes

\* The streams of the library's JavaScript deliver what its own files do. The
\* position of the stream of a buffer may lie behind the end.
Source == INSTANCE ByteSource WITH
    bytes <- source.bytes,
    position <- IF source.rposition < Len(source.bytes) THEN source.rposition
                ELSE Len(source.bytes),
    back <- lines.last,
    Amounts <- Amounts \cup {CopySize}
ImplementsByteSource == Source!Spec

\* Every call of close is answered, unless the process ends.
CloseAnswers ==
    \A n \in 1 .. MaxCloses : asked = n ~> answered >= n \/ ~alive
=============================================================================
