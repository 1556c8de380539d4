----------------------------- MODULE ByteSource -----------------------------
(***************************************************************************)
(* What the library expects of the stream it reads a file from: the        *)
(* behaviour of its own InputFileStream, whose position never leaves the   *)
(* file, and of the parser that reads lines back from the file's end.      *)
(*                                                                         *)
(*   bytes      the file                                                   *)
(*   position   how many bytes lie before the next that is read            *)
(*   delivered  what the last call returned                                *)
(*   call       the last call                                              *)
(*   back       how many bytes the parser has read back from the end       *)
(***************************************************************************)
EXTENDS Integers, Sequences

CONSTANTS Amounts, LineBufferSize

VARIABLES bytes, position, delivered, call, back

sourceVars == <<bytes, position, delivered, call, back>>

Smaller(a, b) == IF a < b THEN a ELSE b
\* Where a position outside the file leads.
InFile(p) == IF p < 0 THEN 0 ELSE Smaller(p, Len(bytes))

Init == position = 0 /\ delivered = <<>> /\ call = <<"Open", 0>> /\ back = 0

Read(n) ==
    /\ call' = <<"Read", n>>
    /\ position' = InFile(position + n)
    /\ delivered' = SubSeq(bytes, position + 1, position')
    /\ UNCHANGED <<bytes, back>>

GoesTo(name, n, p) ==
    /\ call' = <<name, n>>
    /\ position' = InFile(p)
    /\ delivered' = <<>>
    /\ UNCHANGED <<bytes, back>>

\* The parser takes the buffer before those it has read back.
ReadBack ==
    LET end == Len(bytes) - back
        begin == InFile(end - LineBufferSize)
    IN  /\ call' = <<"ReadBack", LineBufferSize>>
        /\ delivered' = SubSeq(bytes, begin + 1, end)
        /\ position' = end
        /\ back' = back + (end - begin)
        /\ UNCHANGED bytes

\* Another session opens another file, or this one is not read any more.
Next ==
    \/ \E n \in Amounts :
          \/ Read(n)
          \/ GoesTo("Skip", n, position + n)
          \/ GoesTo("SetPosition", n, n)
          \/ GoesTo("SetPositionFromEnd", n, Len(bytes) - n)
    \/ GoesTo("Rewind", 0, 0)
    \/ ReadBack

Spec == Init /\ [][Next]_sourceVars
=============================================================================
