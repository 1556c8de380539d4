-------------------------- MODULE ByteStreams_proofs --------------------------
(***************************************************************************)
(* The streams that hummus.js reads from behave as the library's own, for  *)
(* every file, every amount that is read and every size of the buffers, as *)
(* long as the parser does not read back past the start of the file.       *)
(*                                                                         *)
(* A position behind the end of the file stands for the end: the stream of *)
(* a buffer moves on by what was asked for.  What the refinement rests on  *)
(* is that no position is below 0, where slice counts from the end and     *)
(* readSync goes by the descriptor.                                        *)
(***************************************************************************)
EXTENDS ByteStreams, SequenceTheorems, NaturalsInduction, WellFoundedInduction, TLAPS

\* A stream that was never told to go before its start.
IsStream(s) ==
    s \in [kind : {"file", "buffer"}, bytes : Seq(Nat), rposition : Nat, offset : Nat]

ReadingOK == IsStream(source) /\ lines.last \in Nat

\* Where the library takes a stream to be.
Place(s) == IF s.rposition < Len(s.bytes) THEN s.rposition ELSE Len(s.bytes)

\* What lies between two indexes of a file, clipped to it.
LEMMA Slices ==
    ASSUME NEW b \in Seq(Nat), NEW from \in Nat, NEW n \in Nat
    PROVE  LET begin == Source!Smaller(from, Len(b))
               end == Source!Smaller(from + n, Len(b))
           IN  /\ Slice(b, from, from + n) = SubSeq(b, begin + 1, end)
               /\ Len(Slice(b, from, from + n)) = end - begin
<1> DEFINE begin == Source!Smaller(from, Len(b))
           end == Source!Smaller(from + n, Len(b))
<1>1. begin \in Nat /\ end \in Nat /\ begin <= end /\ end <= Len(b)
  BY DEF Source!Smaller
<1>2. Index(from, Len(b)) = begin /\ Index(from + n, Len(b)) = end
  BY DEF Index, Source!Smaller
<1>3. Slice(b, from, from + n) = SubSeq(b, begin + 1, end)
  BY <1>2 DEF Slice
<1>4. Len(SubSeq(b, begin + 1, end)) = end - begin
  <2>1. \A i \in begin + 1 .. end : b[i] \in Nat
    BY <1>1
  <2>2. Len(SubSeq(b, begin + 1, end)) = IF begin + 1 <= end THEN end - (begin + 1) + 1 ELSE 0
    BY <1>1, <2>1, SubSeqProperties
  <2>3. QED
    BY <1>1, <2>2
<1>5. QED
  BY <1>3, <1>4

LEMMA MovedStream ==
    ASSUME NEW s, IsStream(s), NEW p \in Nat
    PROVE  LET to == [s EXCEPT !.rposition = p]
           IN  IsStream(to) /\ to.bytes = s.bytes /\ to.rposition = p
  BY DEF IsStream

\* A stream delivers what lies before the place it moves to, and moves no further than
\* the file reaches, nor less than what was asked for.
LEMMA ReadMoves ==
    ASSUME NEW s, IsStream(s), NEW n \in Nat
    PROVE  LET to == Reads(s, n).to
               end == Source!Smaller(Place(s) + n, Len(s.bytes))
           IN  /\ IsStream(to) /\ to.bytes = s.bytes
               /\ Place(to) = end
               /\ Reads(s, n).read = SubSeq(s.bytes, Place(s) + 1, end)
               /\ s.rposition + n <= Len(s.bytes) =>
                     to.rposition = s.rposition + n /\ Len(Reads(s, n).read) = n
<1> DEFINE b == s.bytes
           r == s.rposition
           end == Source!Smaller(Place(s) + n, Len(b))
           delivered_n == Slice(b, r, r + n)
<1>1. b \in Seq(Nat) /\ r \in Nat /\ Len(b) \in Nat
  BY DEF IsStream
<1>2. Place(s) = Source!Smaller(r, Len(b)) /\ end = Source!Smaller(r + n, Len(b))
  BY <1>1 DEF Place, Source!Smaller
<1>3. delivered_n = SubSeq(b, Place(s) + 1, end) /\ Len(delivered_n) = end - Place(s)
  BY <1>1, <1>2, Slices
<1>4. Place(s) \in Nat /\ end \in Nat /\ Place(s) <= end /\ end <= Len(b)
  BY <1>1, <1>2 DEF Source!Smaller
<1>5. r + n <= Len(b) => Len(delivered_n) = n
  BY <1>1, <1>2, <1>3 DEF Source!Smaller
<1>6. CASE s.kind = "file"
  <2>1. Reads(s, n) = [to |-> [s EXCEPT !.rposition = r + Len(delivered_n), !.offset = s.offset],
                       read |-> delivered_n]
    <3>1. s.rposition >= 0
      BY <1>1
    <3>2. QED
      BY <3>1, <1>6 DEF Reads, ReadFile
  <2>2. r + Len(delivered_n) \in Nat
    BY <1>1, <1>3, <1>4
  <2>3. /\ IsStream(Reads(s, n).to) /\ Reads(s, n).to.bytes = b
        /\ Reads(s, n).to.rposition = r + Len(delivered_n)
    <3>1. [s EXCEPT !.rposition = r + Len(delivered_n), !.offset = s.offset]
            = [s EXCEPT !.rposition = r + Len(delivered_n)]
      BY <2>2 DEF IsStream
    <3>2. Reads(s, n).to = [s EXCEPT !.rposition = r + Len(delivered_n)]
      BY <2>1, <3>1
    <3>3. QED
      BY <3>2, <2>2, MovedStream
  <2>4. Place(Reads(s, n).to) = end
    BY <2>3, <1>1, <1>2, <1>3, <1>4 DEF Place, Source!Smaller
  <2>5. QED
    BY <2>1, <2>3, <2>4, <1>3, <1>5
<1>7. CASE s.kind # "file"
  <2>1. /\ Reads(s, n).read = delivered_n
        /\ Reads(s, n).to = [s EXCEPT !.rposition = @ + n]
    BY <1>7 DEF Reads, ReadBuffer
  <2>2. /\ IsStream(Reads(s, n).to) /\ Reads(s, n).to.bytes = b
        /\ Reads(s, n).to.rposition = r + n
    <3>1. r + n \in Nat
      BY <1>1
    <3>2. Reads(s, n).to = [s EXCEPT !.rposition = r + n]
      BY <2>1
    <3>3. QED
      BY <3>1, <3>2, MovedStream
  <2>3. Place(Reads(s, n).to) = end
    BY <2>2, <1>1, <1>2 DEF Place, Source!Smaller
  <2>4. QED
    BY <2>1, <2>2, <2>3, <1>3, <1>5
<1>8. QED
  BY <1>6, <1>7

\* A whole buffer that is read back lies before those that were, and leaves the stream
\* at its end.
LEMMA BufferFromEnd ==
    ASSUME NEW s, IsStream(s), NEW ls, ls.last \in Nat, StreamsAssumption,
           ls.last + LineBufferSize <= Len(s.bytes)
    PROVE  LET outcome == ReadNextBufferFromEnd(s, ls)
               end == Len(s.bytes) - ls.last
           IN  /\ IsStream(outcome.to) /\ outcome.to.bytes = s.bytes
               /\ Place(outcome.to) = end
               /\ outcome.read = SubSeq(s.bytes, end - LineBufferSize + 1, end)
               /\ outcome.lines.last = ls.last + LineBufferSize
<1> DEFINE b == s.bytes
           last == ls.last
           n == LineBufferSize
           after == [s EXCEPT !.rposition = Len(b) - (last + n)]
           outcome == ReadNextBufferFromEnd(s, ls)
<1>1. n \in Nat \ {0} /\ last \in Nat /\ Len(b) \in Nat /\ last + n <= Len(b)
  BY DEF StreamsAssumption, IsStream
<1>2. Len(b) - (last + n) \in Nat
  BY <1>1
<1>3. IsStream(after) /\ after.bytes = b /\ after.rposition = Len(b) - (last + n)
  BY <1>2, MovedStream
<1>4. SetPositionFromEnd(SetPositionFromEnd(s, last), last + n) = after
      /\ SetPositionFromEnd(s, last).rposition = Len(b) - last
  BY DEF SetPositionFromEnd, IsStream
<1>5. (Len(b) - last) - (Len(b) - (last + n)) = n /\ n # 0
  BY <1>1
<1>6. /\ outcome.to = Reads(after, n).to
      /\ outcome.read = Reads(after, n).read
      /\ outcome.lines.last = last + Len(outcome.read)
  BY <1>3, <1>4, <1>5 DEF ReadNextBufferFromEnd
<1>7. Place(after) = Len(b) - (last + n)
  BY <1>1, <1>3 DEF Place
<1>8. Source!Smaller(Place(after) + n, Len(b)) = Len(b) - last
  BY <1>1, <1>7 DEF Source!Smaller
<1>9. /\ IsStream(outcome.to) /\ outcome.to.bytes = b
      /\ Place(outcome.to) = Len(b) - last
      /\ outcome.read = SubSeq(b, Place(after) + 1, Len(b) - last)
      /\ Len(outcome.read) = n
  <2>1. n \in Nat /\ after.rposition + n <= Len(after.bytes)
    BY <1>1, <1>3
  <2>2. /\ IsStream(Reads(after, n).to) /\ Reads(after, n).to.bytes = after.bytes
        /\ Place(Reads(after, n).to) = Source!Smaller(Place(after) + n, Len(after.bytes))
        /\ Reads(after, n).read
             = SubSeq(after.bytes, Place(after) + 1,
                      Source!Smaller(Place(after) + n, Len(after.bytes)))
        /\ Len(Reads(after, n).read) = n
    <3> HIDE DEF after
    <3>1. QED
      BY <2>1, <1>3, ReadMoves
  <2>3. QED
    BY <2>2, <1>3, <1>6, <1>8
<1>10. Place(after) + 1 = (Len(b) - last) - n + 1
  BY <1>1, <1>7
<1>11. QED
  BY <1>6, <1>9, <1>10

-----------------------------------------------------------------------------
\* What a step must be for the source.
Simulates == Source!Next \/ UNCHANGED Source!sourceVars

\* Reading forward, by the parser or for the copy.
LEMMA ReadSimulates ==
    ASSUME ReadingOK, NEW n \in Nat, n \in Amounts \cup {CopySize},
           source' = Reads(source, n).to, delivered' = Reads(source, n).read,
           call' = <<"Read", n>>, UNCHANGED lines
    PROVE  ReadingOK' /\ Simulates
<1> DEFINE end == Source!Smaller(Place(source) + n, Len(source.bytes))
<1>1. /\ IsStream(source') /\ source'.bytes = source.bytes /\ Place(source') = end
      /\ delivered' = SubSeq(source.bytes, Place(source) + 1, end)
  BY ReadMoves DEF ReadingOK
<1>2. Place(source) \in Nat
  BY DEF Place, ReadingOK, IsStream
<1>3. Source!InFile(Place(source) + n) = end
  BY <1>2 DEF Source!InFile
<1>4. Source!Read(n)
  BY <1>1, <1>3 DEF Source!Read, Source!InFile, Place
<1>5. QED
  BY <1>1, <1>4 DEF ReadingOK, Simulates, Source!Next

\* Going to a position, to one that stands for the place the library would be at.
LEMMA MoveSimulates ==
    ASSUME ReadingOK, NEW name, NEW n, NEW p \in Int, NEW to \in Nat,
           Source!InFile(p) = Source!InFile(to),
           source' = [source EXCEPT !.rposition = to], delivered' = <<>>,
           call' = <<name, n>>, UNCHANGED lines
    PROVE  ReadingOK' /\ Source!GoesTo(name, n, p)
<1>1. IsStream(source') /\ source'.bytes = source.bytes /\ source'.rposition = to
  BY MovedStream DEF ReadingOK
<1>2. Place(source') = Source!InFile(to)
  BY <1>1 DEF Place, Source!InFile, Source!Smaller, IsStream
<1>3. QED
  BY <1>1, <1>2 DEF ReadingOK, Source!GoesTo, Place

\* A position behind the end and the end lead to the same.
LEMMA MovesSimulate ==
    ASSUME ReadingOK, NEW n \in Amounts, StreamsAssumption,
           \/ Moves("SetPosition", n, SetPosition(source, n))
           \/ Moves("SetPositionFromEnd", n, SetPositionFromEnd(source, n))
           \/ Moves("Skip", n, Skip(source, n))
    PROVE  ReadingOK' /\ Simulates
<1> DEFINE r == source.rposition
           length == Len(source.bytes)
<1>1. n \in Nat /\ r \in Nat /\ length \in Nat
  BY DEF StreamsAssumption, ReadingOK, IsStream
<1>2. CASE Moves("SetPosition", n, SetPosition(source, n))
  <2>1. ReadingOK' /\ Source!GoesTo("SetPosition", n, n)
    BY <1>1, <1>2, MoveSimulates DEF Moves, SetPosition
  <2>2. QED
    BY <2>1 DEF Simulates, Source!Next
<1>3. CASE Moves("SetPositionFromEnd", n, SetPositionFromEnd(source, n))
  <2>1. source' = [source EXCEPT !.rposition = length - n]
    BY <1>3 DEF Moves, SetPositionFromEnd
  <2>2. source'.rposition = length - n
    BY <2>1 DEF ReadingOK, IsStream
  <2>3. length - n \in Nat
    BY <1>1, <1>3, <2>2 DEF Moves, SetPositionFromEnd, StreamsAssumption
  <2>4. ReadingOK' /\ Source!GoesTo("SetPositionFromEnd", n, length - n)
    BY <1>3, <2>1, <2>3, MoveSimulates DEF Moves
  <2>5. QED
    BY <2>4 DEF Simulates, Source!Next
<1>4. CASE Moves("Skip", n, Skip(source, n))
  <2>1. source' = [source EXCEPT !.rposition = r + n] /\ r + n \in Nat
    BY <1>1, <1>4 DEF Moves, Skip
  <2>2. Place(source) + n \in Int
        /\ Source!InFile(Place(source) + n) = Source!InFile(r + n)
    BY <1>1 DEF Place, Source!InFile, Source!Smaller
  <2>3. ReadingOK' /\ Source!GoesTo("Skip", n, Place(source) + n)
    BY <1>4, <2>1, <2>2, MoveSimulates DEF Moves
  <2>4. QED
    BY <2>3 DEF Simulates, Source!Next, Place
<1>5. QED
  BY <1>2, <1>3, <1>4

\* The parser reads back whole buffers only.
LEMMA ReadsBackSimulates ==
    ASSUME ReadingOK, StreamsAssumption, ~ReadsPastStart, ReadsBack
    PROVE  ReadingOK' /\ Simulates
<1> DEFINE end == Len(source.bytes) - lines.last
           begin == end - LineBufferSize
<1>1. lines.last + LineBufferSize <= Len(source.bytes) /\ lines.last \in Nat
  BY DEF ReadsBack, ReadingOK
<1>2. /\ IsStream(source') /\ source'.bytes = source.bytes /\ Place(source') = end
      /\ delivered' = SubSeq(source.bytes, begin + 1, end)
      /\ lines'.last = lines.last + LineBufferSize
  BY <1>1, BufferFromEnd DEF ReadsBack, ReadingOK
<1>3. /\ LineBufferSize \in Nat /\ Len(source.bytes) \in Nat
  BY DEF StreamsAssumption, ReadingOK, IsStream
<1>4. Source!InFile(begin) = begin /\ end - begin = LineBufferSize
  BY <1>1, <1>3 DEF Source!InFile, Source!Smaller
<1>5. Source!ReadBack
  BY <1>2, <1>4 DEF Source!ReadBack, ReadsBack, Place
<1>6. lines'.last \in Nat
  BY <1>1, <1>2, <1>3
<1>7. QED
  BY <1>2, <1>5, <1>6 DEF ReadingOK, Simulates, Source!Next

-----------------------------------------------------------------------------
\* No step takes the stream before its start, and each is one of the source's.
LEMMA StepSimulates ==
    ASSUME ReadingOK, StreamsAssumption, ~ReadsPastStart, [Next]_vars
    PROVE  ReadingOK' /\ Simulates
<1>1. ASSUME UNCHANGED readVars
      PROVE  ReadingOK' /\ Simulates
  BY <1>1 DEF readVars, ReadingOK, Simulates, Source!sourceVars
<1>2. CASE CopyBuffer
  BY <1>2, ReadSimulates DEF CopyBuffer, StreamsAssumption
<1>3. CASE EndCopy
  <2>1. source' = [source EXCEPT !.rposition = 0] /\ delivered' = <<>>
        /\ call' = <<"Rewind", 0>> /\ UNCHANGED lines
    BY <1>3 DEF EndCopy, Copied, SetPosition
  <2>2. 0 \in Int /\ 0 \in Nat
    OBVIOUS
  <2>3. ReadingOK' /\ Source!GoesTo("Rewind", 0, 0)
    BY <2>1, <2>2, MoveSimulates
  <2>4. QED
    BY <2>3 DEF Simulates, Source!Next
<1>4. CASE ReadsBack
  BY <1>4, ReadsBackSimulates
<1>5. ASSUME NEW n \in Amounts, ReadsForward(n)
      PROVE  ReadingOK' /\ Simulates
  BY <1>5, ReadSimulates DEF ReadsForward, StreamsAssumption
<1>6. ASSUME NEW n \in Amounts,
             \/ Moves("SetPosition", n, SetPosition(source, n))
             \/ Moves("SetPositionFromEnd", n, SetPositionFromEnd(source, n))
             \/ Moves("Skip", n, Skip(source, n))
      PROVE  ReadingOK' /\ Simulates
  BY <1>6, MovesSimulate
<1>7. CASE \/ EndParsing \/ EndSession \/ Close \/ NodeWrites \/ NodeFinishes \/ NodeFails
           \/ \E chunk \in Chunks : WriteObject(chunk) \/ ClientWrites(chunk)
  BY <1>1, <1>7 DEF EndParsing, EndSession, Close, NodeWrites, NodeFinishes, NodeFails,
                   WriteObject, ClientWrites
<1>8. CASE UNCHANGED vars
  BY <1>1, <1>8 DEF vars
<1>9. QED
  BY <1>2, <1>3, <1>4, <1>5, <1>6, <1>7, <1>8 DEF Next

\* A stream starts at the start of its file.
LEMMA StartsAtStart ==
    ASSUME Init, StreamsAssumption
    PROVE  ReadingOK /\ Source!Init
<1>1. /\ source.kind \in {"file", "buffer"} /\ source.bytes \in Seq(Nat)
      /\ source = [kind |-> source.kind, bytes |-> source.bytes,
                   rposition |-> 0, offset |-> 0]
  BY DEF Init, StreamsAssumption
<1>2. lines.last = 0
  BY DEF Init
<1>3. ReadingOK
  BY <1>1, <1>2 DEF ReadingOK, IsStream
<1>4. Place(source) = 0
  BY <1>1 DEF Place
<1>5. QED
  BY <1>2, <1>3, <1>4 DEF Init, Source!Init, Place

\* The streams of hummus.js implement what the library expects of a source, for every
\* file, amount and buffer: positions are kept where they are asked for, what is
\* delivered is what lies there, and no more than there is.
THEOREM ImplementsCorrect ==
    ASSUME ~ReadsPastStart
    PROVE  Spec => ImplementsByteSource
<1>1. Init => ReadingOK /\ Source!Init
  BY StreamsAssumption, StartsAtStart
<1>2. ReadingOK /\ [Next]_vars => ReadingOK' /\ [Source!Next]_Source!sourceVars
  BY StreamsAssumption, StepSimulates DEF Simulates
<1>3. QED
  BY <1>1, <1>2, PTL DEF Spec, ImplementsByteSource, Source!Spec

-----------------------------------------------------------------------------
(***************************************************************************)
(* What was handed to node, one chunk after the other.                     *)
(***************************************************************************)

\* Induction over the numbers up to n.
LEMMA PrefixInduction ==
    ASSUME NEW n \in Nat, NEW S, 0 \in S, \A k \in 1 .. n : k - 1 \in S => k \in S
    PROVE  \A k \in 0 .. n : k \in S
<1>1. DEFINE T == {k \in 0 .. n : k \notin S}
<1>2. SUFFICES ASSUME T # {}
               PROVE  FALSE
  OBVIOUS
<1>3. DEFINE R == {ss \in Nat \X Nat : ss[1] < ss[2]}
<1>4. IsWellFoundedOn(R, Nat)
  BY NatLessThanWellFounded DEF OpToRel
<1>5. PICK x \in T : \A y \in T : ~(y < x)
  <2>1. T \subseteq Nat
    OBVIOUS
  <2>. HIDE DEF T, R
  <2>2. PICK x \in T : \A y \in T : <<y, x>> \notin R
    BY <1>2, <1>4, <2>1, WFMin
  <2>. QED  BY <2>1, <2>2 DEF R
<1>6. x \in 1 .. n /\ x - 1 \in 0 .. n
  OBVIOUS
<1>7. x - 1 \notin T
  BY <1>5, <1>6
<1>. QED  BY <1>6, <1>7

LEMMA TwoInARow ==
    ASSUME NEW s \in Seq(Nat), NEW t \in Seq(Nat)
    PROVE  /\ s \o t \in Seq(Nat) /\ Len(s \o t) = Len(s) + Len(t)
           /\ Len(s) \in Nat /\ Len(t) \in Nat
           /\ \A i \in 1 .. Len(s) + Len(t) :
                 (s \o t)[i] = IF i <= Len(s) THEN s[i] ELSE t[i - Len(s)]
BY ConcatProperties, LenProperties

LEMMA InARow ==
    ASSUME NEW s \in Seq(Nat), NEW t \in Seq(Nat), NEW u \in Seq(Nat)
    PROVE  (s \o t) \o u = s \o (t \o u)
<1>1. PICK st \in Seq(Nat), tu \in Seq(Nat) : st = s \o t /\ tu = t \o u
  BY TwoInARow
<1>2. PICK left \in Seq(Nat), right \in Seq(Nat) : left = st \o u /\ right = s \o tu
  BY TwoInARow
<1>3. /\ Len(s) \in Nat /\ Len(t) \in Nat /\ Len(u) \in Nat
      /\ Len(st) = Len(s) + Len(t) /\ Len(tu) = Len(t) + Len(u)
      /\ Len(left) = Len(st) + Len(u) /\ Len(right) = Len(s) + Len(tu)
  BY <1>1, <1>2, TwoInARow
<1>4. \A i \in 1 .. Len(s) + Len(t) : st[i] = IF i <= Len(s) THEN s[i] ELSE t[i - Len(s)]
  BY <1>1, TwoInARow
<1>5. \A i \in 1 .. Len(t) + Len(u) : tu[i] = IF i <= Len(t) THEN t[i] ELSE u[i - Len(t)]
  BY <1>1, TwoInARow
<1>6. \A i \in 1 .. Len(st) + Len(u) : left[i] = IF i <= Len(st) THEN st[i] ELSE u[i - Len(st)]
  BY <1>2, TwoInARow
<1>7. \A i \in 1 .. Len(s) + Len(tu) : right[i] = IF i <= Len(s) THEN s[i] ELSE tu[i - Len(s)]
  BY <1>2, TwoInARow
<1>8. Len(left) = Len(right)
  BY <1>3
<1>9. \A i \in 1 .. Len(left) : left[i] = right[i]
  <2>. SUFFICES ASSUME NEW i \in 1 .. Len(left)
                PROVE  left[i] = right[i]
    OBVIOUS
  <2>1. CASE i <= Len(s)
    <3>1. /\ i \in 1 .. Len(s) + Len(t) /\ i \in 1 .. Len(st) + Len(u) /\ i <= Len(st)
          /\ i \in 1 .. Len(s) + Len(tu)
      BY <1>3, <2>1
    <3>2. left[i] = st[i] /\ st[i] = s[i]
      BY <1>4, <1>6, <2>1, <3>1
    <3>3. right[i] = s[i]
      BY <1>7, <2>1, <3>1
    <3>. QED  BY <3>2, <3>3
  <2>2. CASE ~(i <= Len(s)) /\ i <= Len(s) + Len(t)
    <3>1. left[i] = t[i - Len(s)]
      <4>1. i \in 1 .. Len(s) + Len(t) /\ i \in 1 .. Len(st) + Len(u) /\ i <= Len(st)
        BY <1>3, <2>2
      <4>2. left[i] = st[i]
        BY <1>6, <4>1
      <4>3. st[i] = t[i - Len(s)]
        BY <1>4, <2>2, <4>1
      <4>. QED  BY <4>2, <4>3
    <3>2. i - Len(s) \in 1 .. Len(t) + Len(u) /\ i - Len(s) <= Len(t)
      BY <1>3, <2>2
    <3>3. right[i] = tu[i - Len(s)]
      <4>1. i \in 1 .. Len(s) + Len(tu) /\ ~(i <= Len(s))
        BY <1>3, <2>2
      <4>. QED  BY <1>7, <4>1
    <3>. QED  BY <1>5, <3>1, <3>2, <3>3
  <2>3. CASE ~(i <= Len(s) + Len(t))
    <3>1. left[i] = u[i - Len(st)]
      BY <1>3, <1>6, <2>3
    <3>2. i - Len(s) \in 1 .. Len(t) + Len(u) /\ ~(i - Len(s) <= Len(t))
      BY <1>3, <2>3
    <3>3. right[i] = tu[i - Len(s)]
      <4>1. i \in 1 .. Len(s) + Len(tu) /\ ~(i <= Len(s))
        BY <1>3, <2>3
      <4>. QED  BY <1>7, <4>1
    <3>4. (i - Len(s)) - Len(t) = i - Len(st)
      BY <1>3
    <3>. QED  BY <1>5, <3>1, <3>2, <3>3, <3>4
  <2>. QED  BY <1>3, <2>1, <2>2, <2>3
<1>. QED  BY <1>1, <1>2, <1>8, <1>9, SeqEqual

\* f[i] is the first i sequences of p in a row.
IsFlat(f, p, n) == f = [i \in 1 .. n |-> IF i = 1 THEN p[i] ELSE f[i - 1] \o p[i]]

LEMMA FlatSteps ==
    ASSUME NEW f, NEW p, NEW n \in Nat \ {0}, IsFlat(f, p, n)
    PROVE  f[1] = p[1] /\ \A i \in 1 .. n : i + 1 \in 1 .. n => f[i + 1] = f[i] \o p[i + 1]
<1>1. \A i \in 1 .. n : f[i] = IF i = 1 THEN p[i] ELSE f[i - 1] \o p[i]
  BY DEF IsFlat
<1>2. 1 \in 1 .. n
  OBVIOUS
<1>3. ASSUME NEW i \in 1 .. n, i + 1 \in 1 .. n
      PROVE  f[i + 1] = f[i] \o p[i + 1]
  <2>1. i + 1 # 1 /\ (i + 1) - 1 = i
    OBVIOUS
  <2>. QED  BY <1>1, <1>3, <2>1
<1>. QED  BY <1>1, <1>2, <1>3

LEMMA FlatExists ==
    ASSUME NEW n \in Nat, NEW p
    PROVE  \E f : IsFlat(f, p, n)
<1>1. DEFINE S == {m \in 0 .. n : \E f : IsFlat(f, p, m)}
<1>2. 0 \in S
  <2>1. DEFINE f == [i \in 1 .. 0 |-> p]
  <2>2. IsFlat(f, p, 0)
    BY DEF IsFlat
  <2>. QED  BY <2>2
<1>3. ASSUME NEW m \in 1 .. n, m - 1 \in S
      PROVE  m \in S
  <2>1. PICK f : IsFlat(f, p, m - 1)
    BY <1>3
  <2>2. DEFINE g == [i \in 1 .. m |-> IF i = m THEN IF m = 1 THEN p[1] ELSE f[m - 1] \o p[m]
                                      ELSE f[i]]
  <2>3. ASSUME NEW i \in 1 .. m
        PROVE  g[i] = IF i = 1 THEN p[i] ELSE g[i - 1] \o p[i]
    <3>1. CASE i = 1
      <4>1. i = m \/ i \in 1 .. m - 1
        OBVIOUS
      <4>2. i \in 1 .. m - 1 => f[i] = p[i]
        BY <2>1, <3>1 DEF IsFlat
      <4>. QED  BY <3>1, <4>1, <4>2
    <3>2. CASE i # 1
      <4>1. i - 1 \in 1 .. m /\ i - 1 # m /\ (i = m \/ i \in 1 .. m - 1) /\ (i = m => m # 1)
        BY <3>2
      <4>2. g[i - 1] = f[i - 1]
        BY <4>1
      <4>3. i \in 1 .. m - 1 => f[i] = f[i - 1] \o p[i]
        BY <2>1, <3>2 DEF IsFlat
      <4>4. g[i] = f[i - 1] \o p[i]
        BY <4>1, <4>3
      <4>. QED  BY <3>2, <4>2, <4>4
    <3>. QED  BY <3>1, <3>2
  <2>4. g = [i \in 1 .. m |-> IF i = 1 THEN p[i] ELSE g[i - 1] \o p[i]]
    <3>1. g = [i \in 1 .. m |-> g[i]]
      OBVIOUS
    <3>. HIDE DEF g
    <3>. QED  BY <2>3, <3>1
  <2>5. IsFlat(g, p, m)
    <3>. HIDE DEF g
    <3>. QED  BY <2>4 DEF IsFlat
  <2>. QED  BY <2>5
<1>4. n \in S
  <2>. HIDE DEF S
  <2>. QED  BY <1>2, <1>3, PrefixInduction
<1>. QED  BY <1>4

LEMMA FlatIs ==
    ASSUME NEW p \in Seq(Seq(Nat)), p # <<>>, NEW n \in Nat, n = Len(p)
    PROVE  n # 0 /\ \E f : IsFlat(f, p, n) /\ FlattenSeq(p) = f[n]
<1>1. n # 0
  BY EmptySeq
<1>2. PICK f : IsFlat(f, p, n)
  BY FlatExists
<1>. DEFINE g == CHOOSE h : IsFlat(h, p, n)
<1>3. IsFlat(g, p, n)
  BY <1>2
<1>4. FlattenSeq(p) = g[n]
  BY <1>1 DEF FlattenSeq, IsFlat
<1>. QED  BY <1>1, <1>3, <1>4

LEMMA FlatIsSeq ==
    ASSUME NEW p \in Seq(Seq(Nat)), NEW n \in Nat \ {0}, n <= Len(p),
           NEW f, IsFlat(f, p, n)
    PROVE  \A i \in 1 .. n : f[i] \in Seq(Nat)
<1>1. f[1] = p[1] /\ \A i \in 1 .. n : i + 1 \in 1 .. n => f[i + 1] = f[i] \o p[i + 1]
  BY FlatSteps
<1>2. \A i \in 1 .. n : p[i] \in Seq(Nat)
  <2>1. Len(p) \in Nat
    BY LenProperties
  <2>2. \A i \in 1 .. n : i \in 1 .. Len(p)
    BY <2>1
  <2>. QED  BY <2>2, ElementOfSeq
<1>. DEFINE S == {k \in Nat : k \in 1 .. n => f[k] \in Seq(Nat)}
<1>3. 0 \in S
  OBVIOUS
<1>4. ASSUME NEW k \in 1 .. n, k - 1 \in S
      PROVE  k \in S
  <2>. SUFFICES f[k] \in Seq(Nat)
    OBVIOUS
  <2>1. CASE k = 1
    BY <1>1, <1>2, <2>1
  <2>2. CASE k # 1
    <3>1. PICK j \in 1 .. n : j + 1 = k /\ j \in Nat /\ j = k - 1
      BY <2>2
    <3>2. f[k] = f[j] \o p[k]
      BY <1>1, <3>1
    <3>3. PICK s \in Seq(Nat), t \in Seq(Nat) : s = f[j] /\ t = p[k]
      BY <1>2, <1>4, <3>1
    <3>4. s \o t \in Seq(Nat)
      BY ConcatProperties
    <3>. QED  BY <3>2, <3>3, <3>4
  <2>. QED  BY <2>1, <2>2
<1>5. \A k \in 0 .. n : k \in S
  <2>. HIDE DEF S
  <2>. QED  BY <1>3, <1>4, PrefixInduction
<1>. QED  BY <1>5

\* The same sequences are the same in a row.
LEMMA FlatAgrees ==
    ASSUME NEW p, NEW q, NEW m \in Nat \ {0}, NEW n \in Nat \ {0}, m <= n,
           \A i \in 1 .. m : p[i] = q[i], NEW f, IsFlat(f, p, m), NEW g, IsFlat(g, q, n)
    PROVE  f[m] = g[m]
<1>1. f[1] = p[1] /\ \A i \in 1 .. m : i + 1 \in 1 .. m => f[i + 1] = f[i] \o p[i + 1]
  BY FlatSteps
<1>2. g[1] = q[1] /\ \A i \in 1 .. n : i + 1 \in 1 .. n => g[i + 1] = g[i] \o q[i + 1]
  BY FlatSteps
<1>. DEFINE S == {k \in Nat : k \in 1 .. m => f[k] = g[k]}
<1>3. 0 \in S
  OBVIOUS
<1>4. ASSUME NEW k \in 1 .. m, k - 1 \in S
      PROVE  k \in S
  <2>. SUFFICES f[k] = g[k]
    OBVIOUS
  <2>1. CASE k = 1
    <3>1. 1 \in 1 .. m
      OBVIOUS
    <3>. QED  BY <1>1, <1>2, <2>1, <3>1
  <2>2. CASE k # 1
    <3>1. PICK j \in 1 .. m : j + 1 = k /\ j \in 1 .. n /\ k \in 1 .. n /\ j = k - 1
      BY <2>2
    <3>2. f[k] = f[j] \o p[k] /\ g[k] = g[j] \o q[k] /\ p[k] = q[k]
      BY <1>1, <1>2, <3>1
    <3>3. f[j] = g[j]
      BY <1>4, <3>1
    <3>. QED  BY <3>2, <3>3
  <2>. QED  BY <2>1, <2>2
<1>5. \A k \in 0 .. m : k \in S
  <2>. HIDE DEF S
  <2>. QED  BY <1>3, <1>4, PrefixInduction
<1>. QED  BY <1>5

LEMMA FlattenEmpty ==
    FlattenSeq(<<>>) = <<>>
<1>1. Len(<<>>) = 0
  OBVIOUS
<1>. QED  BY <1>1 DEF FlattenSeq

LEMMA FlattenIsSeq ==
    ASSUME NEW p \in Seq(Seq(Nat))
    PROVE  FlattenSeq(p) \in Seq(Nat)
<1>1. CASE p = <<>>
  <2>1. <<>> \in Seq(Nat)
    OBVIOUS
  <2>. QED  BY <1>1, <2>1, FlattenEmpty
<1>2. CASE p # <<>>
  <2>1. PICK n \in Nat : n = Len(p)
    BY LenProperties
  <2>2. n # 0 /\ \E f : IsFlat(f, p, n) /\ FlattenSeq(p) = f[n]
    BY <1>2, <2>1, FlatIs
  <2>3. PICK f : IsFlat(f, p, n) /\ FlattenSeq(p) = f[n]
    BY <2>2
  <2>4. n \in Nat \ {0} /\ n <= Len(p) /\ n \in 1 .. n
    BY <2>1, <2>2
  <2>5. \A i \in 1 .. n : f[i] \in Seq(Nat)
    BY <2>3, <2>4, FlatIsSeq
  <2>. QED  BY <2>3, <2>4, <2>5
<1>. QED  BY <1>1, <1>2

\* A chunk is handed to node, and is the last.
LEMMA FlattenAppend ==
    ASSUME NEW p \in Seq(Seq(Nat)), NEW c \in Seq(Nat)
    PROVE  FlattenSeq(Append(p, c)) = FlattenSeq(p) \o c
<1>1. PICK q : q = Append(p, c)
  OBVIOUS
<1>2. PICK n \in Nat : n = Len(p)
  BY LenProperties
<1>3. /\ q \in Seq(Seq(Nat)) /\ q # <<>> /\ Len(q) = n + 1 /\ q[n + 1] = c
      /\ \A i \in 1 .. n : q[i] = p[i]
  BY <1>1, <1>2, AppendProperties
<1>4. n + 1 \in Nat \ {0} /\ n + 1 \in 1 .. n + 1
  OBVIOUS
<1>5. PICK g : IsFlat(g, q, n + 1) /\ FlattenSeq(q) = g[n + 1]
  BY <1>3, <1>4, FlatIs
<1>6. CASE n = 0
  <2>1. p = <<>>
    BY <1>2, <1>6, EmptySeq
  <2>2. g[1] = c
    <3>1. g[1] = q[1]
      BY <1>4, <1>5, FlatSteps
    <3>. QED  BY <1>3, <1>6, <3>1
  <2>3. FlattenSeq(p) \o c = c
    BY <2>1, FlattenEmpty, ConcatEmptySeq
  <2>. QED  BY <1>1, <1>5, <1>6, <2>2, <2>3
<1>7. CASE n # 0
  <2>1. p # <<>>
    BY <1>2, <1>7
  <2>2. PICK f : IsFlat(f, p, n) /\ FlattenSeq(p) = f[n]
    BY <1>2, <2>1, FlatIs
  <2>3. n \in Nat \ {0} /\ n <= n + 1 /\ n \in 1 .. n + 1
    BY <1>7
  <2>4. f[n] = g[n]
    <3>1. \A i \in 1 .. n : p[i] = q[i]
      BY <1>3
    <3>2. n + 1 \in Nat \ {0} /\ IsFlat(g, q, n + 1) /\ IsFlat(f, p, n)
      BY <1>4, <1>5, <2>2
    <3>3. n \in Nat \ {0} /\ n <= n + 1
      BY <2>3
    <3>. QED  BY <3>1, <3>2, <3>3, FlatAgrees
  <2>5. g[n + 1] = g[n] \o q[n + 1]
    BY <1>4, <1>5, <2>3, FlatSteps
  <2>. QED  BY <1>1, <1>3, <1>5, <2>2, <2>4, <2>5
<1>. QED  BY <1>6, <1>7

\* Node writes the first.
LEMMA FlattenTail ==
    ASSUME NEW p \in Seq(Seq(Nat)), p # <<>>
    PROVE  FlattenSeq(p) = Head(p) \o FlattenSeq(Tail(p))
<1>1. PICK n \in Nat : n = Len(p)
  BY LenProperties
<1>2. PICK q \in Seq(Seq(Nat)) : q = Tail(p)
  BY HeadTailProperties
<1>3. n # 0 /\ \E f : IsFlat(f, p, n) /\ FlattenSeq(p) = f[n]
  BY <1>1, FlatIs
<1>4. PICK f : IsFlat(f, p, n) /\ FlattenSeq(p) = f[n]
  BY <1>3
<1>5. Len(q) = n - 1 /\ \A i \in 1 .. n - 1 : q[i] = p[i + 1]
  BY <1>1, <1>2, HeadTailProperties
<1>6. p[1] \in Seq(Nat) /\ Head(p) = p[1]
  BY <1>1, <1>3, ElementOfSeq
<1>7. f[1] = p[1] /\ \A i \in 1 .. n : i + 1 \in 1 .. n => f[i + 1] = f[i] \o p[i + 1]
  BY <1>3, <1>4, FlatSteps
<1>8. CASE n = 1
  <2>1. q = <<>>
    BY <1>5, <1>8, EmptySeq
  <2>. QED  BY <1>2, <1>4, <1>6, <1>7, <1>8, <2>1, FlattenEmpty, ConcatEmptySeq
<1>9. CASE n # 1
  <2>1. PICK m \in Nat \ {0} : m = n - 1
    BY <1>3, <1>9
  <2>2. q # <<>> /\ Len(q) = m
    BY <1>5, <2>1
  <2>3. PICK g : IsFlat(g, q, m) /\ FlattenSeq(q) = g[m]
    BY <2>2, FlatIs
  <2>4. /\ g[1] = q[1]
        /\ \A i \in 1 .. m : i + 1 \in 1 .. m => g[i + 1] = g[i] \o q[i + 1]
    BY <2>3, FlatSteps
  <2>5. \A i \in 1 .. m : g[i] \in Seq(Nat) /\ q[i] \in Seq(Nat)
    <3>1. m <= Len(q) /\ \A i \in 1 .. m : i \in 1 .. Len(q)
      BY <2>2
    <3>2. \A i \in 1 .. m : g[i] \in Seq(Nat)
      BY <2>3, <3>1, FlatIsSeq
    <3>. QED  BY <3>1, <3>2, ElementOfSeq
  <2>6. DEFINE S == {k \in Nat : k \in 1 .. m => f[k + 1] = p[1] \o g[k]}
  <2>7. 0 \in S
    OBVIOUS
  <2>8. ASSUME NEW k \in 1 .. m, k - 1 \in S
        PROVE  k \in S
    <3>. SUFFICES f[k + 1] = p[1] \o g[k]
      <4>1. k \in Nat
        OBVIOUS
      <4>. QED  BY <4>1
    <3>1. k \in 1 .. n /\ k + 1 \in 1 .. n /\ q[k] = p[k + 1]
      BY <1>5, <2>1
    <3>2. f[k + 1] = f[k] \o q[k]
      BY <1>7, <3>1
    <3>3. CASE k = 1
      BY <1>7, <2>4, <3>2, <3>3
    <3>4. CASE k # 1
      <4>1. PICK j \in 1 .. m : j + 1 = k /\ j = k - 1 /\ j \in Nat
        BY <3>4
      <4>2. f[k] = p[1] \o g[j] /\ g[k] = g[j] \o q[k]
        BY <2>4, <2>8, <4>1
      <4>3. PICK s \in Seq(Nat), t \in Seq(Nat), u \in Seq(Nat) :
               s = p[1] /\ t = g[j] /\ u = q[k]
        BY <1>6, <2>5, <4>1
      <4>4. (s \o t) \o u = s \o (t \o u)
        BY InARow
      <4>. QED  BY <3>2, <4>2, <4>3, <4>4
    <3>. QED  BY <3>3, <3>4
  <2>9. m \in S
    <3>1. \A k \in 0 .. m : k \in S
      <4>. HIDE DEF S
      <4>. QED  BY <2>7, <2>8, PrefixInduction
    <3>2. m \in 0 .. m
      OBVIOUS
    <3>. HIDE DEF S
    <3>. QED  BY <3>1, <3>2
  <2>10. f[n] = p[1] \o g[m]
    <3>1. m \in 1 .. m /\ m + 1 = n
      BY <2>1
    <3>. QED  BY <2>9, <3>1
  <2>. QED  BY <1>2, <1>4, <1>6, <2>3, <2>10
<1>. QED  BY <1>8, <1>9

-----------------------------------------------------------------------------
(***************************************************************************)
(* Where the library's objects are in what was handed to node.             *)
(***************************************************************************)

SinkType ==
    /\ sink \in [kind : {"file", "buffer", "response", "mute", "deaf"}, position : Nat,
                 ws : {"open", "ending", "null"}]
    /\ pending \in Seq(Seq(Nat)) /\ disk \in Seq(Nat) /\ thrown \in BOOLEAN
    /\ sink.kind = "buffer" => pending = <<>>

\* A stream is ended when nothing is written on it any more, and close has answered
\* when nothing is pending.
ClosedLast ==
    /\ sink.ws # "open" => phase \in {"ended", "failed"}
    /\ sink.ws = "null" => pending = <<>>
    /\ answered \in Nat /\ asked \in Nat
    /\ answered > 0 => sink.ws = "null"

Lies(w, output) ==
    /\ w.at + Len(w.bytes) <= Len(output)
    /\ \A i \in 1 .. Len(w.bytes) : output[w.at + i] = w.bytes[i]

AllLie ==
    /\ \A w \in written : w.at \in Nat /\ w.bytes \in Seq(Nat)
    /\ ~thrown => sink.position = Len(Sent) /\ \A w \in written : Lies(w, Sent)

\* The copy so far: what the stream that is read has gone past.
CopiedSoFar ==
    phase = "copy" =>
        /\ written = {} /\ IsStream(source)
        /\ ~thrown => /\ Len(Sent) = Place(source)
                      /\ \A i \in 1 .. Place(source) : Sent[i] = source.bytes[i]
        /\ call[1] = "Read" /\ delivered = <<>> => Place(source) = Len(source.bytes)

OffsetsInv == SinkType /\ ClosedLast /\ AllLie /\ CopiedSoFar

LEMMA SentIsSeq ==
    ASSUME SinkType
    PROVE  Sent \in Seq(Nat) /\ FlattenSeq(pending) \in Seq(Nat)
<1>1. PICK rest \in Seq(Nat) : rest = FlattenSeq(pending)
  BY FlattenIsSeq DEF SinkType
<1>2. disk \in Seq(Nat)
  BY DEF SinkType
<1>3. disk \o rest \in Seq(Nat)
  BY <1>2, TwoInARow
<1>4. Sent = disk \o rest
  BY <1>1 DEF Sent
<1>. QED  BY <1>1, <1>3, <1>4

\* A chunk comes after all that was sent, or there is an exception.
LEMMA PutsAfter ==
    ASSUME SinkType, NEW chunk \in Seq(Nat), Puts(chunk)
    PROVE  /\ SinkType' /\ sink'.ws = sink.ws /\ sink'.kind = sink.kind
           /\ ~thrown' => /\ ~thrown /\ sink.kind \notin {"mute", "deaf"}
                          /\ Sent' = Sent \o chunk
                          /\ sink'.position = sink.position + Len(chunk)
<1>. DEFINE moved == IF sink.kind = "mute" THEN 0 ELSE Len(chunk)
<1>1. /\ sink' = [sink EXCEPT !.position = sink.position + moved]
      /\ pending' = IF sink.kind \notin {"mute", "buffer"} /\ Len(chunk) > 0
                    THEN Append(pending, chunk) ELSE pending
      /\ disk' = IF sink.kind = "buffer" THEN disk \o chunk ELSE disk
      /\ thrown' = (thrown \/ sink.kind \in {"mute", "deaf"})
  BY DEF Puts, WriteOn
<1>2. Len(chunk) \in Nat /\ moved \in Nat
  BY LenProperties
<1>3. /\ sink'.ws = sink.ws /\ sink'.kind = sink.kind
      /\ sink'.position = sink.position + moved
      /\ sink' \in [kind : {"file", "buffer", "response", "mute", "deaf"}, position : Nat,
                    ws : {"open", "ending", "null"}]
  <2>. HIDE DEF moved
  <2>1. sink' = [sink EXCEPT !.position = sink.position + moved]
    BY <1>1
  <2>2. PICK at \in Nat : at = sink.position + moved
    BY <1>2 DEF SinkType
  <2>3. sink' = [sink EXCEPT !.position = at]
    BY <2>1, <2>2
  <2>4. sink \in [kind : {"file", "buffer", "response", "mute", "deaf"}, position : Nat,
                 ws : {"open", "ending", "null"}]
    BY DEF SinkType
  <2>. QED  BY <2>2, <2>3, <2>4
<1>4. pending' \in Seq(Seq(Nat))
  <2>1. Append(pending, chunk) \in Seq(Seq(Nat))
    BY AppendProperties DEF SinkType
  <2>. QED  BY <1>1, <2>1 DEF SinkType
<1>5. disk \o chunk \in Seq(Nat) /\ disk' \in Seq(Nat)
  <2>1. disk \in Seq(Nat)
    BY DEF SinkType
  <2>2. disk \o chunk \in Seq(Nat)
    BY <2>1, TwoInARow
  <2>. QED  BY <1>1, <2>1, <2>2
<1>6. thrown' \in BOOLEAN
  BY <1>1
<1>7. sink'.kind = "buffer" => pending' = <<>>
  BY <1>1, <1>3 DEF SinkType
<1>8. SinkType'
  BY <1>3, <1>4, <1>5, <1>6, <1>7 DEF SinkType
<1>9. ASSUME ~thrown'
      PROVE  /\ ~thrown /\ sink.kind \notin {"mute", "deaf"}
             /\ Sent' = Sent \o chunk
             /\ sink'.position = sink.position + Len(chunk)
  <2>1. ~thrown /\ sink.kind \notin {"mute", "deaf"}
    BY <1>1, <1>9
  <2>2. sink'.position = sink.position + Len(chunk)
    BY <1>3, <2>1
  <2>3. PICK d \in Seq(Nat), f \in Seq(Nat) : d = disk /\ f = FlattenSeq(pending)
    BY SentIsSeq DEF SinkType
  <2>4. CASE sink.kind = "buffer"
    <3>1. FlattenSeq(pending) = <<>> /\ pending' = pending /\ disk' = disk \o chunk
      BY <1>1, <2>4, FlattenEmpty DEF SinkType
    <3>2. Sent' = (disk \o chunk) \o <<>> /\ Sent = d \o <<>>
      BY <2>3, <3>1 DEF Sent
    <3>3. d \o <<>> = d /\ (disk \o chunk) \o <<>> = disk \o chunk
      BY <1>5, ConcatEmptySeq
    <3>. QED  BY <2>1, <2>2, <2>3, <3>2, <3>3
  <2>5. CASE sink.kind # "buffer" /\ Len(chunk) > 0
    <3>1. pending' = Append(pending, chunk) /\ disk' = disk
      BY <1>1, <2>1, <2>5
    <3>2. FlattenSeq(pending') = f \o chunk
      BY <2>3, <3>1, FlattenAppend DEF SinkType
    <3>3. (d \o f) \o chunk = d \o (f \o chunk)
      BY InARow
    <3>. QED  BY <2>1, <2>2, <2>3, <3>1, <3>2, <3>3 DEF Sent
  <2>6. CASE sink.kind # "buffer" /\ ~(Len(chunk) > 0)
    <3>1. pending' = pending /\ disk' = disk
      BY <1>1, <2>6
    <3>2. chunk = <<>>
      BY <1>2, <2>6, EmptySeq
    <3>3. Sent \o <<>> = Sent
      BY SentIsSeq, ConcatEmptySeq
    <3>. QED  BY <2>1, <2>2, <3>1, <3>2, <3>3 DEF Sent
  <2>. QED  BY <2>4, <2>5, <2>6
<1>. QED  BY <1>3, <1>8, <1>9

\* What lies in the output lies there when something follows.
LEMMA StillLies ==
    ASSUME NEW s \in Seq(Nat), NEW t \in Seq(Nat), NEW w, w.at \in Nat, w.bytes \in Seq(Nat),
           Lies(w, s)
    PROVE  Lies(w, s \o t)
<1>1. /\ Len(s \o t) = Len(s) + Len(t) /\ Len(s) \in Nat /\ Len(t) \in Nat
      /\ \A i \in 1 .. Len(s) + Len(t) :
            (s \o t)[i] = IF i <= Len(s) THEN s[i] ELSE t[i - Len(s)]
  BY TwoInARow
<1>2. Len(w.bytes) \in Nat /\ w.at + Len(w.bytes) <= Len(s)
  BY LenProperties DEF Lies
<1>3. ASSUME NEW i \in 1 .. Len(w.bytes)
      PROVE  (s \o t)[w.at + i] = w.bytes[i]
  <2>1. w.at + i \in 1 .. Len(s) + Len(t) /\ w.at + i <= Len(s)
    <3>1. PICK at \in Nat, n \in Nat, l \in Nat, m \in Nat :
             at = w.at /\ n = Len(w.bytes) /\ l = Len(s) /\ m = Len(t)
      BY <1>1, <1>2
    <3>2. at + n <= l /\ i \in 1 .. n
      BY <1>2, <3>1
    <3>3. at + i \in 1 .. l + m /\ at + i <= l
      BY <3>2
    <3>. QED  BY <3>1, <3>3
  <2>2. s[w.at + i] = w.bytes[i]
    BY DEF Lies
  <2>3. (s \o t)[w.at + i] = s[w.at + i]
    BY <1>1, <2>1
  <2>. QED  BY <2>2, <2>3
<1>4. w.at + Len(w.bytes) <= Len(s \o t)
  BY <1>1, <1>2
<1>. QED  BY <1>3, <1>4 DEF Lies

\* What is put at the end lies there.
LEMMA LastLies ==
    ASSUME NEW s \in Seq(Nat), NEW t \in Seq(Nat), NEW w, w.at = Len(s), w.bytes = t
    PROVE  Lies(w, s \o t)
<1>1. /\ Len(s \o t) = Len(s) + Len(t) /\ Len(s) \in Nat /\ Len(t) \in Nat
      /\ \A i \in 1 .. Len(s) + Len(t) :
            (s \o t)[i] = IF i <= Len(s) THEN s[i] ELSE t[i - Len(s)]
  BY TwoInARow
<1>2. ASSUME NEW i \in 1 .. Len(t)
      PROVE  (s \o t)[Len(s) + i] = t[i]
  <2>1. /\ Len(s) + i \in 1 .. Len(s) + Len(t) /\ ~(Len(s) + i <= Len(s))
        /\ (Len(s) + i) - Len(s) = i
    BY <1>1
  <2>. QED  BY <1>1, <2>1
<1>. QED  BY <1>1, <1>2 DEF Lies

\* An object, or the client's bytes, are put where the stream says that it is.
LEMMA WriteKeepsOffsets ==
    ASSUME OffsetsInv, StreamsAssumption, NEW chunk \in Chunks,
           WriteObject(chunk) \/ ClientWrites(chunk)
    PROVE  OffsetsInv'
<1>1. chunk \in Seq(Nat)
  BY DEF StreamsAssumption
<1>2. /\ phase = "write" /\ phase' = "write" /\ Puts(chunk)
      /\ UNCHANGED <<asked, answered>>
      /\ \/ written' = written \cup {[at |-> GetCurrentPosition, bytes |-> chunk]}
         \/ written' = written
  BY DEF WriteObject, ClientWrites, Puts
<1>3. /\ SinkType' /\ sink'.ws = sink.ws /\ sink'.kind = sink.kind
      /\ ~thrown' => /\ ~thrown /\ sink.kind \notin {"mute", "deaf"}
                     /\ Sent' = Sent \o chunk
                     /\ sink'.position = sink.position + Len(chunk)
  BY <1>1, <1>2, PutsAfter DEF OffsetsInv
<1>4. sink.ws = "open"
  BY <1>2 DEF OffsetsInv, ClosedLast, SinkType
<1>5. ClosedLast'
  BY <1>2, <1>3, <1>4 DEF OffsetsInv, ClosedLast
<1>6. GetCurrentPosition \in Nat
  BY DEF GetCurrentPosition, OffsetsInv, SinkType
<1>7. \A w \in written' : w.at \in Nat /\ w.bytes \in Seq(Nat)
  BY <1>1, <1>2, <1>6 DEF OffsetsInv, AllLie
<1>8. ASSUME ~thrown'
      PROVE  sink'.position = Len(Sent') /\ \A w \in written' : Lies(w, Sent')
  <2>1. PICK s \in Seq(Nat) : s = Sent
    BY SentIsSeq DEF OffsetsInv
  <2>2. Sent' = s \o chunk /\ sink'.position = sink.position + Len(chunk)
    BY <1>3, <1>8, <2>1
  <2>3. sink.position = Len(s) /\ \A w \in written : Lies(w, s)
    BY <1>3, <1>8, <2>1 DEF OffsetsInv, AllLie
  <2>4. Len(s \o chunk) = Len(s) + Len(chunk)
    BY <1>1, TwoInARow
  <2>5. ASSUME NEW w \in written'
        PROVE  Lies(w, s \o chunk)
    <3>1. CASE w \in written
      <4>1. w.at \in Nat /\ w.bytes \in Seq(Nat) /\ Lies(w, s)
        BY <1>7, <2>3, <3>1
      <4>. QED  BY <1>1, <4>1, StillLies
    <3>2. CASE w = [at |-> GetCurrentPosition, bytes |-> chunk]
      <4>1. w.at = Len(s) /\ w.bytes = chunk
        BY <1>3, <1>8, <2>3, <3>2 DEF GetCurrentPosition
      <4>. QED  BY <1>1, <4>1, LastLies
    <3>. QED  BY <1>2, <3>1, <3>2
  <2>. QED  BY <2>2, <2>3, <2>4, <2>5
<1>9. AllLie'
  BY <1>7, <1>8 DEF AllLie
<1>10. CopiedSoFar'
  BY <1>2 DEF CopiedSoFar
<1>. QED  BY <1>3, <1>5, <1>9, <1>10 DEF OffsetsInv

\* Node moves bytes from what is pending to the file.
LEMMA NodeKeepsOffsets ==
    ASSUME OffsetsInv, NodeWrites
    PROVE  OffsetsInv'
<1>1. /\ pending # <<>> /\ disk' = disk \o Head(pending) /\ pending' = Tail(pending)
      /\ UNCHANGED <<phase, source, delivered, call, sink, asked, answered, written, thrown>>
  BY DEF NodeWrites, readVars
<1>2. PICK head \in Seq(Nat) : head = Head(pending)
  BY <1>1, HeadTailProperties DEF OffsetsInv, SinkType
<1>3. PICK tail \in Seq(Seq(Nat)) : tail = Tail(pending)
  BY <1>1, HeadTailProperties DEF OffsetsInv, SinkType
<1>4. PICK d \in Seq(Nat), rest \in Seq(Nat) : d = disk /\ rest = FlattenSeq(tail)
  BY <1>3, FlattenIsSeq DEF OffsetsInv, SinkType
<1>5. FlattenSeq(pending) = head \o rest
  BY <1>1, <1>2, <1>3, <1>4, FlattenTail DEF OffsetsInv, SinkType
<1>6. Sent' = Sent
  <2>1. Sent = d \o (head \o rest)
    BY <1>4, <1>5 DEF Sent
  <2>2. Sent' = (d \o head) \o rest
    BY <1>1, <1>2, <1>3, <1>4 DEF Sent
  <2>3. (d \o head) \o rest = d \o (head \o rest)
    BY InARow
  <2>. QED  BY <2>1, <2>2, <2>3
<1>7. SinkType'
  <2>1. d \o head \in Seq(Nat)
    BY TwoInARow
  <2>2. disk' \in Seq(Nat) /\ pending' \in Seq(Seq(Nat))
    BY <1>1, <1>2, <1>3, <1>4, <2>1
  <2>. QED  BY <1>1, <2>2 DEF OffsetsInv, SinkType
<1>8. ClosedLast'
  BY <1>1 DEF OffsetsInv, ClosedLast
<1>9. AllLie'
  BY <1>1, <1>6 DEF OffsetsInv, AllLie
<1>10. CopiedSoFar'
  BY <1>1, <1>6 DEF OffsetsInv, CopiedSoFar, Place
<1>. QED  BY <1>7, <1>8, <1>9, <1>10 DEF OffsetsInv

\* Steps that send nothing: of the parser, and of closing.
LEMMA OthersKeepOffsets ==
    ASSUME OffsetsInv,
           \/ phase = "parse" /\ phase' \in {"parse", "write"} /\ UNCHANGED <<sinkVars, written, thrown>>
           \/ EndSession \/ Close \/ NodeFinishes \/ NodeFails \/ UNCHANGED vars
    PROVE  OffsetsInv'
<1>1. CASE UNCHANGED vars
  BY <1>1 DEF vars, readVars, sinkVars, OffsetsInv, SinkType, ClosedLast, AllLie, CopiedSoFar,
              Sent, Place, Lies
<1>2. ASSUME phase # "copy" \/ phase' # "copy", phase' # "copy",
             UNCHANGED <<pending, disk, written, thrown>>,
             sink'.kind = sink.kind, sink'.position = sink.position, SinkType', ClosedLast'
      PROVE  OffsetsInv'
  <2>1. Sent' = Sent
    BY <1>2 DEF Sent
  <2>2. AllLie'
    BY <1>2, <2>1 DEF OffsetsInv, AllLie
  <2>. QED  BY <1>2, <2>2 DEF OffsetsInv, CopiedSoFar
<1>3. CASE \/ phase = "parse" /\ phase' \in {"parse", "write"}
              /\ UNCHANGED <<sinkVars, written, thrown>>
           \/ EndSession \/ NodeFails
  <2>1. /\ phase \in {"parse", "write"} \/ phase' = "failed"
        /\ phase' # "copy" /\ UNCHANGED <<sink, pending, disk, asked, answered, written, thrown>>
    BY <1>3 DEF EndSession, NodeFails, sinkVars
  <2>2. SinkType'
    BY <2>1 DEF OffsetsInv, SinkType
  <2>3. ClosedLast'
    BY <2>1 DEF OffsetsInv, ClosedLast
  <2>. QED  BY <1>2, <2>1, <2>2, <2>3
<1>4. CASE Close
  <2>1. /\ phase' = phase /\ phase \in {"ended", "failed"}
        /\ UNCHANGED <<pending, disk, written, thrown>> /\ asked' = asked + 1
        /\ \/ sink.ws = "null" /\ answered' = answered + 1
              /\ sink' = [sink EXCEPT !.ws = "null"]
           \/ sink.ws # "null" /\ answered' = answered
              /\ sink' = [sink EXCEPT !.ws = "ending"]
    BY <1>4 DEF Close, CloseOutcome
  <2>2. /\ sink'.kind = sink.kind /\ sink'.position = sink.position /\ SinkType'
        /\ sink'.ws = IF sink.ws = "null" THEN "null" ELSE "ending"
    BY <2>1 DEF OffsetsInv, SinkType
  <2>3. ClosedLast'
    BY <2>1, <2>2 DEF OffsetsInv, ClosedLast
  <2>. QED  BY <1>2, <2>1, <2>2, <2>3
<1>5. CASE NodeFinishes
  <2>1. /\ phase' = phase /\ phase # "copy" /\ sink.ws = "ending" /\ pending = <<>>
        /\ UNCHANGED <<pending, disk, written, thrown, asked>> /\ answered' = asked
        /\ sink' = [sink EXCEPT !.ws = "null"]
    BY <1>5 DEF NodeFinishes, BetweenTurns, Answered
  <2>2. /\ sink'.kind = sink.kind /\ sink'.position = sink.position /\ SinkType'
        /\ sink'.ws = "null"
    BY <2>1 DEF OffsetsInv, SinkType
  <2>3. ClosedLast'
    BY <2>1, <2>2 DEF OffsetsInv, ClosedLast
  <2>. QED  BY <1>2, <2>1, <2>2, <2>3
<1>. QED  BY <1>1, <1>3, <1>4, <1>5

\* The copy's buffers come one after the other, and the last is followed by none.
LEMMA CopyKeepsOffsets ==
    ASSUME OffsetsInv, StreamsAssumption, CopyBuffer
    PROVE  OffsetsInv'
<1>. DEFINE b == source.bytes
            here == Place(source)
            there == Place(source')
            chunk == Reads(source, CopySize).read
<1>1. /\ phase = "copy" /\ phase' \in {"copy", "failed"}
      /\ source' = Reads(source, CopySize).to /\ delivered' = chunk /\ Puts(chunk)
      /\ written' = written /\ UNCHANGED <<asked, answered>>
  BY DEF CopyBuffer, Puts
<1>2. IsStream(source) /\ CopySize \in Nat /\ CopySize # 0
  BY <1>1 DEF OffsetsInv, CopiedSoFar, StreamsAssumption
<1>3. /\ IsStream(source') /\ source'.bytes = b
      /\ there = Source!Smaller(here + CopySize, Len(b))
      /\ chunk = SubSeq(b, here + 1, there)
  <2>1. CopySize \in Nat
    BY <1>2
  <2>. QED  BY <1>1, <1>2, <2>1, ReadMoves
<1>4. b \in Seq(Nat) /\ Len(b) \in Nat /\ here \in Nat /\ here <= Len(b)
  BY <1>2 DEF IsStream, Place
<1>5. there \in Nat /\ here <= there /\ there <= Len(b)
  <2>1. PICK h \in Nat, l \in Nat, n \in Nat : h = here /\ l = Len(b) /\ n = CopySize /\ h <= l
    BY <1>2, <1>4
  <2>2. there = IF h + n < l THEN h + n ELSE l
    BY <1>3, <2>1 DEF Source!Smaller
  <2>. QED  BY <2>1, <2>2
<1>6. /\ chunk \in Seq(Nat) /\ Len(chunk) = there - here
      /\ \A i \in 1 .. there - here : chunk[i] = b[here + i]
  <2>1. PICK m \in Nat, n \in Nat : m = here + 1 /\ n = there
    BY <1>4, <1>5
  <2>2. \A i \in m .. n : i \in 1 .. Len(b)
    BY <1>4, <1>5, <2>1
  <2>3. \A i \in m .. n : b[i] \in Nat
    BY <1>4, <2>2, ElementOfSeq
  <2>4. /\ SubSeq(b, m, n) \in Seq(Nat)
        /\ Len(SubSeq(b, m, n)) = IF m <= n THEN n - m + 1 ELSE 0
        /\ \A i \in 1 .. n - m + 1 : SubSeq(b, m, n)[i] = b[m + i - 1]
    BY <2>1, <2>3, SubSeqProperties
  <2>5. Len(SubSeq(b, m, n)) = there - here
    BY <1>4, <1>5, <2>1, <2>4
  <2>6. ASSUME NEW i \in 1 .. there - here
        PROVE  SubSeq(b, m, n)[i] = b[here + i]
    <3>1. i \in 1 .. n - m + 1 /\ m + i - 1 = here + i
      <4>1. PICK h \in Nat, t \in Nat : h = here /\ t = there
        BY <1>4, <1>5
      <4>2. i \in 1 .. t - h /\ m = h + 1 /\ n = t
        BY <2>1, <4>1
      <4>. QED  BY <4>1, <4>2
    <3>. QED  BY <2>4, <3>1
  <2>. QED  BY <1>3, <2>1, <2>4, <2>5, <2>6
<1>. HIDE DEF chunk
<1>7. /\ SinkType' /\ sink'.ws = sink.ws /\ sink'.kind = sink.kind
      /\ ~thrown' => /\ ~thrown /\ sink.kind \notin {"mute", "deaf"}
                     /\ Sent' = Sent \o chunk
                     /\ sink'.position = sink.position + Len(chunk)
  BY <1>1, <1>6, PutsAfter DEF OffsetsInv
<1>8. ClosedLast'
  <2>1. sink.ws = "open"
    BY <1>1 DEF OffsetsInv, ClosedLast
  <2>. QED  BY <1>1, <1>7, <2>1 DEF OffsetsInv, ClosedLast
<1>9. written' = {} /\ written = {}
  BY <1>1 DEF OffsetsInv, CopiedSoFar
<1>10. ASSUME ~thrown'
       PROVE  /\ sink'.position = Len(Sent') /\ Len(Sent') = there
              /\ \A i \in 1 .. there : Sent'[i] = b[i]
  <2>1. PICK s \in Seq(Nat) : s = Sent
    BY SentIsSeq DEF OffsetsInv
  <2>2. Sent' = s \o chunk /\ sink'.position = sink.position + Len(chunk)
    BY <1>7, <1>10, <2>1
  <2>3. sink.position = Len(s) /\ Len(s) = here /\ \A i \in 1 .. here : s[i] = b[i]
    BY <1>1, <1>7, <1>10, <2>1 DEF OffsetsInv, AllLie, CopiedSoFar
  <2>4. /\ Len(s \o chunk) = here + (there - here)
        /\ \A i \in 1 .. here + (there - here) :
              (s \o chunk)[i] = IF i <= here THEN s[i] ELSE chunk[i - here]
    <3>1. /\ Len(s \o chunk) = Len(s) + Len(chunk)
          /\ \A i \in 1 .. Len(s) + Len(chunk) :
                (s \o chunk)[i] = IF i <= Len(s) THEN s[i] ELSE chunk[i - Len(s)]
      BY <1>6, TwoInARow
    <3>2. Len(s) = here /\ Len(chunk) = there - here
      BY <1>6, <2>3
    <3>. QED  BY <3>1, <3>2
  <2>5. ASSUME NEW i \in 1 .. there
        PROVE  (s \o chunk)[i] = b[i]
    <3>1. i \in 1 .. here + (there - here)
      BY <1>4, <1>5
    <3>2. CASE i <= here
      <4>1. i \in 1 .. here
        BY <1>4, <1>5, <3>2
      <4>. QED  BY <2>3, <2>4, <3>1, <3>2, <4>1
    <3>3. CASE ~(i <= here)
      <4>1. i - here \in 1 .. there - here /\ here + (i - here) = i
        BY <1>4, <1>5, <3>3
      <4>2. chunk[i - here] = b[here + (i - here)]
        BY <1>6, <4>1
      <4>. QED  BY <2>4, <3>1, <3>3, <4>1, <4>2
    <3>. QED  BY <3>2, <3>3
  <2>6. here + (there - here) = there
    BY <1>4, <1>5
  <2>. QED  BY <1>6, <2>2, <2>3, <2>4, <2>5, <2>6
<1>11. AllLie'
  BY <1>9, <1>10 DEF AllLie
<1>12. delivered' = <<>> => there = Len(b)
  <2>. SUFFICES ASSUME delivered' = <<>>
                PROVE  there = Len(b)
    OBVIOUS
  <2>1. there - here = 0
    BY <1>1, <1>6
  <2>. QED  BY <1>2, <1>3, <1>4, <1>5, <2>1 DEF Source!Smaller
<1>13. CopiedSoFar'
  BY <1>3, <1>9, <1>10, <1>12 DEF CopiedSoFar
<1>. QED  BY <1>7, <1>8, <1>11, <1>13 DEF OffsetsInv

\* The original is at the start of the output, all of it.
LEMMA EndCopyKeepsOffsets ==
    ASSUME OffsetsInv, StreamsAssumption, EndCopy
    PROVE  OffsetsInv'
<1>1. phase = "copy" /\ phase' = "parse" /\ ~CopyGoesOn
  BY DEF EndCopy
<1>2. PICK eol \in Chunks :
         /\ Puts(eol)
         /\ written' = {[at |-> 0, bytes |-> source.bytes],
                        [at |-> GetCurrentPosition, bytes |-> eol]}
  BY DEF EndCopy
<1>3. eol \in Seq(Nat) /\ UNCHANGED <<asked, answered>>
  BY <1>2 DEF Puts, StreamsAssumption
<1>4. PICK b \in Seq(Nat) : b = source.bytes
  BY <1>1 DEF OffsetsInv, CopiedSoFar, IsStream
<1>5. Place(source) = Len(b)
  <2>1. CASE ~NotEnded(source)
    BY <1>4, <2>1 DEF NotEnded, Place
  <2>2. CASE NotEnded(source)
    <3>1. call[1] = "Read" /\ delivered = <<>>
      BY <1>1, <2>2 DEF CopyGoesOn
    <3>. QED  BY <1>1, <1>4, <3>1 DEF OffsetsInv, CopiedSoFar
  <2>. QED  BY <2>1, <2>2
<1>6. /\ SinkType' /\ sink'.ws = sink.ws /\ sink'.kind = sink.kind
      /\ ~thrown' => /\ ~thrown /\ sink.kind \notin {"mute", "deaf"}
                     /\ Sent' = Sent \o eol
                     /\ sink'.position = sink.position + Len(eol)
  BY <1>2, <1>3, PutsAfter DEF OffsetsInv
<1>7. ClosedLast'
  <2>1. sink.ws = "open"
    BY <1>1 DEF OffsetsInv, ClosedLast
  <2>. QED  BY <1>1, <1>3, <1>6, <2>1 DEF OffsetsInv, ClosedLast
<1>8. \A w \in written' : w.at \in Nat /\ w.bytes \in Seq(Nat)
  <2>1. GetCurrentPosition \in Nat
    BY DEF GetCurrentPosition, OffsetsInv, SinkType
  <2>. QED  BY <1>2, <1>3, <1>4, <2>1
<1>9. ASSUME ~thrown'
      PROVE  sink'.position = Len(Sent') /\ \A w \in written' : Lies(w, Sent')
  <2>1. PICK s \in Seq(Nat) : s = Sent
    BY SentIsSeq DEF OffsetsInv
  <2>2. Sent' = s \o eol /\ sink'.position = sink.position + Len(eol)
    BY <1>6, <1>9, <2>1
  <2>3. sink.position = Len(s) /\ Len(s) = Len(b) /\ \A i \in 1 .. Len(b) : s[i] = b[i]
    BY <1>1, <1>4, <1>5, <1>6, <1>9, <2>1 DEF OffsetsInv, AllLie, CopiedSoFar
  <2>4. Len(s \o eol) = Len(s) + Len(eol)
    BY <1>3, TwoInARow
  <2>5. ASSUME NEW w, w = [at |-> 0, bytes |-> source.bytes]
        PROVE  Lies(w, s \o eol)
    <3>1. w.at = 0 /\ w.at \in Nat /\ w.bytes = b /\ w.bytes \in Seq(Nat)
      BY <1>4, <2>5
    <3>2. Len(b) \in Nat
      BY LenProperties
    <3>3. \A i \in 1 .. Len(b) : 0 + i = i
      BY <3>2
    <3>4. 0 + Len(b) <= Len(s)
      BY <2>3, <3>2
    <3>5. Lies(w, s)
      BY <2>3, <3>1, <3>3, <3>4 DEF Lies
    <3>. QED  BY <1>3, <3>1, <3>5, StillLies
  <2>6. ASSUME NEW w, w = [at |-> GetCurrentPosition, bytes |-> eol]
        PROVE  Lies(w, s \o eol)
    <3>1. w.at = Len(s) /\ w.bytes = eol
      BY <1>6, <1>9, <2>3, <2>6 DEF GetCurrentPosition
    <3>. QED  BY <1>3, <3>1, LastLies
  <2>. QED  BY <1>2, <2>2, <2>3, <2>4, <2>5, <2>6
<1>10. AllLie'
  BY <1>8, <1>9 DEF AllLie
<1>11. CopiedSoFar'
  BY <1>1 DEF CopiedSoFar
<1>. QED  BY <1>6, <1>7, <1>10, <1>11 DEF OffsetsInv

LEMMA NextKeepsOffsets ==
    ASSUME OffsetsInv, StreamsAssumption, [Next]_vars
    PROVE  OffsetsInv'
<1>1. CASE CopyBuffer
  BY <1>1, CopyKeepsOffsets
<1>2. CASE EndCopy
  BY <1>2, EndCopyKeepsOffsets
<1>3. CASE \/ ReadsBack \/ EndParsing
           \/ \E n \in Amounts :
                 \/ ReadsForward(n)
                 \/ Moves("SetPosition", n, SetPosition(source, n))
                 \/ Moves("SetPositionFromEnd", n, SetPositionFromEnd(source, n))
                 \/ Moves("Skip", n, Skip(source, n))
  <2>1. phase = "parse" /\ phase' \in {"parse", "write"} /\ UNCHANGED <<sinkVars, written, thrown>>
    BY <1>3 DEF ReadsBack, EndParsing, ReadsForward, Moves
  <2>. QED  BY <2>1, OthersKeepOffsets
<1>4. CASE \E chunk \in Chunks : WriteObject(chunk) \/ ClientWrites(chunk)
  BY <1>4, WriteKeepsOffsets
<1>5. CASE NodeWrites
  BY <1>5, NodeKeepsOffsets
<1>6. CASE EndSession \/ Close \/ NodeFinishes \/ NodeFails \/ UNCHANGED vars
  BY <1>6, OthersKeepOffsets
<1>. QED  BY <1>1, <1>2, <1>3, <1>4, <1>5, <1>6 DEF Next

LEMMA InitHasOffsets ==
    ASSUME Init, StreamsAssumption
    PROVE  OffsetsInv
<1>1. /\ sink.kind \in {"file", "buffer", "response", "mute", "deaf"}
      /\ sink = [kind |-> sink.kind, position |-> 0, ws |-> "open"]
      /\ pending = <<>> /\ disk = <<>> /\ thrown = FALSE /\ asked = 0 /\ answered = 0
      /\ written = {} /\ call[1] = "Open"
  BY DEF Init, StreamsAssumption
<1>2. <<>> \in Seq(Nat) /\ <<>> \in Seq(Seq(Nat)) /\ Len(<<>>) = 0
  OBVIOUS
<1>3. Sent = <<>>
  <2>1. <<>> \o <<>> = <<>>
    BY <1>2, ConcatEmptySeq
  <2>. QED  BY <1>1, <2>1, FlattenEmpty DEF Sent
<1>4. IsStream(source) /\ Place(source) = 0
  <2>1. IsStream(source) /\ source.rposition = 0
    BY StartsAtStart DEF ReadingOK, Init
  <2>2. Len(source.bytes) \in Nat
    BY <2>1 DEF IsStream
  <2>. QED  BY <2>1, <2>2 DEF Place
<1>5. SinkType
  <2>1. sink \in [kind : {"file", "buffer", "response", "mute", "deaf"}, position : Nat,
                 ws : {"open", "ending", "null"}]
    BY <1>1
  <2>. QED  BY <1>1, <1>2, <2>1 DEF SinkType
<1>6. ClosedLast
  BY <1>1 DEF ClosedLast
<1>7. AllLie
  BY <1>1, <1>2, <1>3 DEF AllLie
<1>8. CopiedSoFar
  BY <1>1, <1>2, <1>3, <1>4 DEF CopiedSoFar
<1>. QED  BY <1>5, <1>6, <1>7, <1>8 DEF OffsetsInv

LEMMA LyingIsFound ==
    ASSUME NEW s \in Seq(Nat), NEW w, w.at \in Nat, w.bytes \in Seq(Nat), Lies(w, s)
    PROVE  /\ w.at + Len(w.bytes) <= Len(s)
           /\ SubSeq(s, w.at + 1, w.at + Len(w.bytes)) = w.bytes
<1>1. PICK at \in Nat, c \in Seq(Nat) : at = w.at /\ c = w.bytes
  OBVIOUS
<1>2. PICK n \in Nat, l \in Nat : n = Len(c) /\ l = Len(s)
  BY LenProperties
<1>3. at + n <= l /\ \A i \in 1 .. n : s[at + i] = c[i]
  BY <1>1, <1>2 DEF Lies
<1>4. PICK first \in Nat, last \in Nat : first = at + 1 /\ last = at + n
  OBVIOUS
<1>5. \A i \in first .. last : i \in 1 .. Len(s)
  BY <1>2, <1>3, <1>4
<1>6. \A i \in first .. last : s[i] \in Nat
  BY <1>5, ElementOfSeq
<1>7. PICK found : found = SubSeq(s, first, last)
  OBVIOUS
<1>8. /\ found \in Seq(Nat)
      /\ Len(found) = IF first <= last THEN last - first + 1 ELSE 0
      /\ \A i \in 1 .. last - first + 1 : found[i] = s[first + i - 1]
  BY <1>6, <1>7, SubSeqProperties
<1>9. Len(found) = Len(c)
  BY <1>2, <1>4, <1>8
<1>10. ASSUME NEW i \in 1 .. Len(found)
       PROVE  found[i] = c[i]
  <2>1. i \in 1 .. n /\ i \in 1 .. last - first + 1 /\ first + i - 1 = at + i
    BY <1>2, <1>4, <1>9
  <2>. QED  BY <1>3, <1>8, <2>1
<1>11. found = c
  BY <1>8, <1>9, <1>10, SeqEqual
<1>. QED  BY <1>1, <1>2, <1>3, <1>4, <1>7, <1>11

LEMMA OffsetsFollow ==
    ASSUME OffsetsInv
    PROVE  OffsetsAreTrue
<1>. DEFINE output == IF answered > 0 THEN disk ELSE Sent
<1>1. output = Sent
  <2>1. CASE answered > 0
    <3>1. pending = <<>> /\ disk \in Seq(Nat)
      BY <2>1 DEF OffsetsInv, ClosedLast, SinkType
    <3>2. disk \o <<>> = disk
      BY <3>1, ConcatEmptySeq
    <3>. QED  BY <2>1, <3>1, <3>2, FlattenEmpty DEF Sent
  <2>. QED  BY <2>1
<1>2. Sent \in Seq(Nat)
  BY SentIsSeq DEF OffsetsInv
<1>. SUFFICES ASSUME phase # "failed", ~thrown, NEW w \in written
              PROVE  /\ w.at + Len(w.bytes) <= Len(Sent)
                     /\ SubSeq(Sent, w.at + 1, w.at + Len(w.bytes)) = w.bytes
  BY <1>1 DEF OffsetsAreTrue
<1>3. w.at \in Nat /\ w.bytes \in Seq(Nat) /\ Lies(w, Sent)
  BY DEF OffsetsInv, AllLie
<1>. QED  BY <1>2, <1>3, LyingIsFound

\* The offsets of the cross-reference table lead to their objects, those of the copied
\* original included, whatever is written, in whatever chunks, however far node is with
\* writing it and however often close is called: every file, every source and every
\* stream that a client may pass, or there was an exception.
THEOREM OffsetsCorrect ==
    Spec => []OffsetsAreTrue
<1>1. Init => OffsetsInv
  BY StreamsAssumption, InitHasOffsets
<1>2. OffsetsInv /\ [Next]_vars => OffsetsInv'
  BY StreamsAssumption, NextKeepsOffsets
<1>3. OffsetsInv => OffsetsAreTrue
  BY OffsetsFollow
<1>. QED  BY <1>1, <1>2, <1>3, PTL DEF Spec
===============================================================================
