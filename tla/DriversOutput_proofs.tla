----------------------- MODULE DriversOutput_proofs -----------------------
(***************************************************************************)
(* What the drivers let a program write: objects that follow each other,   *)
(* properly nested. At every moment the program is at one place, which     *)
(* "busy" tells, and what is open there has one of few shapes. And, in the *)
(* second part, that everything is deleted in the end.                     *)
(***************************************************************************)
EXTENDS Drivers_proofs

(***************************************************************************)
(* What is open in the file.                                               *)
(***************************************************************************)
Thing == {"object", "array", "dictionary", "stream"} \X Int
IsOutput(o) == o \in [open : Seq(Thing), sound : {TRUE}]
Inner(x) == x[1] \in {"array", "dictionary"}

\* An object of the program: arrays and dictionaries, or a stream.
Nested(o) ==
    /\ Len(o.open) >= 1 /\ o.open[1] = Object
    /\ \A i \in 2 .. Len(o.open) : Inner(o.open[i])
OnlyStream(o, s) == s \in Int /\ o.open = <<Object, Stream(s)>>
OwnObject(o) == Nested(o) \/ \E s : OnlyStream(o, s)

\* The dictionaries that the listener is yet to complete, and what it started in the first.
ListenedTo(o, left) ==
    /\ left # <<>>
    /\ Len(o.open) >= 1 + Len(left) /\ o.open[1] = Object
    /\ \A i \in 1 .. Len(left) : o.open[1 + i] = Dictionary(left[Len(left) + 1 - i])
    /\ \A i \in (2 + Len(left)) .. Len(o.open) :
          Inner(o.open[i]) /\ \A j \in DOMAIN left : o.open[i] # Dictionary(left[j])

WaitedFor(o, e) ==
    e.left = <<>> /\ (o.open = <<Object>> \/ (e.call = "end" /\ o.open = <<>>))

\* The stream of a page's context, of a form or of a modifier.
DrawnIn(h, o, c) ==
    \E s \in h[c].parts :
       /\ OnlyStream(o, s)
       /\ \A p \in h[c].parts : p \in DOMAIN h /\ h[p].kind = "stream" => p = s

\* The other contexts of pages have no streams.
Paused(h, b) == \A c \in DOMAIN h : h[c].kind = "pageContext" /\ c \notin b => h[c].parts = {}

Nests(h, o, b, e) ==
    /\ IsOutput(o)
    /\ b = {} => o.open = <<>>
    /\ b = {Own} => OwnObject(o)
    /\ b = {Listening} => ListenedTo(o, e.left)
    /\ b = {Waiting} => WaitedFor(o, e)
    /\ \A c \in b : c \notin {Own, Listening, Waiting} => DrawnIn(h, o, c)
    /\ Paused(h, b)

IsOn(s, b, e) == s.state \in {"none", "on", "over"} /\ (b # {} \/ e # NoEvent => s.state = "on")

OInv == ~thrown => Nests(heap, out, busy, event) /\ IsOn(session, busy, event)

-----------------------------------------------------------------------------

LEMMA NothingIsOpen == ASSUME NEW o, o.open = <<>> PROVE Top(o) = <<"file", None>>
BY DEF Top

LEMMA TopIs ==
    ASSUME NEW o, IsOutput(o), o.open # <<>>
    PROVE  /\ Top(o) = o.open[Len(o.open)] /\ Top(o) \in Thing
           /\ Len(o.open) \in Nat /\ Len(o.open) >= 1
BY DEF Top, Last, IsOutput

LEMMA Opening ==
    ASSUME NEW o, IsOutput(o), NEW x \in Thing, NEW where, Top(o)[1] \in where
    PROVE  IsOutput(Opened(o, x, where)) /\ Opened(o, x, where).open = Append(o.open, x)
<1>1. o.open \in Seq(Thing) /\ o.sound = TRUE
  BY DEF IsOutput
<1>2. Append(o.open, x) \in Seq(Thing)
  BY <1>1
<1>3. Opened(o, x, where) = [open |-> Append(o.open, x), sound |-> TRUE]
  BY <1>1 DEF Opened
<1>. QED  BY <1>2, <1>3 DEF IsOutput

LEMMA Closing ==
    ASSUME NEW o, IsOutput(o), NEW x, Top(o) = x, o.open # <<>>
    PROVE  /\ IsOutput(Closed(o, x)) /\ Closed(o, x).open = Front(o.open)
           /\ Len(Closed(o, x).open) = Len(o.open) - 1
           /\ \A i \in 1 .. (Len(o.open) - 1) : Closed(o, x).open[i] = o.open[i]
<1>1. o.open \in Seq(Thing) /\ o.sound = TRUE
  BY DEF IsOutput
<1>2. Closed(o, x) = [open |-> Front(o.open), sound |-> TRUE]
  BY <1>1 DEF Closed
<1>3. /\ Front(o.open) \in Seq(Thing) /\ Len(Front(o.open)) = Len(o.open) - 1
      /\ \A i \in 1 .. (Len(o.open) - 1) : Front(o.open)[i] = o.open[i]
  BY <1>1 DEF Front
<1>. QED  BY <1>2, <1>3 DEF IsOutput

LEMMA ThingsAre ==
    /\ Object \in Thing /\ Array \in Thing
    /\ \A n \in Int : Dictionary(n) \in Thing /\ Stream(n) \in Thing
    /\ Object[1] = "object" /\ Array[1] = "array"
    /\ \A n : Dictionary(n)[1] = "dictionary" /\ Stream(n)[1] = "stream"
    /\ \A n : Dictionary(n)[2] = n /\ Stream(n)[2] = n
BY DEF Object, Array, Dictionary, Stream, Thing, None

LEMMA OfOne ==
    ASSUME NEW S, NEW a \in S, NEW q \in Seq(S), Len(q) = 1, q[1] = a
    PROVE  q = <<a>>
OBVIOUS

LEMMA OfTwo ==
    ASSUME NEW S, NEW a \in S, NEW b \in S, NEW q \in Seq(S), Len(q) = 2, q[1] = a, q[2] = b
    PROVE  q = <<a, b>>
OBVIOUS

LEMMA Shorts ==
    ASSUME NEW S, NEW a \in S, NEW b \in S
    PROVE  /\ Append(<<>>, a) = <<a>> /\ Append(<<a>>, b) = <<a, b>>
           /\ Len(<<a>>) = 1 /\ <<a>>[1] = a /\ <<a>> # <<>>
           /\ Len(<<a, b>>) = 2 /\ <<a, b>>[1] = a /\ <<a, b>>[2] = b /\ <<a, b>> # <<>>
           /\ <<a>> \in Seq(S) /\ <<a, b>> \in Seq(S)
<1>1. Append(<<>>, a) = <<a>> /\ Append(<<a>>, b) = <<a, b>>
  <2>1. <<>> \in Seq(S) /\ Len(<<>>) = 0
    OBVIOUS
  <2>2. Append(<<>>, a) \in Seq(S) /\ Len(Append(<<>>, a)) = 1 /\ Append(<<>>, a)[1] = a
    BY <2>1
  <2>3. Append(<<>>, a) = <<a>>
    BY <2>2, OfOne
  <2>4. <<a>> \in Seq(S) /\ Len(<<a>>) = 1 /\ <<a>>[1] = a
    OBVIOUS
  <2>5. Append(<<a>>, b) \in Seq(S) /\ Len(Append(<<a>>, b)) = 2
        /\ Append(<<a>>, b)[1] = a /\ Append(<<a>>, b)[2] = b
    BY <2>4
  <2>6. Append(<<a>>, b) = <<a, b>>
    BY <2>5, OfTwo
  <2>. QED  BY <2>3, <2>6
<1>2. Len(<<a>>) = 1 /\ <<a>>[1] = a /\ <<a>> # <<>>
  OBVIOUS
<1>3. Len(<<a, b>>) = 2 /\ <<a, b>>[1] = a /\ <<a, b>>[2] = b /\ <<a, b>> # <<>>
  OBVIOUS
<1>4. <<a>> \in Seq(S) /\ <<a, b>> \in Seq(S)
  OBVIOUS
<1>. QED  BY <1>1, <1>2, <1>3, <1>4

\* The object that is open alone, and what follows it.
LEMMA AloneIs ==
    ASSUME NEW o, IsOutput(o), o.open = <<Object>>
    PROVE  o.open # <<>> /\ Top(o) = Object /\ Len(o.open) = 1 /\ Top(o)[1] = "object"
<1>1. Object \in Thing /\ Object[1] = "object"
  BY ThingsAre
<1>2. Len(<<Object>>) = 1 /\ <<Object>>[1] = Object /\ <<Object>> # <<>>
  BY <1>1, Shorts
<1>. QED  BY <1>1, <1>2, TopIs

LEMMA SecondIs ==
    ASSUME NEW o, IsOutput(o), NEW x \in Thing, o.open = <<Object, x>>
    PROVE  o.open # <<>> /\ Top(o) = x /\ Len(o.open) = 2 /\ o.open[1] = Object
<1>1. Object \in Thing
  BY ThingsAre
<1>2. /\ Len(<<Object, x>>) = 2 /\ <<Object, x>>[1] = Object /\ <<Object, x>>[2] = x
      /\ <<Object, x>> # <<>>
  BY <1>1, Shorts
<1>. QED  BY <1>2, TopIs

LEMMA StartingObject ==
    ASSUME NEW o, IsOutput(o), o.open = <<>>
    PROVE  IsOutput(ObjectStarted(o)) /\ ObjectStarted(o).open = <<Object>>
<1>1. Top(o)[1] \in {"file"}
  BY NothingIsOpen
<1>2. IsOutput(ObjectStarted(o)) /\ ObjectStarted(o).open = Append(o.open, Object)
  BY <1>1, Opening, ThingsAre DEF ObjectStarted
<1>3. Append(<<>>, Object) = <<Object>>
  BY Shorts, ThingsAre
<1>. QED  BY <1>2, <1>3

LEMMA StartingStream ==
    ASSUME NEW o, IsOutput(o), o.open = <<Object>>, NEW s \in Int
    PROVE  IsOutput(StreamStarted(o, s)) /\ StreamStarted(o, s).open = <<Object, Stream(s)>>
<1>1. Top(o)[1] \in {"object"}
  BY AloneIs
<1>2. Object \in Thing /\ Stream(s) \in Thing
  BY ThingsAre
<1>3. IsOutput(StreamStarted(o, s)) /\ StreamStarted(o, s).open = Append(o.open, Stream(s))
  BY <1>1, <1>2, Opening DEF StreamStarted
<1>4. Append(<<Object>>, Stream(s)) = <<Object, Stream(s)>>
  BY <1>2, Shorts
<1>. QED  BY <1>3, <1>4

LEMMA NestingDictionary ==
    ASSUME NEW o, IsOutput(o), Top(o)[1] \in {"object", "dictionary", "array"}, NEW d \in Int
    PROVE  IsOutput(DictionaryStarted(o, d))
           /\ DictionaryStarted(o, d).open = Append(o.open, Dictionary(d))
BY Opening, ThingsAre DEF DictionaryStarted

LEMMA EndingObject ==
    ASSUME NEW o, IsOutput(o), o.open = <<Object>>
    PROVE  IsOutput(ObjectEnded(o)) /\ ObjectEnded(o).open = <<>>
<1>1. Top(o) = Object /\ o.open # <<>> /\ Len(o.open) = 1
  BY AloneIs
<1>. DEFINE p == Closed(o, Object)
<1>a. IsOutput(p) /\ Len(p.open) = Len(o.open) - 1
  BY <1>1, Closing
<1>b. p = ObjectEnded(o)
  BY DEF ObjectEnded
<1>. HIDE DEF p
<1>2. IsOutput(ObjectEnded(o)) /\ Len(ObjectEnded(o).open) = 0
  BY <1>1, <1>a, <1>b
<1>3. ObjectEnded(o).open \in Seq(Thing)
  BY <1>2 DEF IsOutput
<1>. QED  BY <1>2, <1>3

LEMMA WholeIs ==
    ASSUME NEW o, IsOutput(o), o.open = <<>>
    PROVE  WholeObject(o) = o
BY DEF WholeObject, IsOutput

LEMMA EndingStream ==
    ASSUME NEW o, IsOutput(o), NEW s \in Int, o.open = <<Object, Stream(s)>>
    PROVE  IsOutput(StreamEnded(o, s)) /\ StreamEnded(o, s).open = <<>>
<1>1. Top(o) = Stream(s) /\ o.open # <<>> /\ Len(o.open) = 2
  BY SecondIs, ThingsAre
<1>. DEFINE p == Closed(o, Stream(s))
<1>2. IsOutput(p) /\ Len(p.open) = 1 /\ p.open[1] = Object
  <2>1. o.open[1] = Object
    BY SecondIs, ThingsAre
  <2>2. IsOutput(p) /\ Len(p.open) = Len(o.open) - 1 /\ \A i \in 1 .. (Len(o.open) - 1) : p.open[i] = o.open[i]
    BY <1>1, Closing
  <2>. QED  BY <1>1, <2>1, <2>2
<1>3. p.open = <<Object>>
  <2>1. p.open \in Seq(Thing)
    BY <1>2 DEF IsOutput
  <2>. QED  BY <1>2, <2>1, OfOne, ThingsAre
<1>. HIDE DEF p
<1>4. IsOutput(ObjectEnded(p)) /\ ObjectEnded(p).open = <<>>
  BY <1>2, <1>3, EndingObject
<1>5. WholeObject(ObjectEnded(p)) = ObjectEnded(p)
  BY <1>4, WholeIs
<1>. QED  BY <1>4, <1>5 DEF p, StreamEnded

\* A dictionary that is open innermost of all is the innermost one.
LEMMA InnermostIs ==
    ASSUME NEW o, IsOutput(o), Top(o)[1] = "dictionary"
    PROVE  o.open # <<>> /\ Top(o) = Dictionary(InnermostDictionary(o))
<1>1. o.open # <<>>
  BY NothingIsOpen
<1>2. /\ Top(o) = o.open[Len(o.open)] /\ Len(o.open) \in Nat /\ Len(o.open) >= 1
      /\ Top(o) = <<Top(o)[1], Top(o)[2]>>
  BY <1>1, TopIs DEF Thing
<1>. DEFINE I == {i \in 1 .. Len(o.open) : o.open[i][1] = "dictionary"}
<1>3. Len(o.open) \in I /\ \A i \in I : i \in Nat /\ Len(o.open) >= i
  BY <1>2
<1>4. Max(I) = Len(o.open)
  <2>1. /\ Max(I) \in I /\ \A j \in I : Max(I) >= j
    BY <1>3 DEF Max
  <2>. QED  BY <1>3, <2>1
<1>5. SelectLastInSeq(o.open, LAMBDA x : x[1] = "dictionary") = Len(o.open)
  BY <1>3, <1>4 DEF SelectLastInSeq
<1>6. InnermostDictionary(o) = o.open[Len(o.open)][2]
  BY <1>2, <1>5 DEF InnermostDictionary
<1>. QED  BY <1>1, <1>2, <1>6 DEF Dictionary

\* An object with its dictionaries, up to the first call of the listener.
LEMMA Beginning ==
    ASSUME NEW o, IsOutput(o), o.open = <<>>, NEW k \in 1 .. 2, NEW first \in Nat,
           New(first) \in Nat, k = 2 => New(first + 1) \in Nat
    PROVE  IsOutput(Begun(o, first, k)) /\ ListenedTo(Begun(o, first, k), Left(first, k))
<1>. DEFINE a == New(first)
            p == ObjectStarted(o)
            q == DictionaryStarted(p, a)
<1>1. IsOutput(p) /\ p.open = <<Object>>
  BY StartingObject
<1>2. Top(p)[1] = "object"
  BY <1>1, AloneIs
<1>3. a \in Int /\ Object \in Thing /\ Dictionary(a) \in Thing
  BY ThingsAre
<1>. HIDE DEF p, a
<1>4. IsOutput(q) /\ q.open = Append(p.open, Dictionary(a))
  BY <1>1, <1>2, <1>3, NestingDictionary
<1>5. q.open = <<Object, Dictionary(a)>>
  BY <1>1, <1>3, <1>4, Shorts
<1>6. Len(q.open) = 2 /\ q.open[1] = Object /\ q.open[2] = Dictionary(a) /\ Top(q) = Dictionary(a)
      /\ q.open \in Seq(Thing)
  <2>1. q.open # <<>> /\ Top(q) = Dictionary(a) /\ Len(q.open) = 2 /\ q.open[1] = Object
    BY <1>3, <1>4, <1>5, SecondIs
  <2>2. q.open \in Seq(Thing) /\ Top(q) = q.open[Len(q.open)]
    BY <1>4, <2>1, TopIs DEF IsOutput
  <2>. QED  BY <2>1, <2>2
<1>. HIDE DEF q
<1>7. CASE k = 1
  <2>1. Begun(o, first, k) = q /\ Left(first, k) = <<a>>
    BY <1>7 DEF Begun, Left, q, p, a
  <2>2. Len(<<a>>) = 1 /\ <<a>>[1] = a /\ <<a>> # <<>> /\ DOMAIN <<a>> = 1 .. 1
    OBVIOUS
  <2>3. ListenedTo(q, <<a>>)
    BY <1>6, <2>2 DEF ListenedTo
  <2>. QED  BY <1>4, <2>1, <2>3
<1>8. CASE k = 2
  <2>. DEFINE b == New(first + 1)
              r == DictionaryStarted(q, b)
  <2>1. Begun(o, first, k) = r /\ Left(first, k) = <<b, a>>
    BY <1>8 DEF Begun, Left, q, p, a
  <2>2. b \in Int /\ Dictionary(b) \in Thing /\ Top(q)[1] = "dictionary"
    BY <1>6, <1>8, ThingsAre
  <2>. HIDE DEF b
  <2>3. IsOutput(r) /\ r.open = Append(q.open, Dictionary(b))
    BY <1>4, <2>2, NestingDictionary
  <2>. HIDE DEF r
  <2>4. /\ Len(r.open) = 3 /\ r.open[1] = Object /\ r.open[2] = Dictionary(a)
        /\ r.open[3] = Dictionary(b)
    BY <1>6, <2>2, <2>3
  <2>5. /\ Len(<<b, a>>) = 2 /\ <<b, a>>[1] = b /\ <<b, a>>[2] = a /\ <<b, a>> # <<>>
        /\ DOMAIN <<b, a>> = 1 .. 2
    OBVIOUS
  <2>6. ListenedTo(r, <<b, a>>)
    BY <2>4, <2>5 DEF ListenedTo
  <2>. QED  BY <2>1, <2>3, <2>6
<1>. QED  BY <1>7, <1>8

LEMMA StreamIs ==
    ASSUME NEW o, IsOutput(o), NEW s, OnlyStream(o, s)
    PROVE  /\ o.open # <<>> /\ Top(o) = Stream(s) /\ Len(o.open) = 2 /\ o.open[1] = Object
           /\ Top(o)[1] = "stream" /\ \A t : Top(o) = Stream(t) => t = s
<1>1. s \in Int /\ o.open = <<Object, Stream(s)>> /\ Stream(s) \in Thing
  BY ThingsAre DEF OnlyStream
<1>2. o.open # <<>> /\ Top(o) = Stream(s) /\ Len(o.open) = 2 /\ o.open[1] = Object
  BY <1>1, SecondIs
<1>3. Stream(s)[1] = "stream" /\ \A t : Stream(s) = Stream(t) => t = s
  BY DEF Stream
<1>. QED  BY <1>2, <1>3

LEMMA InnerTop ==
    ASSUME NEW o, IsOutput(o), OwnObject(o) \/ \E left \in Seq(Nat) : ListenedTo(o, left)
    PROVE  o.open # <<>> /\ Len(o.open) \in Nat /\ Len(o.open) >= 1
           /\ Top(o) = o.open[Len(o.open)] /\ o.open \in Seq(Thing)
           /\ Top(o)[1] \in {"object", "array", "dictionary", "stream"}
<1>1. o.open \in Seq(Thing)
  BY DEF IsOutput
<1>2. Len(o.open) >= 1
  <2>1. CASE Nested(o)
    BY <2>1 DEF Nested
  <2>2. ASSUME NEW s, OnlyStream(o, s) PROVE Len(o.open) >= 1
    BY <2>2, StreamIs
  <2>3. ASSUME NEW left \in Seq(Nat), ListenedTo(o, left) PROVE Len(o.open) >= 1
    BY <1>1, <2>3 DEF ListenedTo
  <2>. QED  BY <2>1, <2>2, <2>3 DEF OwnObject
<1>3. o.open # <<>>
  BY <1>2
<1>4. Top(o) = o.open[Len(o.open)] /\ Top(o) \in Thing
  BY <1>3, TopIs
<1>. QED  BY <1>1, <1>2, <1>3, <1>4 DEF Thing

\* The program starts an array or a dictionary in its object.
LEMMA OwnOpens ==
    ASSUME NEW o, IsOutput(o), OwnObject(o), Top(o)[1] # "stream", NEW x \in Thing, Inner(x),
           NEW p, IsOutput(p), p.open = Append(o.open, x)
    PROVE  OwnObject(p)
<1>1. Nested(o)
  BY StreamIs DEF OwnObject
<1>2. o.open \in Seq(Thing)
  BY DEF IsOutput
<1>3. /\ Len(p.open) = Len(o.open) + 1
      /\ p.open[Len(o.open) + 1] = x
      /\ \A i \in 1 .. Len(o.open) : p.open[i] = o.open[i]
  BY <1>2
<1>4. \A i \in 2 .. Len(p.open) : Inner(p.open[i])
  BY <1>1, <1>2, <1>3 DEF Nested
<1>. QED  BY <1>1, <1>2, <1>3, <1>4 DEF OwnObject, Nested

LEMMA OwnCloses ==
    ASSUME NEW o, IsOutput(o), OwnObject(o), NEW x, Top(o) = x, Inner(x)
    PROVE  IsOutput(Closed(o, x)) /\ OwnObject(Closed(o, x))
<1>1. o.open # <<>> /\ Len(o.open) \in Nat /\ Top(o) = o.open[Len(o.open)]
  BY InnerTop
<1>2. Nested(o)
  BY StreamIs DEF OwnObject, Inner
<1>3. Len(o.open) # 1
  BY <1>1, <1>2, ThingsAre DEF Inner, Nested
<1>. DEFINE p == Closed(o, x)
<1>4. /\ IsOutput(p) /\ Len(p.open) = Len(o.open) - 1
      /\ \A i \in 1 .. (Len(o.open) - 1) : p.open[i] = o.open[i]
  BY <1>1, Closing
<1>. HIDE DEF p
<1>a. Len(o.open) >= 1 /\ o.open[1] = Object
  BY <1>2 DEF Nested
<1>b. 1 \in 1 .. (Len(o.open) - 1)
  <2>. DEFINE n == Len(o.open)
  <2>1. n \in Nat /\ n >= 1 /\ n # 1
    BY <1>1, <1>3, <1>a
  <2>. HIDE DEF n
  <2>2. 1 \in 1 .. (n - 1)
    BY <2>1
  <2>. QED  BY <2>2 DEF n
<1>c. p.open[1] = o.open[1]
  BY <1>4, <1>b
<1>5. Len(p.open) >= 1 /\ p.open[1] = Object
  <2>. DEFINE n == Len(o.open)
              m == Len(p.open)
  <2>1. n \in Nat /\ 1 \in 1 .. (n - 1) /\ m = n - 1
    BY <1>1, <1>4, <1>b
  <2>. HIDE DEF n, m
  <2>2. m >= 1
    BY <2>1
  <2>. QED  BY <1>a, <1>c, <2>2 DEF m
<1>6. ASSUME NEW i \in 2 .. Len(p.open)
      PROVE  Inner(p.open[i])
  <2>1. i \in 2 .. Len(o.open) /\ i \in 1 .. (Len(o.open) - 1)
    BY <1>1, <1>4
  <2>. QED  BY <1>2, <1>4, <2>1 DEF Nested
<1>7. OwnObject(p)
  BY <1>5, <1>6 DEF OwnObject, Nested
<1>. QED  BY <1>4, <1>7 DEF p

LEMMA OwnTop ==
    ASSUME NEW o, IsOutput(o), OwnObject(o)
    PROVE  /\ Top(o) = Object => o.open = <<Object>>
           /\ \A s : Top(o) = Stream(s) => OnlyStream(o, s)
<1>1. o.open # <<>> /\ Len(o.open) \in Nat /\ Top(o) = o.open[Len(o.open)] /\ o.open \in Seq(Thing)
  BY InnerTop
<1>2. ASSUME NEW t, OnlyStream(o, t)
      PROVE  Top(o) # Object /\ \A s : Top(o) = Stream(s) => OnlyStream(o, s)
  <2>1. Top(o)[1] = "stream" /\ \A s : Top(o) = Stream(s) => s = t
    BY <1>2, StreamIs
  <2>2. Object[1] # "stream"
    BY ThingsAre
  <2>. QED  BY <1>2, <2>1, <2>2
<1>3. CASE Nested(o)
  <2>a. Len(o.open) >= 1 /\ \A i \in 2 .. Len(o.open) : Inner(o.open[i])
    BY <1>3 DEF Nested
  <2>. DEFINE n == Len(o.open)
  <2>b. n # 1 => n \in 2 .. n
    <3>1. n \in Nat /\ n >= 1
      BY <1>1, <2>a
    <3>. HIDE DEF n
    <3>. QED  BY <3>1
  <2>1. Len(o.open) # 1 => Inner(Top(o))
    BY <1>1, <2>a, <2>b
  <2>2. ~Inner(Object) /\ \A s : ~Inner(Stream(s)) /\ Stream(s) # Object
    BY DEF Inner, Object, Stream
  <2>3. Len(o.open) = 1 => Top(o) = Object /\ o.open = <<Object>>
    BY <1>1, <1>3, OfOne, ThingsAre DEF Nested
  <2>. QED  BY <2>1, <2>2, <2>3
<1>. QED  BY <1>2, <1>3 DEF OwnObject

\* The lengths, and the dictionary that is to be completed first.
LEMMA ListenedIs ==
    ASSUME NEW o, IsOutput(o), NEW left \in Seq(Nat), ListenedTo(o, left),
           NEW n, n = Len(o.open), NEW k, k = Len(left)
    PROVE  /\ n \in Nat /\ k \in Nat /\ k >= 1 /\ n >= 1 + k /\ 1 \in DOMAIN left
           /\ DOMAIN left = 1 .. k
           /\ o.open # <<>> /\ Top(o) = o.open[n] /\ o.open[1 + k] = Dictionary(left[1])
           /\ o.open[1] = Object /\ o.open \in Seq(Thing)
<1>1. k \in Nat /\ k # 0 /\ DOMAIN left = 1 .. k
  BY DEF ListenedTo
<1>2. k >= 1 /\ k \in 1 .. k /\ 1 \in 1 .. k /\ k + 1 - k = 1
  BY <1>1
<1>3. o.open # <<>> /\ n \in Nat /\ Top(o) = o.open[n] /\ o.open \in Seq(Thing)
  BY InnerTop
<1>4. n >= 1 + k /\ o.open[1] = Object /\ \A i \in 1 .. k : o.open[1 + i] = Dictionary(left[k + 1 - i])
  BY DEF ListenedTo
<1>5. o.open[1 + k] = Dictionary(left[k + 1 - k])
  BY <1>2, <1>4
<1>. QED  BY <1>1, <1>2, <1>3, <1>4, <1>5

LEMMA ListenedTop ==
    ASSUME NEW o, IsOutput(o), NEW left \in Seq(Nat), ListenedTo(o, left)
    PROVE  Inner(Top(o))
<1>. DEFINE n == Len(o.open)
            k == Len(left)
<1>1. /\ n \in Nat /\ k \in Nat /\ k >= 1 /\ n >= 1 + k
      /\ Top(o) = o.open[n] /\ o.open[1 + k] = Dictionary(left[1])
  BY ListenedIs
<1>2. \A i \in (2 + k) .. n : Inner(o.open[i])
  BY DEF ListenedTo
<1>3. Inner(Dictionary(left[1]))
  BY DEF Inner, Dictionary
<1>. HIDE DEF n, k
<1>4. n = 1 + k \/ n \in (2 + k) .. n
  BY <1>1
<1>. QED  BY <1>1, <1>2, <1>3, <1>4

\* The listener starts something in what it was handed.
LEMMA ListenedOpens ==
    ASSUME NEW o, IsOutput(o), NEW left \in Seq(Nat), ListenedTo(o, left),
           NEW x \in Thing, Inner(x), \A j \in DOMAIN left : x # Dictionary(left[j]),
           NEW p, IsOutput(p), p.open = Append(o.open, x)
    PROVE  ListenedTo(p, left)
<1>. DEFINE n == Len(o.open)
            k == Len(left)
            m == Len(p.open)
<1>1. /\ n \in Nat /\ k \in Nat /\ k >= 1 /\ n >= 1 + k /\ o.open[1] = Object
      /\ o.open \in Seq(Thing)
  BY ListenedIs
<1>2. m = n + 1 /\ p.open[n + 1] = x /\ \A i \in 1 .. n : p.open[i] = o.open[i]
  BY <1>1
<1>3. /\ \A i \in 1 .. k : o.open[1 + i] = Dictionary(left[k + 1 - i])
      /\ \A i \in (2 + k) .. n : Inner(o.open[i]) /\ \A j \in DOMAIN left : o.open[i] # Dictionary(left[j])
  BY DEF ListenedTo
<1>. HIDE DEF n, k, m
<1>4. m >= 1 + k /\ p.open[1] = Object
  BY <1>1, <1>2
<1>5. ASSUME NEW i \in 1 .. k
      PROVE  p.open[1 + i] = Dictionary(left[k + 1 - i])
  <2>1. 1 + i \in 1 .. n
    BY <1>1
  <2>. QED  BY <1>2, <1>3, <2>1
<1>6. ASSUME NEW i \in (2 + k) .. m
      PROVE  Inner(p.open[i]) /\ \A j \in DOMAIN left : p.open[i] # Dictionary(left[j])
  <2>1. CASE i = n + 1
    BY <1>2, <2>1
  <2>2. CASE i # n + 1
    <3>0. m = n + 1 /\ n \in Nat /\ k \in Nat
      BY <1>1, <1>2
    <3>1. i \in 1 .. n /\ i \in (2 + k) .. n
      BY <2>2, <3>0
    <3>. QED  BY <1>2, <1>3, <3>1
  <2>. QED  BY <2>1, <2>2
<1>7. left # <<>>
  BY DEF ListenedTo
<1>. QED  BY <1>4, <1>5, <1>6, <1>7 DEF ListenedTo, n, k, m

\* The listener ends what it started.
LEMMA ListenedCloses ==
    ASSUME NEW o, IsOutput(o), NEW left \in Seq(Nat), ListenedTo(o, left),
           NEW x, Top(o) = x, \A j \in DOMAIN left : x # Dictionary(left[j])
    PROVE  IsOutput(Closed(o, x)) /\ ListenedTo(Closed(o, x), left)
<1>. DEFINE n == Len(o.open)
            k == Len(left)
<1>1. /\ n \in Nat /\ k \in Nat /\ k >= 1 /\ n >= 1 + k /\ 1 \in DOMAIN left /\ o.open[1] = Object
      /\ o.open # <<>> /\ Top(o) = o.open[n] /\ o.open[1 + k] = Dictionary(left[1])
  <2>1. IsOutput(o) /\ left \in Seq(Nat) /\ ListenedTo(o, left) /\ n = Len(o.open) /\ k = Len(left)
    OBVIOUS
  <2>. HIDE DEF n, k
  <2>. QED  BY ONLY <2>1, ListenedIs
<1>. DEFINE p == Closed(o, x)
            m == Len(p.open)
<1>2. IsOutput(p) /\ m = n - 1 /\ \A i \in 1 .. (n - 1) : p.open[i] = o.open[i]
  BY <1>1, Closing
<1>3. /\ \A i \in 1 .. k : o.open[1 + i] = Dictionary(left[k + 1 - i])
      /\ \A i \in (2 + k) .. n : Inner(o.open[i]) /\ \A j \in DOMAIN left : o.open[i] # Dictionary(left[j])
      /\ left # <<>>
  BY DEF ListenedTo
<1>. HIDE DEF n, k, m, p
<1>4. n # 1 + k
  BY <1>1
<1>5. m >= 1 + k /\ p.open[1] = Object
  BY <1>1, <1>2, <1>4
<1>6. ASSUME NEW i \in 1 .. k
      PROVE  p.open[1 + i] = Dictionary(left[k + 1 - i])
  <2>1. 1 + i \in 1 .. (n - 1)
    BY <1>1, <1>4
  <2>. QED  BY <1>2, <1>3, <2>1
<1>7. ASSUME NEW i \in (2 + k) .. m
      PROVE  Inner(p.open[i]) /\ \A j \in DOMAIN left : p.open[i] # Dictionary(left[j])
  <2>1. i \in 1 .. (n - 1) /\ i \in (2 + k) .. n
    BY <1>1, <1>2
  <2>. QED  BY <1>2, <1>3, <2>1
<1>8. ListenedTo(p, left)
  BY <1>3, <1>5, <1>6, <1>7 DEF ListenedTo, k, m
<1>. QED  BY <1>2, <1>8 DEF p

\* The listener returns with its dictionary innermost.
LEMMA ListenedCompletes ==
    ASSUME NEW o, IsOutput(o), NEW left \in Seq(Nat), ListenedTo(o, left),
           Top(o) = Dictionary(Head(left))
    PROVE  LET p == Closed(o, Dictionary(Head(left)))
           IN  /\ IsOutput(p)
               /\ Tail(left) = <<>> => p.open = <<Object>>
               /\ Tail(left) # <<>> => ListenedTo(p, Tail(left))
<1>. DEFINE n == Len(o.open)
            k == Len(left)
            p == Closed(o, Dictionary(Head(left)))
            m == Len(p.open)
            rest == Tail(left)
<1>1. /\ n \in Nat /\ k \in Nat /\ k >= 1 /\ n >= 1 + k /\ 1 \in DOMAIN left /\ o.open[1] = Object
      /\ o.open # <<>> /\ Top(o) = o.open[n]
  BY ListenedIs
<1>2. IsOutput(p) /\ m = n - 1 /\ \A i \in 1 .. (n - 1) : p.open[i] = o.open[i]
  BY <1>1, Closing
<1>3. /\ \A i \in 1 .. k : o.open[1 + i] = Dictionary(left[k + 1 - i])
      /\ \A i \in (2 + k) .. n : Inner(o.open[i]) /\ \A j \in DOMAIN left : o.open[i] # Dictionary(left[j])
  BY DEF ListenedTo
<1>4. /\ Head(left) = left[1] /\ rest \in Seq(Nat) /\ Len(rest) = k - 1 /\ DOMAIN left = 1 .. k
      /\ DOMAIN rest = 1 .. (k - 1)
      /\ \A i \in 1 .. (k - 1) : rest[i] = left[i + 1]
  <2>1. left # <<>>
    BY DEF ListenedTo
  <2>. QED  BY <2>1
<1>. HIDE DEF n, k, m, p, rest
<1>5. n = 1 + k
  <2>1. n \notin (2 + k) .. n
    BY <1>1, <1>3, <1>4
  <2>. QED  BY <1>1, <2>1
<1>6. m = k /\ p.open[1] = Object
  <2>1. 1 \in 1 .. (n - 1)
    BY <1>1, <1>5
  <2>. QED  BY <1>1, <1>2, <1>5, <2>1
<1>7. ASSUME rest = <<>>
      PROVE  p.open = <<Object>>
  <2>1. m = 1
    BY <1>1, <1>4, <1>6, <1>7
  <2>2. p.open \in Seq(Thing) /\ Len(p.open) = 1
    BY <1>2, <2>1 DEF IsOutput, m
  <2>. QED  BY <1>6, <2>2, OfOne, ThingsAre
<1>8. ASSUME rest # <<>>
      PROVE  ListenedTo(p, rest)
  <2>1. ASSUME NEW i \in 1 .. (k - 1)
        PROVE  p.open[1 + i] = Dictionary(rest[(k - 1) + 1 - i])
    <3>1. 1 + i \in 1 .. (n - 1) /\ i \in 1 .. k /\ (k - 1) + 1 - i \in 1 .. (k - 1)
          /\ (k - 1) + 1 - i + 1 = k + 1 - i
      BY <1>1, <1>5
    <3>2. p.open[1 + i] = Dictionary(left[k + 1 - i])
      BY <1>2, <1>3, <3>1
    <3>3. rest[(k - 1) + 1 - i] = left[k + 1 - i]
      BY <1>4, <3>1
    <3>. QED  BY <3>2, <3>3
  <2>2. \A i \in (2 + (k - 1)) .. m : FALSE
    BY <1>1, <1>6
  <2>3. m >= 1 + (k - 1)
    BY <1>1, <1>6
  <2>. QED  BY <1>4, <1>6, <1>8, <2>1, <2>2, <2>3 DEF ListenedTo, m
<1>. QED  BY <1>2, <1>7, <1>8 DEF p, rest

-----------------------------------------------------------------------------
(***************************************************************************)
(* Calls after which the same is open.                                     *)
(***************************************************************************)
Special == {Own, Listening, Waiting}

\* What the program draws on keeps its stream, and no other context of a page gets one.
Undisturbed(h, g, b) ==
    /\ \A c \in DOMAIN g : g[c].kind = "pageContext" /\ c \notin b =>
          \/ g[c].parts = {}
          \/ c \in DOMAIN h /\ h[c].kind = "pageContext" /\ g[c].parts \subseteq h[c].parts
    /\ \A c \in b : c \in DOMAIN h /\ c \in DOMAIN g =>
          /\ h[c].parts \subseteq g[c].parts
          /\ \A p \in g[c].parts : p \in DOMAIN g /\ g[p].kind = "stream" =>
                p \in h[c].parts /\ p \in DOMAIN h /\ h[p].kind = "stream"

LEMMA PausedStays ==
    ASSUME NEW h, NEW g, NEW b, Paused(h, b), Undisturbed(h, g, b)
    PROVE  Paused(g, b)
BY DEF Paused, Undisturbed

LEMMA DrawnStays ==
    ASSUME NEW h, NEW g, NEW b, NEW o, NEW c \in b, c \in DOMAIN h, c \in DOMAIN g,
           DrawnIn(h, o, c), Undisturbed(h, g, b)
    PROVE  DrawnIn(g, o, c)
BY DEF DrawnIn, Undisturbed

LEMMA NestsStays ==
    ASSUME NEW h, NEW g, NEW o, NEW b, NEW e, Nests(h, o, b, e), Undisturbed(h, g, b),
           \A c \in b : c \notin Special => c \in DOMAIN h /\ c \in DOMAIN g
    PROVE  Nests(g, o, b, e)
<1>1. Paused(g, b)
  BY PausedStays DEF Nests
<1>2. ASSUME NEW c \in b, c \notin Special
      PROVE  DrawnIn(g, o, c)
  <2>1. DrawnIn(h, o, c)
    BY <1>2 DEF Nests, Special
  <2>. QED  BY <1>2, <2>1, DrawnStays
<1>. QED  BY <1>1, <1>2 DEF Nests, Special

\* Nothing is started or ended; with nothing open, whole objects may be written.
Quiet ==
    /\ UNCHANGED <<busy, event>>
    /\ session'.state = session.state
    /\ out' = out \/ (busy = {} /\ out' = WholeObject(out))

LEMMA BusyExists ==
    ASSUME DInv, ~thrown
    PROVE  \A c \in busy : c \notin Special => c \in DOMAIN heap
BY DEF DInv, IsBusy, Special

LEMMA QuietStep ==
    ASSUME DInv, DInv', OInv, ~thrown, Quiet, ~thrown' => Undisturbed(heap, heap', busy)
    PROVE  OInv'
<1>. SUFFICES ASSUME ~thrown' PROVE Nests(heap', out', busy', event') /\ IsOn(session', busy', event')
  BY DEF OInv
<1>1. Nests(heap, out, busy, event) /\ IsOn(session, busy, event)
  BY DEF OInv
<1>2. busy' = busy /\ event' = event /\ session'.state = session.state
  BY DEF Quiet
<1>3. out' = out
  <2>1. ASSUME busy = {}
        PROVE  WholeObject(out) = out
    BY <1>1, <2>1, WholeIs DEF Nests
  <2>. QED  BY <2>1 DEF Quiet
<1>4. \A c \in busy : c \notin Special => c \in DOMAIN heap /\ c \in DOMAIN heap'
  <2>1. IsBusy(heap', wrappers', event', busy')
    BY DEF DInv
  <2>2. \A c \in busy : c \notin Special => c \in DOMAIN heap'
    BY <1>2, <2>1 DEF IsBusy, Special
  <2>. QED  BY <2>2, BusyExists
<1>5. Nests(heap', out, busy, event)
  BY <1>1, <1>4, NestsStays
<1>. QED  BY <1>1, <1>2, <1>3, <1>5 DEF IsOn

LEMMA SameUndisturbed ==
    ASSUME NEW h, NEW b
    PROVE  Undisturbed(h, h, b)
BY DEF Undisturbed

LEMMA GrowsUndisturbed ==
    ASSUME NEW h, NEW g, NEW ws, NEW N, NEW b, Grows(h, g, N), IsFresh(h, ws, N),
           \A n \in N : g[n].kind = "pageContext" => g[n].parts = {}
    PROVE  Undisturbed(h, g, b)
<1>1. /\ DOMAIN g = DOMAIN h \cup N /\ \A n \in DOMAIN h : g[n] = h[n]
  BY DEF Grows
<1>2. \A n \in DOMAIN h : h[n].parts \cap N = {}
  BY DEF IsFresh
<1>. QED  BY <1>1, <1>2 DEF Undisturbed

LEMMA ShrinksUndisturbed ==
    ASSUME NEW h, NEW g, NEW b,
           DOMAIN g \subseteq DOMAIN h,
           \A n \in DOMAIN g : g[n].kind = h[n].kind /\ g[n].parts \subseteq h[n].parts,
           \A n \in b : n \in DOMAIN g => g[n].parts = h[n].parts
    PROVE  Undisturbed(h, g, b)
BY DEF Undisturbed

\* Calls that leave the objects alone.
Looks ==
    \/ WriteToken /\ UNCHANGED event
    \/ \E x \in Of("DictionaryContext") : WriteInDictionary(x) /\ UNCHANGED event
    \/ \E x \in Of("PDFStream") : WriteInStream(x) /\ UNCHANGED event
    \/ AttachURLLinktoCurrentPage
    \/ \E x \in Of("DocumentCopyingContext") :
          CopyObject(x) \/ CopyNewObjectsForDirectObject(x) \/ CopyDirectObject(x)
    \/ \E w \in Of("PDFPageModifier") : AttachURLLinkToModifiedPage(w)

Gets ==
    \/ \E x \in Of("PageContentContext") : GetAssociatedPage(x)
    \/ \E class \in {"InputFile", "OutputFile", "PDFReader"} : GetMember(class)
    \/ \E w \in Of("FormXObject") : GetContentContext(w) \/ GetContentStream(w)
    \/ \E w \in Of("PDFPageModifier") : GetContext(w)
    \/ \E w \in Of("InputFile") \cup Of("OutputFile") : GetFileStream(w)
    \/ \E w \in Of("PDFReader") : GetParserStream(w)
    \/ \E x \in Of("DocumentCopyingContext") : GetSourceDocumentParser(x) \/ GetSourceDocumentStream(x)
    \/ \E x \in Of("XObjectContentContext") : DrawOnForm(x)

LEMMA LookingNests ==
    ASSUME DInv, DInv', OInv, ~thrown, Looks \/ Uses \/ Gets
    PROVE  OInv'
<1>1. Looks => heap' = heap /\ Quiet
  BY DEF Looks, Quiet, WriteToken, WriteInDictionary, WriteInStream, AttachURLLinktoCurrentPage,
         CopyObject, CopyNewObjectsForDirectObject, CopyDirectObject, AttachURLLinkToModifiedPage
<1>2. Uses => heap' = heap /\ Quiet
  BY DEF Uses, Quiet, UsePage, UseForm, UseImage, UseFont, UseFileStream, ParseObjects, QueryReader,
         UsePageInput, ReadDecoded, UseCopiedObjects
<1>3. Gets => heap' = heap /\ Quiet
  BY DEF Gets, Quiet, GetAssociatedPage, GetMember, GetContentContext, GetContentStream, GetContext,
         GetFileStream, GetParserStream, GetSourceDocumentParser, GetSourceDocumentStream, DrawOnForm
<1>. QED  BY <1>1, <1>2, <1>3, QuietStep, SameUndisturbed

LEMMA CreatedUndisturbed ==
    ASSUME NEW k \in 1 .. 3, Room(k), NEW rs, DOMAIN rs = 1 .. k, NEW b,
           \A i \in 1 .. k : rs[i].kind # "pageContext" \/ rs[i].parts = {}
    PROVE  Undisturbed(heap, Created(heap, rs), b)
<1>. DEFINE g == Created(heap, rs)
            N == NewOnes(k)
<1>1. IsMade(heap, g, rs, k)
  BY CreatedIs DEF Live
<1>2. IsFresh(heap, wrappers, N)
  BY NewAreFresh DEF NewOnes
<1>. HIDE DEF g
<1>3. /\ DOMAIN g = DOMAIN heap \cup N /\ \A n \in DOMAIN heap : g[n] = heap[n]
      /\ \A n \in N : g[n].kind = "pageContext" => g[n].parts = {}
  BY <1>1 DEF IsMade, NewOnes
<1>4. \A n \in DOMAIN heap : heap[n].parts \cap N = {}
  BY <1>2 DEF IsFresh
<1>5. Undisturbed(heap, g, b)
  BY <1>3, <1>4 DEF Undisturbed
<1>. QED  BY <1>5 DEF g

\* One, two or three new objects, none of which is a page's context.
Plain(r) == r.kind # "pageContext"
LEMMA PlainUndisturbed ==
    ASSUME NEW b, NEW x, NEW y, NEW z, Plain(x), Plain(y), Plain(z)
    PROVE  /\ Room(1) => Undisturbed(heap, Created(heap, <<x>>), b)
           /\ Room(2) => Undisturbed(heap, Created(heap, <<x, y>>), b)
           /\ Room(3) => Undisturbed(heap, Created(heap, <<x, y, z>>), b)
<1>1. ASSUME Room(1)
      PROVE  Undisturbed(heap, Created(heap, <<x>>), b)
  <2>. DEFINE rs == <<x>>
  <2>1. DOMAIN rs = 1 .. 1 /\ \A i \in 1 .. 1 : rs[i].kind # "pageContext" \/ rs[i].parts = {}
    BY DEF Plain
  <2>. HIDE DEF rs
  <2>2. Undisturbed(heap, Created(heap, rs), b)
    BY <1>1, <2>1, CreatedUndisturbed
  <2>. QED  BY <2>2 DEF rs
<1>2. ASSUME Room(2)
      PROVE  Undisturbed(heap, Created(heap, <<x, y>>), b)
  <2>. DEFINE rs == <<x, y>>
  <2>1. DOMAIN rs = 1 .. 2 /\ \A i \in 1 .. 2 : rs[i].kind # "pageContext" \/ rs[i].parts = {}
    BY DEF Plain
  <2>. HIDE DEF rs
  <2>2. Undisturbed(heap, Created(heap, rs), b)
    BY <1>2, <2>1, CreatedUndisturbed
  <2>. QED  BY <2>2 DEF rs
<1>3. ASSUME Room(3)
      PROVE  Undisturbed(heap, Created(heap, <<x, y, z>>), b)
  <2>. DEFINE rs == <<x, y, z>>
  <2>1. DOMAIN rs = 1 .. 3 /\ \A i \in 1 .. 3 : rs[i].kind # "pageContext" \/ rs[i].parts = {}
    BY DEF Plain
  <2>. HIDE DEF rs
  <2>2. Undisturbed(heap, Created(heap, rs), b)
    BY <1>3, <2>1, CreatedUndisturbed
  <2>. QED  BY <2>2 DEF rs
<1>. QED  BY <1>1, <1>2, <1>3

LEMMA NativePlain ==
    ASSUME NEW kind, kind # "pageContext", NEW of, NEW parts
    PROVE  Plain(Native(kind, of, parts))
BY DEF Plain, Native

LEMMA PageNests ==
    ASSUME DInv, DInv', OInv, ~thrown, CreatePage \/ NewModifier
    PROVE  OInv'
<1>1. Plain(Native("page", None, {})) /\ Plain(Native("modifier", session.writer, {}))
  BY NativePlain
<1>2. Quiet /\ Undisturbed(heap, heap', busy)
  <2>1. CASE CreatePage
    BY <1>1, <2>1, PlainUndisturbed DEF CreatePage, Quiet
  <2>2. CASE NewModifier
    BY <1>1, <2>2, PlainUndisturbed DEF NewModifier, Quiet
  <2>. QED  BY <2>1, <2>2
<1>. QED  BY <1>2, QuietStep

LEMMA FileNests ==
    ASSUME DInv, DInv', OInv, ~thrown, NEW class, NewFile(class)
    PROVE  OInv'
<1>1. Plain(Native("file", None, {New(2)})) /\ Plain(Native("fileStream", New(1), {}))
      /\ Plain(Native("file", None, {}))
  BY NativePlain
<1>2. PICK opens \in BOOLEAN :
         heap' = Created(heap, IF opens
                               THEN <<Native("file", None, {New(2)}), Native("fileStream", New(1), {})>>
                               ELSE <<Native("file", None, {})>>)
  BY DEF NewFile
<1>3. Room(2) /\ Room(1)
  <2>1. Room(2)
    BY DEF NewFile
  <2>2. Cardinality(Unused) \in Nat
    BY UnusedIsFinite, FS_CardinalityType
  <2>. QED  BY <2>1, <2>2 DEF Room
<1>4. Undisturbed(heap, heap', busy)
  <2>1. CASE opens
    BY <1>1, <1>2, <1>3, <2>1, PlainUndisturbed
  <2>2. CASE ~opens
    BY <1>1, <1>2, <1>3, <2>2, PlainUndisturbed
  <2>. QED  BY <2>1, <2>2
<1>5. Quiet
  BY DEF NewFile, Quiet
<1>. QED  BY <1>4, <1>5, QuietStep

LEMMA DerivedNests ==
    ASSUME DInv, DInv', OInv, ~thrown, NEW w, NEW class, Derived(w, class)
    PROVE  OInv'
<1>1. Plain(Native("derived", None, {w.native}))
  BY NativePlain
<1>2. Quiet /\ Undisturbed(heap, heap', busy)
  BY <1>1, PlainUndisturbed DEF Derived, Quiet
<1>. QED  BY <1>2, QuietStep

LEMMA ImageNests ==
    ASSUME DInv, DInv', OInv, ~thrown, CreateImageXObjectFromJPG
    PROVE  OInv'
<1>1. Plain(Native("image", None, {}))
  BY NativePlain
<1>2. Room(1) /\ (heap' = heap \/ heap' = Created(heap, <<Native("image", None, {})>>))
  BY DEF CreateImageXObjectFromJPG
<1>3. Undisturbed(heap, heap', busy)
  BY <1>1, <1>2, PlainUndisturbed, SameUndisturbed
<1>4. Quiet
  BY DEF CreateImageXObjectFromJPG, Quiet
<1>. QED  BY <1>3, <1>4, QuietStep

LEMMA ReaderNests ==
    ASSUME DInv, DInv', OInv, ~thrown, CreateReader
    PROVE  OInv'
<1>1. PICK k \in {0, 1} :
         /\ Room(1 + k)
         /\ heap' = Created(heap, <<Native("parser", None, {New(1 + i) : i \in 1 .. k})>>
                                     \o [i \in 1 .. k |-> Native("proxy", None, {})])
  BY DEF CreateReader
<1>. DEFINE a == Native("parser", None, Proxies(k))
            p == Native("proxy", None, {})
<1>2. k \in 0 .. 2
  BY <1>1
<1>3. a \in Record /\ p \in Record /\ a.kind = "parser" /\ p.kind = "proxy"
  <2>1. Proxies(k) \in SUBSET (Nat \ {None})
    BY <1>1, <1>2, ProxiesAre
  <2>2. None \in Nat
    BY DEF None
  <2>. QED  BY <2>1, <2>2, NativeIs DEF Kinds
<1>4. heap' = Created(heap, <<a>> \o [i \in 1 .. k |-> p])
  BY <1>1 DEF Proxies
<1>. HIDE DEF a, p
<1>5. IsMadeWith(heap', a, p, k)
  BY <1>1, <1>2, <1>3, <1>4, MadeWith
<1>6. Undisturbed(heap, heap', busy)
  <2>. DEFINE N == {New(1)} \cup Proxies(k)
  <2>1. Grows(heap, heap', N) /\ IsFresh(heap, wrappers, N)
        /\ \A n \in N : heap'[n] = a \/ heap'[n] = p
    BY <1>5 DEF IsMadeWith
  <2>. HIDE DEF N
  <2>2. \A n \in N : heap'[n].kind # "pageContext"
    BY <1>3, <2>1
  <2>. QED  BY <2>1, <2>2, GrowsUndisturbed
<1>7. Quiet
  BY DEF CreateReader, Quiet
<1>. QED  BY <1>6, <1>7, QuietStep

LEMMA CopiesNests ==
    ASSUME DInv, DInv', OInv, ~thrown, NEW source \in {"path", "stream", "parser"}, NEW given,
           Copies(source, given)
    PROVE  OInv'
<1>1. PICK works \in Outcomes :
        IF works
        THEN heap' = Created(heap,
                        CASE source = "path" ->
                               <<Native("copying", session.writer, {New(2)}),
                                 Native("parser", New(1), {})>>
                          [] source = "stream" ->
                               <<Native("copying", session.writer, {New(2)}),
                                 Native("parser", New(1), {New(3)}), Native("proxy", None, {})>>
                          [] source = "parser" ->
                               <<Native("copying", session.writer, given)>>)
        ELSE heap' = IF source = "stream"
                             THEN Created(heap, <<Native("proxy", None, {})>>) ELSE heap
  BY DEF Copies
<1>2. /\ Plain(Native("copying", session.writer, {New(2)})) /\ Plain(Native("parser", New(1), {}))
      /\ Plain(Native("parser", New(1), {New(3)})) /\ Plain(Native("proxy", None, {}))
      /\ Plain(Native("copying", session.writer, given))
  BY NativePlain
<1>3. Room(1) /\ Room(2) /\ Room(3)
  BY RoomForLess DEF Copies
<1>4. Undisturbed(heap, heap', busy)
  <2>1. \/ heap' = heap
        \/ heap' = Created(heap, <<Native("proxy", None, {})>>)
        \/ heap' = Created(heap, <<Native("copying", session.writer, {New(2)}), Native("parser", New(1), {})>>)
        \/ heap' = Created(heap, <<Native("copying", session.writer, {New(2)}),
                                   Native("parser", New(1), {New(3)}), Native("proxy", None, {})>>)
        \/ heap' = Created(heap, <<Native("copying", session.writer, given)>>)
    BY <1>1
  <2>. QED  BY <1>2, <1>3, <2>1, PlainUndisturbed, SameUndisturbed
<1>5. Quiet
  BY DEF Copies, Quiet
<1>. QED  BY <1>4, <1>5, QuietStep

\* One object, which the program does not draw on, is changed, and others come and go.
LEMMA AltersUndisturbed ==
    ASSUME DInv, ~thrown, NEW g, NEW N, NEW n \in DOMAIN heap,
           heap[n].kind \notin {"pageContext", "form", "modifier"},
           IsFresh(heap, wrappers, N), DOMAIN g \subseteq DOMAIN heap \cup N,
           \A m \in DOMAIN g : m \in DOMAIN heap => g[m] = heap[m] \/ (m = n /\ g[n].kind = heap[n].kind),
           \A m \in N : m \in DOMAIN g /\ g[m].kind = "pageContext" => g[m].parts = {}
    PROVE  Undisturbed(heap, g, busy)
<1>1. \A m \in DOMAIN heap : m \notin N /\ heap[m].parts \cap N = {}
  BY DEF IsFresh
<1>2. \A m \in DOMAIN g : m \in DOMAIN heap => g[m].kind = heap[m].kind /\ (m # n => g[m] = heap[m])
  OBVIOUS
<1>3. ASSUME NEW c \in DOMAIN g, g[c].kind = "pageContext"
      PROVE  \/ g[c].parts = {}
             \/ c \in DOMAIN heap /\ heap[c].kind = "pageContext" /\ g[c].parts \subseteq heap[c].parts
  BY <1>2, <1>3
<1>4. ASSUME NEW c \in busy, c \in DOMAIN heap, c \in DOMAIN g
      PROVE  g[c] = heap[c]
  <2>1. c \notin Special
    <3>1. c # None /\ c \in Nat
      BY <1>4 DEF DInv, IsHeap, None
    <3>. QED  BY <3>1 DEF Special, Own, Listening, Waiting
  <2>2. c # n
    BY <2>1 DEF DInv, IsBusy, Special
  <2>. QED  BY <1>2, <1>4, <2>2
<1>5. ASSUME NEW c \in busy, c \in DOMAIN heap, c \in DOMAIN g
      PROVE  /\ heap[c].parts \subseteq g[c].parts
             /\ \A p \in g[c].parts : p \in DOMAIN g /\ g[p].kind = "stream" =>
                   p \in heap[c].parts /\ p \in DOMAIN heap /\ heap[p].kind = "stream"
  BY <1>1, <1>2, <1>4, <1>5
<1>. QED  BY <1>3, <1>5 DEF Undisturbed

\* An object without its parts.
LEMMA WithoutStreamIs ==
    ASSUME NEW n
    PROVE  /\ DOMAIN WithoutStream(n) = DOMAIN heap \ StreamsOf(n)
           /\ \A m \in DOMAIN heap \ StreamsOf(n) :
                 WithoutStream(n)[m] = IF m = n THEN [heap[m] EXCEPT !.parts = {}] ELSE heap[m]
<1>. DEFINE k == [m \in DOMAIN heap |-> IF m = n THEN [heap[m] EXCEPT !.parts = {}] ELSE heap[m]]
            S == StreamsOf(n)
            h == WithoutStream(n)
<1>1. DOMAIN k = DOMAIN heap
      /\ \A m \in DOMAIN heap : k[m] = IF m = n THEN [heap[m] EXCEPT !.parts = {}] ELSE heap[m]
  OBVIOUS
<1>2. h = Freed(k, S)
  BY DEF WithoutStream, Live
<1>. HIDE DEF k, S, h
<1>3. DOMAIN Freed(k, S) = DOMAIN k \ S /\ \A m \in DOMAIN k \ S : Freed(k, S)[m] = k[m]
  BY FreedIs
<1>4. DOMAIN h = DOMAIN heap \ S
      /\ \A m \in DOMAIN heap \ S : h[m] = IF m = n THEN [heap[m] EXCEPT !.parts = {}] ELSE heap[m]
  BY <1>1, <1>2, <1>3
<1>. QED  BY <1>4 DEF h, S

LEMMA WithoutStreamUndisturbed ==
    ASSUME DInv, ~thrown, NEW n \in DOMAIN heap, heap[n].kind \notin {"pageContext", "form", "modifier"}
    PROVE  Undisturbed(heap, WithoutStream(n), busy)
<1>. DEFINE g == WithoutStream(n)
<1>1. /\ DOMAIN g \subseteq DOMAIN heap
      /\ \A m \in DOMAIN g : g[m] = IF m = n THEN [heap[m] EXCEPT !.parts = {}] ELSE heap[m]
  BY WithoutStreamIs
<1>2. heap[n] \in Record
  BY DEF DInv, IsHeap
<1>3. [heap[n] EXCEPT !.parts = {}].kind = heap[n].kind
  BY <1>2 DEF Record
<1>4. IsFresh(heap, wrappers, {})
  BY DEF IsFresh
<1>. HIDE DEF g
<1>5. /\ DOMAIN g \subseteq DOMAIN heap \cup {}
      /\ \A m \in DOMAIN g : m \in DOMAIN heap => g[m] = heap[m] \/ (m = n /\ g[n].kind = heap[n].kind)
      /\ \A m \in {} : m \in DOMAIN g /\ g[m].kind = "pageContext" => g[m].parts = {}
  BY <1>1, <1>3
<1>6. DInv /\ ~thrown /\ n \in DOMAIN heap /\ heap[n].kind \notin {"pageContext", "form", "modifier"}
  OBVIOUS
<1>7. Undisturbed(heap, g, busy)
  BY ONLY <1>4, <1>5, <1>6, AltersUndisturbed
<1>. QED  BY <1>7 DEF g

LEMMA ClosingNests ==
    ASSUME DInv, DInv', OInv, ~thrown, NEW w \in Of("InputFile") \cup Of("OutputFile"), CloseFile(w)
    PROVE  OInv'
<1>1. w.native \in DOMAIN heap /\ heap[w.native].kind = "file"
  BY FileIs DEF CloseFile, Live
<1>2. Undisturbed(heap, heap', busy)
  BY <1>1, WithoutStreamUndisturbed DEF CloseFile
<1>3. Quiet
  BY DEF CloseFile, Quiet
<1>. QED  BY <1>2, <1>3, QuietStep

LEMMA OpeningNests ==
    ASSUME OwnersOnly, DInv, DInv', OInv, ~thrown, NEW w \in Of("InputFile") \cup Of("OutputFile"),
           OpenFile(w)
    PROVE  OInv'
<1>. DEFINE n == w.native
            S == StreamsOf(n)
            f == Freed(heap, S)
            r == Native("fileStream", n, {})
            rs == <<r>>
            g == Created(f, rs)
            N == NewOnes(1)
<1>0. w.owns /\ Room(1) /\ (heap' = [g EXCEPT ![n].parts = {New(1)}] \/ heap' = WithoutStream(n))
  BY DEF OpenFile, OwnersOnly
<1>a. Quiet
  BY DEF OpenFile, Quiet
<1>b. CASE heap' = WithoutStream(n)
  <2>1. n \in DOMAIN heap /\ heap[n].kind = "file"
    BY <1>0, FileIs DEF Live
  <2>2. Undisturbed(heap, heap', busy)
    BY <1>b, <2>1, WithoutStreamUndisturbed
  <2>. QED  BY <1>a, <2>2, QuietStep
<1>. SUFFICES ASSUME heap' = [g EXCEPT ![n].parts = {New(1)}]
              PROVE  OInv'
  BY <1>0, <1>b
<1>1. w.owns /\ Room(1) /\ heap' = [g EXCEPT ![n].parts = {New(1)}]
  BY <1>0
<1>2. n \in DOMAIN heap /\ heap[n].kind = "file"
  BY <1>1, FileIs DEF Live
<1>3. DOMAIN f = DOMAIN heap \ S /\ \A m \in DOMAIN heap \ S : f[m] = heap[m]
  <2>. HIDE DEF S
  <2>. QED  BY FreedIs
<1>4. r.kind = "fileStream"
  BY DEF Native
<1>5. DOMAIN rs = 1 .. 1 /\ rs[1] = r
  OBVIOUS
<1>6. IsFresh(heap, wrappers, N)
  BY <1>1, NewAreFresh DEF NewOnes
<1>. HIDE DEF r, rs, f, S
<1>7. IsMade(f, g, rs, 1)
  <2>1. DOMAIN f \subseteq Live
    BY <1>3 DEF Live
  <2>. HIDE DEF g
  <2>2. IsMade(f, Created(f, rs), rs, 1)
    BY <1>1, <1>5, <2>1, CreatedIs
  <2>. QED  BY <2>2 DEF g
<1>. HIDE DEF g
<1>8. /\ DOMAIN g \subseteq DOMAIN heap \cup N /\ \A m \in N : m \in DOMAIN g => g[m].kind = "fileStream"
      /\ \A m \in DOMAIN g : m \in DOMAIN heap => g[m] = heap[m]
  <2>1. DOMAIN g = DOMAIN f \cup N /\ \A m \in DOMAIN f : g[m] = f[m]
    BY <1>7 DEF IsMade
  <2>2. \A m \in N : g[m] = r
    BY <1>5, <1>7 DEF IsMade, NewOnes
  <2>3. \A m \in DOMAIN heap : m \notin N
    BY <1>6 DEF IsFresh
  <2>. QED  BY <1>3, <1>4, <2>1, <2>2, <2>3
<1>9. /\ DOMAIN heap' = DOMAIN g /\ \A m \in DOMAIN g : m # n => heap'[m] = g[m]
      /\ n \in DOMAIN g => heap'[n].kind = heap[n].kind
  <2>1. heap[n] \in Record
    BY <1>2 DEF DInv, IsHeap
  <2>2. [heap[n] EXCEPT !.parts = {New(1)}].kind = heap[n].kind
    BY <2>1 DEF Record
  <2>3. n \in DOMAIN g => heap'[n] = [heap[n] EXCEPT !.parts = {New(1)}]
    BY <1>1, <1>2, <1>8
  <2>. QED  BY <1>1, <2>2, <2>3
<1>10. n \notin N
  BY <1>2, <1>6 DEF IsFresh
<1>11. Undisturbed(heap, heap', busy)
  <2>1. /\ DOMAIN heap' \subseteq DOMAIN heap \cup N
        /\ \A m \in DOMAIN heap' : m \in DOMAIN heap =>
              heap'[m] = heap[m] \/ (m = n /\ heap'[n].kind = heap[n].kind)
        /\ \A m \in N : m \in DOMAIN heap' /\ heap'[m].kind = "pageContext" => heap'[m].parts = {}
    BY <1>8, <1>9, <1>10
  <2>. HIDE DEF n, N
  <2>. QED  BY <1>2, <1>6, <2>1, AltersUndisturbed
<1>. QED  BY <1>a, <1>11, QuietStep

LEMMA ContextNests ==
    ASSUME OwnersOnly, DInv, DInv', OInv, ~thrown, NEW w \in Of("PDFPage"), StartPageContentContext(w)
    PROVE  OInv'
<1>. DEFINE n == w.native
            a == New(1)
<1>1. w.owns /\ OwnerFits(heap, w) /\ w.class = "PDFPage"
  BY Used DEF StartPageContentContext, OwnersOnly
<1>2. n \in DOMAIN heap /\ n \in Live /\ heap[n].kind = "page" /\ heap[n] \in Record
  BY <1>1 DEF OwnerFits, OwnerOf, Live, DInv, IsHeap
<1>3. Quiet
  BY DEF StartPageContentContext, Quiet
<1>4. CASE heap[n].of # None
  <2>1. heap' = [heap EXCEPT ![n].of = heap[n].of]
    BY <1>2, <1>4 DEF StartPageContentContext
  <2>2. [heap[n] EXCEPT !.of = heap[n].of] = heap[n]
    BY <1>2 DEF Record
  <2>3. heap' = [heap EXCEPT ![n] = [heap[n] EXCEPT !.of = heap[n].of]]
    BY <2>1
  <2>4. heap \in [DOMAIN heap -> Record]
    BY DEF DInv, IsHeap
  <2>5. heap' = heap
    BY <1>2, <2>2, <2>3, <2>4
  <2>. QED  BY <1>3, <2>5, QuietStep, SameUndisturbed
<1>5. CASE heap[n].of = None
  <2>1. Room(1) /\ StartsContext(w, a)
    <3>1. /\ Room(1)
          /\ heap' = [Created(heap, <<Native("pageContext", n, {})>>) EXCEPT ![n].of = a]
          /\ wrappers' = (wrappers \ {w}) \cup {[w EXCEPT !.also = a], BorrowedOf("PageContentContext", a)}
      BY <1>2, <1>5 DEF StartPageContentContext, BorrowedOf
    <3>. QED  BY <3>1 DEF StartsContext
  <2>2. NewContext(heap', w, a)
    BY <1>2, <2>1, NewContextIs
  <2>. HIDE DEF a
  <2>3. /\ DOMAIN heap' \subseteq DOMAIN heap \cup {a} /\ IsFresh(heap, wrappers, {a})
        /\ \A m \in DOMAIN heap : m # n => heap'[m] = heap[m]
        /\ heap'[n].kind = heap[n].kind /\ heap'[a].parts = {}
    <3>1. [heap[n] EXCEPT !.of = a].kind = heap[n].kind
      BY <1>2 DEF Record
    <3>2. Native("pageContext", n, {}).parts = {}
      BY DEF Native
    <3>. QED  BY <2>2, <3>1, <3>2 DEF NewContext
  <2>. DEFINE N == {a}
  <2>4. Undisturbed(heap, heap', busy)
    <3>1. heap[n].kind \notin {"pageContext", "form", "modifier"}
      BY <1>2
    <3>2. \A m \in DOMAIN heap' : m \in DOMAIN heap =>
              heap'[m] = heap[m] \/ (m = n /\ heap'[n].kind = heap[n].kind)
      BY <2>3
    <3>3. \A m \in N : m \in DOMAIN heap' /\ heap'[m].kind = "pageContext" => heap'[m].parts = {}
      BY <2>3
    <3>4. DInv /\ ~thrown /\ IsFresh(heap, wrappers, N) /\ DOMAIN heap' \subseteq DOMAIN heap \cup N
      BY <2>3
    <3>. HIDE DEF n, N
    <3>. QED  BY ONLY <1>2, <3>1, <3>2, <3>3, <3>4, AltersUndisturbed
  <2>. QED  BY <1>3, <2>4, QuietStep
<1>. QED  BY <1>4, <1>5

\* The writer has its fonts as parts.
LEMMA FontNests ==
    ASSUME DInv, DInv', OInv, ~thrown, GetFontForFile
    PROVE  OInv'
<1>. DEFINE n == session.writer
            r == Native("font", n, {})
            rs == <<r>>
            N == NewOnes(1)
<1>1. n \in DOMAIN heap /\ heap[n].kind = "writer" /\ heap \in [DOMAIN heap -> Record] /\ heap[n] \in Record
  <2>1. WriterHeld(wrappers)
    BY WhenRunning DEF GetFontForFile, IsFree
  <2>2. n \in DOMAIN heap /\ heap[n].kind = "writer"
    BY <2>1, WriterIsSafe DEF Live
  <2>. QED  BY <2>2 DEF DInv, IsHeap
<1>2. \/ heap' = heap
      \/ \E f : heap' = [heap EXCEPT ![n].parts = @ \cup {f}]
      \/ Room(1) /\ heap' = [Created(heap, rs) EXCEPT ![n].parts = @ \cup {New(1)}]
  BY DEF GetFontForFile
<1>3. \A f : [heap[n] EXCEPT !.parts = @ \cup {f}].kind = heap[n].kind
  BY <1>1 DEF Record
<1>4. ASSUME NEW f, heap' = [heap EXCEPT ![n].parts = @ \cup {f}]
      PROVE  Undisturbed(heap, heap', busy)
  <2>1. IsFresh(heap, wrappers, {}) /\ DInv /\ ~thrown
    BY DEF IsFresh
  <2>2. heap' = [heap EXCEPT ![n] = [heap[n] EXCEPT !.parts = @ \cup {f}]]
    BY <1>4
  <2>3. /\ DOMAIN heap' \subseteq DOMAIN heap \cup {}
        /\ \A m \in DOMAIN heap' : m \in DOMAIN heap =>
              heap'[m] = heap[m] \/ (m = n /\ heap'[n].kind = heap[n].kind)
        /\ \A m \in {} : m \in DOMAIN heap' /\ heap'[m].kind = "pageContext" => heap'[m].parts = {}
    BY <1>1, <1>3, <2>2
  <2>4. heap[n].kind \notin {"pageContext", "form", "modifier"}
    BY <1>1
  <2>. HIDE DEF n
  <2>. QED  BY ONLY <1>1, <2>1, <2>3, <2>4, AltersUndisturbed
<1>5. ASSUME Room(1), heap' = [Created(heap, rs) EXCEPT ![n].parts = @ \cup {New(1)}]
      PROVE  Undisturbed(heap, heap', busy)
  <2>1. IsFresh(heap, wrappers, N) /\ DInv /\ ~thrown
    BY <1>5, NewAreFresh DEF NewOnes
  <2>2. r.kind = "font"
    BY DEF Native
  <2>3. DOMAIN rs = 1 .. 1 /\ rs[1] = r /\ DOMAIN heap \subseteq Live /\ 1 \in 1 .. 3
    BY DEF Live
  <2>. DEFINE g == Created(heap, rs)
  <2>. HIDE DEF r, rs
  <2>4. IsMade(heap, g, rs, 1)
    BY <1>5, <2>3, CreatedIs
  <2>5. /\ DOMAIN g = DOMAIN heap \cup N /\ \A m \in DOMAIN heap : g[m] = heap[m]
        /\ \A m \in N : g[m].kind = "font"
    BY <2>2, <2>3, <2>4 DEF IsMade, NewOnes
  <2>6. heap' = [g EXCEPT ![n] = [g[n] EXCEPT !.parts = @ \cup {New(1)}]]
    BY <1>5
  <2>. HIDE DEF g
  <2>7. /\ DOMAIN heap' = DOMAIN g /\ \A m \in DOMAIN g : m # n => heap'[m] = g[m]
        /\ heap'[n].kind = heap[n].kind
    BY <1>1, <1>3, <2>5, <2>6
  <2>8. n \notin N
    BY <1>1, <2>1 DEF IsFresh
  <2>9. /\ DOMAIN heap' \subseteq DOMAIN heap \cup N
        /\ \A m \in DOMAIN heap' : m \in DOMAIN heap =>
              heap'[m] = heap[m] \/ (m = n /\ heap'[n].kind = heap[n].kind)
        /\ \A m \in N : m \in DOMAIN heap' /\ heap'[m].kind = "pageContext" => heap'[m].parts = {}
    BY <2>5, <2>7, <2>8
  <2>10. heap[n].kind \notin {"pageContext", "form", "modifier"}
    BY <1>1
  <2>. HIDE DEF n, N
  <2>. QED  BY ONLY <1>1, <2>1, <2>9, <2>10, AltersUndisturbed
<1>6. Undisturbed(heap, heap', busy)
  BY <1>2, <1>4, <1>5, SameUndisturbed
<1>7. Quiet
  BY DEF GetFontForFile, Quiet
<1>. QED  BY <1>6, <1>7, QuietStep

\* A form that the program draws on refers to a copying context.
LEMMA MergedNests ==
    ASSUME DInv, DInv', OInv, ~thrown, NEW x \in Of("DocumentCopyingContext"),
           NEW f \in Of("FormXObject"), MergePDFPageToFormXObject(x, f)
    PROVE  OInv'
<1>. DEFINE n == f.native
            c == x.native
<1>1. heap' = [heap EXCEPT ![n].parts = @ \cup {c}] /\ n \in busy
  BY DEF MergePDFPageToFormXObject
<1>2. n \in DOMAIN heap /\ heap[n].kind = "form" /\ c \in DOMAIN heap /\ heap[c].kind = "copying"
  <2>1. /\ f.class = "FormXObject" /\ (f.owns => OwnerFits(heap, f))
        /\ (~f.owns => BorrowerFits(heap, wrappers, f))
    BY Used
  <2>2. /\ x.class = "DocumentCopyingContext" /\ (x.owns => OwnerFits(heap, x))
        /\ (~x.owns => BorrowerFits(heap, wrappers, x))
    BY Used
  <2>. QED  BY <2>1, <2>2 DEF OwnerFits, OwnerOf, BorrowerFits, BorrowerOf
<1>3. heap[n] \in Record
  BY <1>2 DEF DInv, IsHeap
<1>4. [heap[n] EXCEPT !.parts = @ \cup {c}].kind = heap[n].kind
      /\ [heap[n] EXCEPT !.parts = @ \cup {c}].parts = heap[n].parts \cup {c}
  BY <1>3 DEF Record
<1>5. heap' = [heap EXCEPT ![n] = [heap[n] EXCEPT !.parts = @ \cup {c}]]
  BY <1>1
<1>6. /\ DOMAIN heap' = DOMAIN heap /\ \A m \in DOMAIN heap : m # n => heap'[m] = heap[m]
      /\ heap'[n].kind = heap[n].kind /\ heap'[n].parts = heap[n].parts \cup {c}
  BY <1>2, <1>4, <1>5
<1>. HIDE DEF n, c
<1>7. \A m \in DOMAIN heap : heap'[m].kind = heap[m].kind
  BY <1>6
<1>8. Undisturbed(heap, heap', busy)
  <2>1. ASSUME NEW m \in DOMAIN heap'
        PROVE  heap'[m].kind = "pageContext" => m \in DOMAIN heap /\ heap[m].kind = "pageContext"
                                                /\ heap'[m].parts \subseteq heap[m].parts
    BY <1>2, <1>6, <2>1
  <2>2. ASSUME NEW m \in DOMAIN heap, NEW p \in heap'[m].parts, p \in DOMAIN heap', heap'[p].kind = "stream"
        PROVE  p \in heap[m].parts /\ p \in DOMAIN heap /\ heap[p].kind = "stream"
    <3>1. p \in DOMAIN heap /\ heap[p].kind = "stream"
      BY <1>6, <1>7, <2>2
    <3>2. p # c
      BY <1>2, <3>1
    <3>. QED  BY <1>6, <2>2, <3>1, <3>2
  <2>3. \A m \in DOMAIN heap : heap[m].parts \subseteq heap'[m].parts
    BY <1>6
  <2>. QED  BY <1>6, <2>1, <2>2, <2>3 DEF Undisturbed
<1>9. Quiet
  BY DEF MergePDFPageToFormXObject, Quiet
<1>. QED  BY <1>8, <1>9, QuietStep

LEMMA CopyingNests ==
    ASSUME DInv, DInv', OInv, ~thrown,
           CreatePDFCopyingContext \/ CreatePDFCopyingContextForModifiedFile
    PROVE  OInv'
<1>1. \A source \in {"path", "stream", "parser"} : \A given : Copies(source, given) => OInv'
  BY CopiesNests
<1>2. CreatePDFCopyingContext => \E source \in {"path", "stream", "parser"} : \E given : Copies(source, given)
  BY DEF CreatePDFCopyingContext
<1>3. CreatePDFCopyingContextForModifiedFile => Copies("parser", {session.writer})
  BY DEF CreatePDFCopyingContextForModifiedFile
<1>. QED  BY <1>1, <1>2, <1>3

LEMMA LettingGoNests ==
    ASSUME DInv, DInv', OInv, NEW w, LetGoOf(w)
    PROVE  OInv'
<1>1. thrown' = thrown /\ heap' = heap /\ Quiet
  BY DEF LetGoOf, Quiet
<1>2. CASE thrown
  BY <1>1, <1>2 DEF OInv
<1>3. CASE ~thrown
  BY <1>1, <1>3, QuietStep, SameUndisturbed
<1>. QED  BY <1>2, <1>3

\* What the collector takes.
LEMMA FreedUndisturbed ==
    ASSUME NEW h, NEW F, NEW b
    PROVE  Undisturbed(h, Freed(h, F), b)
<1>. DEFINE g == Freed(h, F)
<1>1. DOMAIN g \subseteq DOMAIN h /\ \A n \in DOMAIN g : g[n] = h[n]
  <2>1. DOMAIN Freed(h, F) = DOMAIN h \ F /\ \A n \in DOMAIN h \ F : Freed(h, F)[n] = h[n]
    BY FreedIs
  <2>. QED  BY <2>1
<1>. HIDE DEF g
<1>2. Undisturbed(h, g, b)
  BY <1>1, ShrinksUndisturbed
<1>. QED  BY <1>2 DEF g

LEMMA CollectingNests ==
    ASSUME DInv, DInv', OInv, NEW w, CollectCopyingContext(w) \/ CollectOther(w),
           UNCHANGED <<out, busy, event>>
    PROVE  OInv'
<1>1. thrown' = thrown /\ heap' = Freed(heap, Deletes(w)) /\ Quiet
  BY DEF CollectCopyingContext, CollectOther, Quiet
<1>2. CASE thrown
  BY <1>1, <1>2 DEF OInv
<1>3. CASE ~thrown
  BY <1>1, <1>3, QuietStep, FreedUndisturbed
<1>. QED  BY <1>2, <1>3

\* Nothing is drawn on, and no call waits, when the writer is let go.
LEMMA WithoutWriter ==
    ASSUME DInv, OInv, ~thrown, ~WriterHeld(wrappers)
    PROVE  /\ busy = {} /\ event = NoEvent /\ IsOutput(out) /\ out.open = <<>>
           /\ Nests(heap, out, {}, NoEvent)
<1>1. busy = {} /\ event = NoEvent
  BY DEF DInv, IsBusy
<1>. QED  BY <1>1 DEF OInv, Nests

LEMMA CollectingWriterNests ==
    ASSUME DInv, OInv, NEW w, CollectWriter(w), UNCHANGED <<out, busy, event>>
    PROVE  OInv'
<1>1. /\ thrown' = thrown /\ heap' = Freed(CleanedUp(heap), Deletes(w))
      /\ w.class = "PDFWriter" /\ w \in wrappers /\ ~w.held
      /\ out' = out /\ busy' = busy /\ event' = event
  BY DEF CollectWriter
<1>2. CASE thrown
  BY <1>1, <1>2 DEF OInv
<1>3. CASE ~thrown
  <2>1. ~WriterHeld(wrappers)
    <3>1. \A v \in wrappers : v.class = "PDFWriter" => v.owns /\ v.native = session.writer
      BY DEF DInv, IsSession
    <3>2. \A v \in wrappers : v.class = "PDFWriter" => v = w
      BY <1>1, <3>1 DEF DInv, IsWrapped, OwnersDiffer
    <3>. QED  BY <1>1, <3>2 DEF WriterHeld
  <2>2. busy = {} /\ event = NoEvent /\ Nests(heap, out, {}, NoEvent)
    BY <1>3, <2>1, WithoutWriter
  <2>3. Undisturbed(heap, heap', {})
    <3>. DEFINE k == CleanedUp(heap)
    <3>1. DOMAIN k \subseteq DOMAIN heap
          /\ \A n \in DOMAIN k : k[n].kind = heap[n].kind /\ k[n].parts \subseteq heap[n].parts
      BY CleanedIs DEF Cleaned
    <3>. HIDE DEF k
    <3>2. DOMAIN heap' \subseteq DOMAIN k /\ \A n \in DOMAIN heap' : heap'[n] = k[n]
      <4>1. DOMAIN Freed(k, Deletes(w)) = DOMAIN k \ Deletes(w)
            /\ \A n \in DOMAIN k \ Deletes(w) : Freed(k, Deletes(w))[n] = k[n]
        BY FreedIs
      <4>2. heap' = Freed(k, Deletes(w))
        BY <1>1 DEF k
      <4>. QED  BY <4>1, <4>2
    <3>3. DOMAIN heap' \subseteq DOMAIN heap
          /\ \A n \in DOMAIN heap' : heap'[n].kind = heap[n].kind /\ heap'[n].parts \subseteq heap[n].parts
      BY <3>1, <3>2
    <3>. QED  BY <3>3, ShrinksUndisturbed
  <2>4. Nests(heap', out', busy', event')
    BY <1>1, <2>2, <2>3, NestsStays
  <2>5. IsOn(session', busy', event')
    <3>1. session' = [session EXCEPT !.writer = None, !.state = "none"]
      BY DEF CollectWriter
    <3>2. session \in [writer : Nat, state : States, modifies : BOOLEAN]
      BY DEF DInv, IsSession
    <3>3. session'.state = "none"
      BY <3>1, <3>2
    <3>. QED  BY <1>1, <2>2, <3>3 DEF IsOn
  <2>. QED  BY <2>4, <2>5 DEF OInv
<1>. QED  BY <1>2, <1>3

(***************************************************************************)
(* What a step leaves.                                                     *)
(***************************************************************************)
LEMMA SpecialsDiffer ==
    /\ Own # Listening /\ Own # Waiting /\ Listening # Waiting
    /\ \A h : IsHeap(h) => \A n \in DOMAIN h : n \notin Special
<1>1. ASSUME NEW h, IsHeap(h), NEW n \in DOMAIN h
      PROVE  n \notin Special
  <2>1. n \in 1 .. MaxNatives
    BY <1>1 DEF IsHeap
  <2>. QED  BY <2>1 DEF Special, Own, Listening, Waiting
<1>. QED  BY <1>1 DEF Own, Listening, Waiting

\* No context of a page has a stream while the program draws on none.
LEMMA NoneDrawn ==
    ASSUME NEW h, IsHeap(h), NEW b, b \subseteq Special, Paused(h, b)
    PROVE  Paused(h, {})
BY SpecialsDiffer DEF Paused

LEMMA PausedForAll ==
    ASSUME NEW h, NEW b, Paused(h, {})
    PROVE  Paused(h, b)
BY DEF Paused

LEMMA NoneDrawnNow ==
    ASSUME DInv, OInv, ~thrown, busy \subseteq Special
    PROVE  Paused(heap, {})
BY NoneDrawn DEF DInv, OInv, Nests

LEMMA NoneDrawnThen ==
    ASSUME DInv, OInv, ~thrown, busy \subseteq Special, Undisturbed(heap, heap', {})
    PROVE  Paused(heap', {})
BY NoneDrawnNow, PausedStays

LEMMA BecomesIdle ==
    ASSUME Paused(heap', {}), IsOutput(out'), out'.open = <<>>, busy' = {}, event' = NoEvent,
           session'.state \in {"none", "on", "over"}
    PROVE  OInv'
BY DEF OInv, Nests, IsOn

LEMMA BecomesOwn ==
    ASSUME Paused(heap', {}), IsOutput(out'), OwnObject(out'), busy' = {Own}, session'.state = "on"
    PROVE  OInv'
<1>1. {Own} # {} /\ {Own} # {Listening} /\ {Own} # {Waiting} /\ Own \in {Own, Listening, Waiting}
  BY SpecialsDiffer
<1>2. Paused(heap', {Own})
  BY PausedForAll
<1>. QED  BY <1>1, <1>2 DEF OInv, Nests, IsOn

LEMMA BecomesListening ==
    ASSUME Paused(heap', {}), IsOutput(out'), ListenedTo(out', event'.left), busy' = {Listening},
           session'.state = "on"
    PROVE  OInv'
<1>1. {Listening} # {} /\ {Listening} # {Own} /\ {Listening} # {Waiting}
      /\ Listening \in {Own, Listening, Waiting}
  BY SpecialsDiffer
<1>2. Paused(heap', {Listening})
  BY PausedForAll
<1>. QED  BY <1>1, <1>2 DEF OInv, Nests, IsOn

LEMMA BecomesWaiting ==
    ASSUME Paused(heap', {}), IsOutput(out'), WaitedFor(out', event'), busy' = {Waiting},
           session'.state = "on"
    PROVE  OInv'
<1>1. {Waiting} # {} /\ {Waiting} # {Own} /\ {Waiting} # {Listening}
      /\ Waiting \in {Own, Listening, Waiting}
  BY SpecialsDiffer
<1>2. Paused(heap', {Waiting})
  BY PausedForAll
<1>. QED  BY <1>1, <1>2 DEF OInv, Nests, IsOn

LEMMA BecomesDrawn ==
    ASSUME NEW c, c \notin Special, Paused(heap', {c}), IsOutput(out'), DrawnIn(heap', out', c),
           busy' = {c}, session'.state = "on"
    PROVE  OInv'
<1>1. {c} # {} /\ {c} # {Own} /\ {c} # {Listening} /\ {c} # {Waiting}
  BY DEF Special
<1>. QED  BY <1>1 DEF OInv, Nests, IsOn

(***************************************************************************)
(* Objects of the program.                                                 *)
(***************************************************************************)
LEMMA NothingOpen ==
    ASSUME DInv, OInv, ~thrown, busy = {}
    PROVE  IsOutput(out) /\ out.open = <<>> /\ Paused(heap, {}) /\ event = NoEvent
BY NoneDrawnNow, NotCalledBack DEF OInv, Nests

InOwn(o) == busy = {Own} /\ OwnObject(o)
InCall(o) == busy = {Listening} /\ ListenedTo(o, event.left)

LEMMA WritingIs ==
    ASSUME DInv, OInv, ~thrown, busy \in {{Own}, {Listening}}
    PROVE  /\ IsOutput(out) /\ session.state = "on" /\ Paused(heap, {}) /\ event.left \in Seq(Nat)
           /\ InOwn(out) \/ InCall(out)
<1>1. Nests(heap, out, busy, event) /\ IsOn(session, busy, event) /\ busy # {}
  BY DEF OInv
<1>2. Paused(heap, {})
  BY NoneDrawnNow DEF Special
<1>3. event.left \in Seq(Nat)
  BY DEF DInv, IsEvent
<1>. QED  BY <1>1, <1>2, <1>3 DEF Nests, IsOn, InOwn, InCall

LEMMA WritingStep ==
    ASSUME DInv, OInv, ~thrown, busy \in {{Own}, {Listening}}, NEW p, InOwn(p) \/ InCall(p),
           IsOutput(p), out' = p, UNCHANGED <<busy, event, session>>, Paused(heap', {})
    PROVE  OInv'
<1>1. session'.state = "on"
  BY WritingIs
<1>2. CASE InOwn(p)
  BY <1>1, <1>2, BecomesOwn DEF InOwn
<1>3. CASE InCall(p)
  BY <1>1, <1>3, BecomesListening DEF InCall
<1>. QED  BY <1>2, <1>3

LEMMA WritingOpens ==
    ASSUME DInv, OInv, ~thrown, IsWriting, Top(out)[1] # "stream", NEW x \in Thing, Inner(x),
           \A j \in DOMAIN event.left : x # Dictionary(event.left[j]),
           NEW p, IsOutput(p), p.open = Append(out.open, x)
    PROVE  InOwn(p) \/ InCall(p)
<1>1. IsOutput(out) /\ event.left \in Seq(Nat) /\ (InOwn(out) \/ InCall(out))
  BY WritingIs DEF IsWriting
<1>2. CASE InOwn(out)
  BY <1>1, <1>2, OwnOpens DEF InOwn
<1>3. CASE InCall(out)
  BY <1>1, <1>3, ListenedOpens DEF InCall
<1>. QED  BY <1>1, <1>2, <1>3

LEMMA WritingCloses ==
    ASSUME DInv, OInv, ~thrown, IsWriting, NEW x, Top(out) = x, Inner(x),
           \A j \in DOMAIN event.left : x # Dictionary(event.left[j])
    PROVE  IsOutput(Closed(out, x)) /\ (InOwn(Closed(out, x)) \/ InCall(Closed(out, x)))
<1>1. IsOutput(out) /\ event.left \in Seq(Nat) /\ (InOwn(out) \/ InCall(out))
  BY WritingIs DEF IsWriting
<1>2. CASE InOwn(out)
  BY <1>1, <1>2, OwnCloses DEF InOwn
<1>3. CASE InCall(out)
  BY <1>1, <1>3, ListenedCloses DEF InCall
<1>. QED  BY <1>1, <1>2, <1>3

\* What it starts is started where it may be.
LEMMA WritingTop ==
    ASSUME DInv, OInv, ~thrown, IsWriting, Top(out)[1] # "stream"
    PROVE  Top(out)[1] \in {"object", "dictionary", "array"}
<1>1. IsOutput(out) /\ event.left \in Seq(Nat) /\ (InOwn(out) \/ InCall(out))
  BY WritingIs DEF IsWriting
<1>2. Top(out)[1] \in {"object", "array", "dictionary", "stream"}
  BY <1>1, InnerTop DEF InOwn, InCall
<1>. QED  BY <1>2

LEMMA ArrayNests ==
    ASSUME DInv, OInv, ~thrown, StartArray \/ EndArray, UNCHANGED event
    PROVE  OInv'
<1>1. /\ IsWriting /\ UNCHANGED <<busy, event, session, heap>>
      /\ Array \in Thing /\ Inner(Array) /\ \A d : Array # Dictionary(d)
  <2>1. \A d : Array # Dictionary(d)
    BY DEF Array, Dictionary
  <2>2. Array \in Thing /\ Inner(Array)
    BY ThingsAre DEF Inner
  <2>. QED  BY <2>1, <2>2 DEF StartArray, EndArray
<1>2. IsOutput(out) /\ Paused(heap', {}) /\ busy \in {{Own}, {Listening}}
  BY <1>1, WritingIs DEF IsWriting
<1>3. CASE StartArray
  <2>1. Top(out)[1] # "stream" /\ out' = Opened(out, Array, {"object", "dictionary", "array"})
    BY <1>3 DEF StartArray
  <2>2. Top(out)[1] \in {"object", "dictionary", "array"}
    BY <1>1, <2>1, WritingTop
  <2>3. IsOutput(out') /\ out'.open = Append(out.open, Array)
    BY <1>1, <1>2, <2>1, <2>2, Opening
  <2>4. InOwn(out') \/ InCall(out')
    BY <1>1, <2>1, <2>3, WritingOpens
  <2>. QED  BY <1>1, <1>2, <2>3, <2>4, WritingStep
<1>4. CASE EndArray
  <2>1. Top(out) = Array /\ out' = Closed(out, Array)
    BY <1>4 DEF EndArray
  <2>2. IsOutput(out') /\ (InOwn(out') \/ InCall(out'))
    BY <1>1, <2>1, WritingCloses
  <2>. QED  BY <1>1, <1>2, <2>2, WritingStep
<1>. QED  BY <1>3, <1>4

LEMMA NewIsAddress ==
    ASSUME Room(1)
    PROVE  New(1) \in Nat /\ New(1) \in Int /\ New(1) \notin DOMAIN heap
<1>1. New(1) \in Unused
  BY NewAddresses
<1>. QED  BY <1>1 DEF Unused, Live

LEMMA ObjectNests ==
    ASSUME DInv, OInv, ~thrown, StartNewIndirectObject \/ EndIndirectObject, UNCHANGED event
    PROVE  OInv'
<1>1. session'.state = "on" /\ heap' = heap
  BY DEF StartNewIndirectObject, EndIndirectObject, IsRunning
<1>2. CASE StartNewIndirectObject
  <2>1. busy = {} /\ out' = ObjectStarted(out) /\ busy' = {Own}
    BY <1>2 DEF StartNewIndirectObject
  <2>2. IsOutput(out') /\ out'.open = <<Object>> /\ Paused(heap', {})
    BY <1>1, <2>1, NothingOpen, StartingObject
  <2>3. Nested(out')
    <3>1. Len(<<Object>>) = 1 /\ <<Object>>[1] = Object
      OBVIOUS
    <3>. QED  BY <2>2, <3>1 DEF Nested
  <2>. QED  BY <1>1, <2>1, <2>2, <2>3, BecomesOwn DEF OwnObject
<1>3. CASE EndIndirectObject
  <2>1. busy = {Own} /\ Top(out) = Object /\ out' = ObjectEnded(out) /\ busy' = {}
    BY <1>3 DEF EndIndirectObject
  <2>2. IsOutput(out) /\ OwnObject(out) /\ Paused(heap', {})
    BY <1>1, <2>1, WritingIs, SpecialsDiffer DEF InOwn, InCall
  <2>3. IsOutput(out') /\ out'.open = <<>>
    BY <2>1, <2>2, OwnTop, EndingObject
  <2>4. event' = NoEvent
    BY <2>1, NotCalledBack
  <2>. QED  BY <1>1, <2>1, <2>2, <2>3, <2>4, BecomesIdle
<1>. QED  BY <1>2, <1>3

LEMMA DictionaryNests ==
    ASSUME DInv, OInv, ~thrown, StartDictionary, UNCHANGED event
    PROVE  OInv'
<1>. DEFINE d == New(1)
<1>1. /\ IsWriting /\ UNCHANGED <<busy, event, session>> /\ Top(out)[1] # "stream" /\ Room(1)
      /\ heap' = Created(heap, <<Native("dictionary", None, {})>>)
      /\ out' = DictionaryStarted(out, d)
  BY DEF StartDictionary
<1>2. /\ IsOutput(out) /\ Paused(heap, {}) /\ busy \in {{Own}, {Listening}} /\ busy \subseteq Special
  BY <1>1, WritingIs DEF IsWriting, Special
<1>3. d \in Int /\ d \notin DOMAIN heap
  BY <1>1, NewIsAddress
<1>4. Paused(heap', {})
  <2>1. Undisturbed(heap, heap', {})
    BY <1>1, NativePlain, PlainUndisturbed
  <2>. QED  BY <1>2, <2>1, NoneDrawnThen
<1>. HIDE DEF d
<1>5. Top(out)[1] \in {"object", "dictionary", "array"}
  BY <1>1, WritingTop
<1>6. IsOutput(out') /\ out'.open = Append(out.open, Dictionary(d))
  BY <1>1, <1>2, <1>3, <1>5, NestingDictionary
<1>7. Dictionary(d) \in Thing /\ Inner(Dictionary(d))
  BY <1>3, ThingsAre DEF Inner
<1>8. \A j \in DOMAIN event.left : Dictionary(d) # Dictionary(event.left[j])
  <2>1. \A j \in DOMAIN event.left : event.left[j] # d
    BY <1>3 DEF DInv, IsEvent
  <2>. QED  BY <2>1, ThingsAre
<1>9. InOwn(out') \/ InCall(out')
  BY <1>1, <1>6, <1>7, <1>8, WritingOpens
<1>. QED  BY <1>1, <1>2, <1>4, <1>6, <1>9, WritingStep

LEMMA DictionaryEndNests ==
    ASSUME DInv, OInv, ~thrown, NEW x \in Of("DictionaryContext"), EndDictionary(x), UNCHANGED event
    PROVE  OInv'
<1>. DEFINE n == x.native
<1>1. /\ IsWriting /\ x.also = None /\ Top(out)[1] = "dictionary"
      /\ UNCHANGED <<busy, event, session>>
      /\ thrown' = (thrown \/ InnermostDictionary(out) # n)
  BY DEF EndDictionary, Throws
<1>2. CASE InnermostDictionary(out) # n
  BY <1>1, <1>2 DEF OInv
<1>3. CASE InnermostDictionary(out) = n
  <2>1. out' = Closed(out, Dictionary(n)) /\ heap' = Freed(heap, {n})
    BY <1>3 DEF EndDictionary
  <2>2. IsOutput(out) /\ busy \in {{Own}, {Listening}} /\ busy \subseteq Special
    BY <1>1, WritingIs DEF IsWriting, Special
  <2>3. Top(out) = Dictionary(n)
    BY <1>1, <1>3, <2>2, InnermostIs
  <2>4. Inner(Dictionary(n))
    BY ThingsAre DEF Inner
  <2>5. \A j \in DOMAIN event.left : Dictionary(n) # Dictionary(event.left[j])
    <3>1. x \in wrappers /\ n # None
      BY Used
    <3>2. Handed(n).also = n
      BY DEF Handed, Wrap
    <3>3. \A j \in DOMAIN event.left : n = event.left[j] => x = Handed(n)
      BY <3>1 DEF DInv, IsEvent
    <3>4. \A j \in DOMAIN event.left : n # event.left[j]
      BY <1>1, <3>1, <3>2, <3>3
    <3>. QED  BY <3>4, ThingsAre
  <2>6. IsOutput(out') /\ (InOwn(out') \/ InCall(out'))
    <3>. DEFINE y == Dictionary(n)
    <3>1. Top(out) = y /\ Inner(y) /\ out' = Closed(out, y)
          /\ \A j \in DOMAIN event.left : y # Dictionary(event.left[j])
      BY <2>1, <2>3, <2>4, <2>5
    <3>. HIDE DEF y
    <3>. QED  BY <1>1, <3>1, WritingCloses
  <2>7. Paused(heap', {})
    BY <2>1, <2>2, FreedUndisturbed, NoneDrawnThen
  <2>. QED  BY <1>1, <2>2, <2>6, <2>7, WritingStep
<1>. QED  BY <1>2, <1>3

LEMMA StreamNests ==
    ASSUME DInv, OInv, ~thrown, StartPDFStream, UNCHANGED event
    PROVE  OInv'
<1>1. /\ busy = {Own} /\ Top(out) = Object /\ Room(1) /\ session'.state = "on" /\ busy' = busy
      /\ heap' = Created(heap, <<Native("stream", None, {})>>)
      /\ out' = StreamStarted(out, New(1))
  BY DEF StartPDFStream, IsRunning
<1>2. IsOutput(out) /\ OwnObject(out) /\ busy \subseteq Special
  BY <1>1, WritingIs, SpecialsDiffer DEF InOwn, InCall, Special
<1>3. Paused(heap', {})
  <2>1. Undisturbed(heap, heap', {})
    BY <1>1, NativePlain, PlainUndisturbed
  <2>. QED  BY <1>2, <2>1, NoneDrawnThen
<1>4. New(1) \in Int
  BY <1>1, NewIsAddress
<1>5. IsOutput(out') /\ out'.open = <<Object, Stream(New(1))>>
  BY <1>1, <1>2, <1>4, OwnTop, StartingStream
<1>6. OwnObject(out')
  BY <1>4, <1>5 DEF OwnObject, OnlyStream
<1>. QED  BY <1>1, <1>3, <1>5, <1>6, BecomesOwn

LEMMA StreamWithNests ==
    ASSUME DInv, OInv, ~thrown, NEW x \in Of("DictionaryContext"), StartPDFStreamWith(x), UNCHANGED event
    PROVE  OInv'
<1>. DEFINE n == x.native
            h == Freed(heap, {n})
            rs == <<Native("stream", None, {})>>
            p == Closed(out, Dictionary(n))
<1>1. /\ busy = {Own} /\ out.open = <<Object, Dictionary(n)>> /\ Room(1) /\ session'.state = "on"
      /\ busy' = busy /\ heap' = Created(h, rs) /\ out' = StreamStarted(p, New(1))
  BY DEF StartPDFStreamWith, IsRunning
<1>2. IsOutput(out) /\ busy \subseteq Special /\ Paused(heap, {})
  BY <1>1, WritingIs DEF Special
<1>3. n \in Int
  <2>1. x \in Wrapper
    BY Used
  <2>. QED  BY <2>1 DEF Wrapper
<1>4. IsOutput(p) /\ p.open = <<Object>>
  <2>. DEFINE y == Dictionary(n)
  <2>1. y \in Thing
    BY <1>3, ThingsAre
  <2>. HIDE DEF y
  <2>2. out.open # <<>> /\ Top(out) = y /\ Len(out.open) = 2 /\ out.open[1] = Object
    BY <1>1, <1>2, <2>1, SecondIs DEF y
  <2>. DEFINE q == Closed(out, y)
  <2>3. IsOutput(q) /\ Len(q.open) = Len(out.open) - 1
        /\ \A i \in 1 .. (Len(out.open) - 1) : q.open[i] = out.open[i]
    BY <1>2, <2>2, Closing
  <2>. HIDE DEF q
  <2>4. q.open \in Seq(Thing) /\ Len(q.open) = 1 /\ q.open[1] = Object
    BY <2>2, <2>3 DEF IsOutput
  <2>5. q.open = <<Object>>
    BY <2>4, OfOne, ThingsAre
  <2>. QED  BY <2>3, <2>5 DEF q, y
<1>5. New(1) \in Int
  BY <1>1, NewIsAddress
<1>6. Paused(heap', {})
  <2>1. DOMAIN h = DOMAIN heap \ {n} /\ \A m \in DOMAIN heap \ {n} : h[m] = heap[m]
    BY FreedIs
  <2>2. DOMAIN rs = 1 .. 1 /\ rs[1].kind = "stream"
    BY DEF Native
  <2>. HIDE DEF h, rs
  <2>3. IsMade(h, Created(h, rs), rs, 1)
    <3>1. DOMAIN h \subseteq Live
      BY <2>1 DEF Live
    <3>. QED  BY <1>1, <2>2, <3>1, CreatedIs
  <2>4. /\ DOMAIN heap' = DOMAIN h \cup NewOnes(1) /\ \A m \in DOMAIN h : heap'[m] = h[m]
        /\ \A m \in NewOnes(1) : heap'[m].kind = "stream"
    BY <1>1, <2>2, <2>3 DEF IsMade, NewOnes
  <2>. QED  BY <1>2, <2>1, <2>4 DEF Paused
<1>. HIDE DEF p
<1>7. IsOutput(out') /\ out'.open = <<Object, Stream(New(1))>>
  BY <1>1, <1>4, <1>5, StartingStream
<1>8. OwnObject(out')
  BY <1>5, <1>7 DEF OwnObject, OnlyStream
<1>. QED  BY <1>1, <1>6, <1>7, <1>8, BecomesOwn

LEMMA StreamEndNests ==
    ASSUME DInv, OInv, ~thrown, NEW x \in Of("PDFStream"), EndPDFStream(x), UNCHANGED event
    PROVE  OInv'
<1>. DEFINE n == x.native
<1>1. /\ busy = {Own} /\ Top(out) = Stream(n) /\ session'.state = "on" /\ busy' = {} /\ heap' = heap
      /\ out' = StreamEnded(out, n)
  BY DEF EndPDFStream, IsRunning
<1>. HIDE DEF n
<1>2. IsOutput(out) /\ OwnObject(out) /\ Paused(heap', {})
  BY <1>1, WritingIs, SpecialsDiffer DEF InOwn, InCall
<1>3. OnlyStream(out, n)
  BY <1>1, <1>2, OwnTop
<1>4. IsOutput(out') /\ out'.open = <<>>
  BY <1>1, <1>2, <1>3, EndingStream DEF OnlyStream
<1>5. event' = NoEvent
  BY <1>1, NotCalledBack
<1>. QED  BY <1>1, <1>2, <1>4, <1>5, BecomesIdle

LEMMA ObjectsNest ==
    ASSUME DInv, DInv', OInv, ~thrown, WritesObjects
    PROVE  OInv'
<1>1. UNCHANGED event
  BY DEF WritesObjects
<1>2. CASE \/ WriteToken
           \/ \E x \in Of("DictionaryContext") : WriteInDictionary(x)
           \/ \E x \in Of("PDFStream") : WriteInStream(x)
  BY <1>1, <1>2, LookingNests DEF Looks
<1>3. CASE StartNewIndirectObject \/ EndIndirectObject \/ StartDictionary \/ StartArray \/ EndArray \/ StartPDFStream
  BY <1>1, <1>3, ObjectNests, DictionaryNests, ArrayNests, StreamNests
<1>4. CASE \/ \E x \in Of("DictionaryContext") : EndDictionary(x) \/ StartPDFStreamWith(x)
           \/ \E x \in Of("PDFStream") : EndPDFStream(x)
  BY <1>1, <1>4, DictionaryEndNests, StreamWithNests, StreamEndNests
<1>. QED  BY <1>2, <1>3, <1>4 DEF WritesObjects

(***************************************************************************)
(* Pages.                                                                  *)
(***************************************************************************)

\* New objects that are no contexts of pages.
LEMMA CreatedPaused ==
    ASSUME NEW k \in 1 .. 3, Room(k), NEW h, DOMAIN h \subseteq Live, NEW rs, DOMAIN rs = 1 .. k,
           \A i \in 1 .. k : rs[i].kind # "pageContext", Paused(h, {})
    PROVE  Paused(Created(h, rs), {})
<1>. DEFINE g == Created(h, rs)
<1>1. IsMade(h, g, rs, k)
  BY CreatedIs
<1>. HIDE DEF g
<1>2. /\ DOMAIN g = DOMAIN h \cup NewOnes(k) /\ \A m \in DOMAIN h : g[m] = h[m]
      /\ \A m \in NewOnes(k) : g[m].kind # "pageContext"
  BY <1>1 DEF IsMade, NewOnes
<1>3. Paused(g, {})
  BY <1>2 DEF Paused
<1>. QED  BY <1>3 DEF g

\* The listener is called with the dictionaries of an object.
LEMMA BeginsCall ==
    ASSUME NEW o, IsOutput(o), o.open = <<>>, NEW k \in 1 .. 2, NEW first \in 1 .. 2, Room(first + k - 1),
           out' = Begun(o, first, k), event'.left = Left(first, k), busy' = {Listening},
           session'.state = "on", Paused(heap', {})
    PROVE  OInv'
<1>1. first \in Nat /\ New(first) \in Nat /\ (k = 2 => New(first + 1) \in Nat)
  <2>1. first + k - 1 \in 1 .. 3
    BY DEF Room
  <2>2. \A i \in 1 .. (first + k - 1) : New(i) \in Unused
    BY <2>1, NewAddresses
  <2>3. \A i \in 1 .. (first + k - 1) : New(i) \in Nat
    BY <2>2, UnusedIsFinite
  <2>. QED  BY <2>3
<1>2. IsOutput(out') /\ ListenedTo(out', event'.left)
  <2>1. IsOutput(Begun(o, first, k)) /\ ListenedTo(Begun(o, first, k), Left(first, k))
    BY <1>1, Beginning
  <2>. QED  BY <2>1
<1>. QED  BY <1>2, BecomesListening

\* A page's context that the program draws on, or that it may draw on.
LEMMA ContextIs ==
    ASSUME DInv, OInv, ~thrown, NEW c \in DOMAIN heap, heap[c].kind = "pageContext", busy \subseteq {c}
    PROVE  /\ IsOutput(out) /\ Paused(heap, {c}) /\ c \notin Special
           /\ heap[c].parts = {} => out.open = <<>>
           /\ heap[c].parts # {} => OnlyStream(out, StreamOf(c)) /\ DrawnIn(heap, out, c)
<1>1. Nests(heap, out, busy, event) /\ c \notin Special
  BY SpecialsDiffer DEF OInv, DInv
<1>2. busy = {} \/ busy = {c}
  OBVIOUS
<1>3. Paused(heap, {c}) /\ IsOutput(out)
  BY <1>1, <1>2, PausedForAll DEF Nests
<1>4. ASSUME heap[c].parts = {}
      PROVE  out.open = <<>>
  <2>1. busy # {c}
    BY <1>1, <1>4 DEF Nests, DrawnIn, Special
  <2>. QED  BY <1>1, <1>2, <2>1 DEF Nests
<1>5. ASSUME heap[c].parts # {}
      PROVE  OnlyStream(out, StreamOf(c)) /\ DrawnIn(heap, out, c)
  <2>1. busy = {c}
    BY <1>1, <1>2, <1>5 DEF Nests, Paused
  <2>2. DrawnIn(heap, out, c)
    BY <1>1, <2>1 DEF Nests, Special
  <2>3. PICK s \in heap[c].parts :
           OnlyStream(out, s) /\ \A p \in heap[c].parts : p \in DOMAIN heap /\ heap[p].kind = "stream" => p = s
    BY <2>2 DEF DrawnIn
  <2>4. \A p \in heap[c].parts : p \in DOMAIN heap /\ heap[p].kind = "stream"
    <3>1. heap[c].parts \subseteq DOMAIN heap /\ PartsFit(heap, c)
      BY DEF DInv, IsHeap, ContextFits
    <3>2. \A k : HasPart("pageContext", k) => k = "stream"
      BY DEF HasPart, Deletable, Lent
    <3>. QED  BY <3>1, <3>2 DEF PartsFit
  <2>5. StreamOf(c) \in heap[c].parts
    BY <1>5 DEF StreamOf
  <2>6. StreamOf(c) = s
    BY <2>3, <2>4, <2>5
  <2>. QED  BY <2>2, <2>3, <2>6 DEF OnlyStream
<1>. QED  BY <1>1, <1>3, <1>4, <1>5

LEMMA PageContextOf ==
    ASSUME DInv, NEW x \in Of("PageContentContext")
    PROVE  x.native \in DOMAIN heap /\ heap[x.native].kind = "pageContext"
<1>1. /\ x.class = "PageContentContext" /\ (x.owns => OwnerFits(heap, x))
      /\ (~x.owns => BorrowerFits(heap, wrappers, x))
  BY Used
<1>. QED  BY <1>1 DEF OwnerFits, OwnerOf, BorrowerFits, BorrowerOf

\* The stream of a context starts when something is drawn.
LEMMA DrawingNests ==
    ASSUME DInv, OInv, ~thrown, NEW x \in Of("PageContentContext"),
           DrawOnPage(x) \/ GetCurrentPageContentStream(x)
    PROVE  OInv'
<1>. DEFINE c == x.native
<1>1. /\ StartAStreamIfRequired(c) /\ busy \subseteq {c} /\ busy' = {c} /\ session'.state = "on"
  BY DEF DrawOnPage, GetCurrentPageContentStream, IsFree, IsRunning
<1>2. c \in DOMAIN heap /\ heap[c].kind = "pageContext"
  BY PageContextOf
<1>. HIDE DEF c
<1>3. /\ IsOutput(out) /\ Paused(heap, {c}) /\ c \notin Special
      /\ heap[c].parts = {} => out.open = <<>>
      /\ heap[c].parts # {} => DrawnIn(heap, out, c)
  BY <1>1, <1>2, ContextIs
<1>4. CASE heap[c].parts # {}
  <2>1. heap' = heap /\ out' = out
    BY <1>1, <1>4 DEF StartAStreamIfRequired
  <2>. QED  BY <1>1, <1>3, <1>4, <2>1, BecomesDrawn
<1>5. CASE heap[c].parts = {}
  <2>. DEFINE s == New(1)
              rs == <<Native("stream", None, {})>>
              g == Created(heap, rs)
  <2>1. Room(1) /\ heap' = [g EXCEPT ![c].parts = {s}] /\ out' = StreamStarted(ObjectStarted(out), s)
    BY <1>1, <1>5 DEF StartAStreamIfRequired
  <2>2. s \in Int /\ s \notin DOMAIN heap
    BY <2>1, NewIsAddress
  <2>3. DOMAIN rs = 1 .. 1 /\ rs[1].kind = "stream" /\ DOMAIN heap \subseteq Live /\ 1 \in 1 .. 3
    BY DEF Native, Live
  <2>. HIDE DEF rs
  <2>4. IsMade(heap, g, rs, 1)
    BY <2>1, <2>3, CreatedIs
  <2>5. /\ DOMAIN g = DOMAIN heap \cup {s} /\ \A m \in DOMAIN heap : g[m] = heap[m]
        /\ g[s].kind = "stream"
    BY <2>3, <2>4 DEF IsMade, NewOnes
  <2>. HIDE DEF g, s
  <2>6. heap[c] \in Record
    BY <1>2 DEF DInv, IsHeap
  <2>7. [heap[c] EXCEPT !.parts = {s}].parts = {s}
    BY <2>6 DEF Record
  <2>8. /\ DOMAIN heap' = DOMAIN heap \cup {s} /\ heap'[c].parts = {s}
        /\ \A m \in DOMAIN heap : m # c => heap'[m] = heap[m]
        /\ heap'[s].kind = "stream"
    BY <1>2, <2>1, <2>2, <2>5, <2>7
  <2>9. Paused(heap', {c})
    BY <1>3, <2>8 DEF Paused
  <2>10. IsOutput(out') /\ OnlyStream(out', s)
    <3>. DEFINE p == ObjectStarted(out)
    <3>1. IsOutput(p) /\ p.open = <<Object>>
      BY <1>3, <1>5, StartingObject
    <3>. HIDE DEF p
    <3>2. IsOutput(StreamStarted(p, s)) /\ StreamStarted(p, s).open = <<Object, Stream(s)>>
      BY <2>2, <3>1, StartingStream
    <3>. QED  BY <2>1, <2>2, <3>2 DEF OnlyStream, p
  <2>11. DrawnIn(heap', out', c)
    BY <2>8, <2>10 DEF DrawnIn
  <2>. QED  BY <1>1, <1>3, <2>9, <2>10, <2>11, BecomesDrawn
<1>. QED  BY <1>4, <1>5

\* The stream of a context ends, if there is one: nothing is open, and no context has a stream.
LEMMA FinalizedIs ==
    ASSUME DInv, OInv, ~thrown, NEW c \in Nat, c \in DOMAIN heap => heap[c].kind = "pageContext",
           busy \subseteq {c}
    PROVE  /\ IsOutput(Finalized(out, c)) /\ Finalized(out, c).open = <<>>
           /\ Paused(heap, {c}) /\ Paused(WithoutStream(c), {})
<1>1. CASE c \notin DOMAIN heap
  <2>1. busy = {}
    <3>1. c \notin {Own, Listening, Waiting}
      BY DEF Own, Listening, Waiting
    <3>2. c \notin busy
      BY <1>1, <3>1 DEF DInv, IsBusy
    <3>. QED  BY <3>2
  <2>2. IsOutput(out) /\ out.open = <<>> /\ Paused(heap, {})
    BY <2>1, NothingOpen
  <2>3. Finalized(out, c) = out
    BY <1>1 DEF Finalized, Live
  <2>4. WithoutStream(c) = heap
    BY <1>1, WithoutContext
  <2>. QED  BY <2>2, <2>3, <2>4, PausedForAll
<1>2. CASE c \in DOMAIN heap
  <2>1. /\ IsOutput(out) /\ Paused(heap, {c})
        /\ heap[c].parts = {} => out.open = <<>>
        /\ heap[c].parts # {} => OnlyStream(out, StreamOf(c))
    BY <1>2, ContextIs
  <2>2. c # None
    BY <1>2 DEF DInv, IsHeap, None
  <2>3. IsOutput(Finalized(out, c)) /\ Finalized(out, c).open = <<>>
    <3>1. CASE heap[c].parts = {}
      <4>1. Finalized(out, c) = out
        BY <3>1 DEF Finalized
      <4>. QED  BY <2>1, <3>1, <4>1
    <3>2. CASE heap[c].parts # {}
      <4>1. Finalized(out, c) = StreamEnded(out, StreamOf(c))
        BY <1>2, <2>2, <3>2 DEF Finalized, Live
      <4>. DEFINE s == StreamOf(c)
      <4>2. OnlyStream(out, s)
        BY <2>1, <3>2
      <4>. HIDE DEF s
      <4>3. IsOutput(StreamEnded(out, s)) /\ StreamEnded(out, s).open = <<>>
        BY <2>1, <4>2, EndingStream DEF OnlyStream
      <4>. QED  BY <4>1, <4>3 DEF s
    <3>. QED  BY <3>1, <3>2
  <2>4. Paused(WithoutStream(c), {})
    <3>. DEFINE g == WithoutStream(c)
    <3>1. /\ DOMAIN g \subseteq DOMAIN heap
          /\ \A m \in DOMAIN g : g[m] = IF m = c THEN [heap[m] EXCEPT !.parts = {}] ELSE heap[m]
      BY WithoutStreamIs
    <3>2. heap[c] \in Record
      BY <1>2 DEF DInv, IsHeap
    <3>3. [heap[c] EXCEPT !.parts = {}].parts = {}
      BY <3>2 DEF Record
    <3>. HIDE DEF g
    <3>4. Paused(g, {})
      BY <2>1, <3>1, <3>3 DEF Paused
    <3>. QED  BY <3>4 DEF g
  <2>. QED  BY <2>1, <2>3, <2>4
<1>. QED  BY <1>1, <1>2

LEMMA PausingNests ==
    ASSUME DInv, OInv, ~thrown, NEW x \in Of("PageContentContext"), PausePageContentContext(x)
    PROVE  OInv'
<1>. DEFINE c == x.native
<1>1. /\ busy \subseteq {c} /\ busy' = {} /\ session'.state = "on" /\ event' = NoEvent
      /\ heap' = WithoutStream(c) /\ out' = Finalized(out, c)
  BY DEF PausePageContentContext, IsFree, IsRunning
<1>2. c \in DOMAIN heap /\ heap[c].kind = "pageContext" /\ c \in Nat
  BY PageContextOf DEF DInv, IsHeap
<1>. HIDE DEF c
<1>3. IsOutput(out') /\ out'.open = <<>> /\ Paused(heap', {})
  BY <1>1, <1>2, FinalizedIs
<1>. QED  BY <1>1, <1>3, BecomesIdle

LEMMA MergingNests ==
    ASSUME DInv, OInv, ~thrown, NEW w \in Of("PDFPage"), Merges(w)
    PROVE  OInv'
<1>. DEFINE n == w.native
            c == heap[n].of
            f == Finalized(out, c)
<1>1. /\ busy \subseteq {c} /\ busy' = {} /\ session'.state = "on" /\ event' = NoEvent
      /\ heap' = WithoutStream(c) /\ out' = WholeObject(f)
  BY DEF Merges, IsFree, IsRunning
<1>2. n \in DOMAIN heap /\ heap[n].kind = "page"
  <2>1. /\ w.class = "PDFPage" /\ (w.owns => OwnerFits(heap, w))
        /\ (~w.owns => BorrowerFits(heap, wrappers, w))
    BY Used
  <2>. QED  BY <2>1 DEF OwnerFits, OwnerOf, BorrowerFits, BorrowerOf
<1>3. c \in Nat /\ (c \in DOMAIN heap => heap[c].kind = "pageContext")
  <2>1. heap[n] \in Record /\ OfFits(heap, n)
    BY <1>2 DEF DInv, IsHeap
  <2>2. \A k : PointsBack("page", k) => k = "pageContext"
    BY DEF PointsBack
  <2>. QED  BY <1>2, <2>1, <2>2 DEF OfFits, Record
<1>. HIDE DEF n, c
<1>4. IsOutput(f) /\ f.open = <<>> /\ Paused(heap', {})
  BY <1>1, <1>3, FinalizedIs
<1>. HIDE DEF f
<1>5. out' = f
  BY <1>1, <1>4, WholeIs
<1>. QED  BY <1>1, <1>4, <1>5, BecomesIdle

\* A page is written after its context has ended.
LEMMA WritingPageNests ==
    ASSUME OwnersOnly, DInv, OInv, ~thrown, NEW w \in Of("PDFPage"), WritePageAndReturnID(w)
    PROVE  OInv'
<1>. DEFINE n == w.native
            c == w.also
            h == Parted(w)
            f == Finalized(out, c)
<1>1. /\ w.owns /\ Room(2) /\ busy' = {Listening} /\ session'.state = "on"
      /\ event'.left = Left(1, 2) /\ out' = Begun(f, 1, 2)
      /\ \A b \in busy : b \in DOMAIN heap /\ heap[b].of = n /\ heap[b].kind = "pageContext"
  BY DEF WritePageAndReturnID, IsFree, IsRunning, OwnersOnly, Called, EndedIn, Live
<1>2. heap' = Created(h, Dictionaries(2))
  BY DEF WritePageAndReturnID, Parted, Parting, EndedWith
<1>3. /\ n \in DOMAIN heap /\ heap[n].kind = "page" /\ c = heap[n].of /\ c \in Nat
      /\ c \in DOMAIN heap => heap[c].kind = "pageContext"
  <2>1. w.class = "PDFPage" /\ OwnerFits(heap, w) /\ w \in Wrapper
    BY <1>1, Used
  <2>2. n \in DOMAIN heap /\ heap[n].kind = "page" /\ c = heap[n].of /\ c \in Nat
    BY <2>1 DEF OwnerFits, OwnerOf, Wrapper
  <2>3. OfFits(heap, n)
    BY <2>2 DEF DInv, IsHeap
  <2>4. \A k : PointsBack("page", k) => k = "pageContext"
    BY DEF PointsBack
  <2>. QED  BY <2>2, <2>3, <2>4 DEF OfFits
<1>4. busy \subseteq {c}
  <2>1. ASSUME NEW b \in busy
        PROVE  b = c
    <3>1. b \in DOMAIN heap /\ heap[b].of = n /\ heap[b].kind = "pageContext" /\ OfFits(heap, b)
      BY <1>1 DEF DInv, IsHeap
    <3>. QED  BY <1>3, <3>1 DEF OfFits
  <2>. QED  BY <2>1
<1>5. /\ DOMAIN h \subseteq DOMAIN heap /\ c \notin DOMAIN h
      /\ \A m \in DOMAIN h : h[m].kind = heap[m].kind /\ h[m].parts = heap[m].parts
  <2>. DEFINE k == Parting(w)
              E == EndedWith(w)
  <2>1. ASSUME NEW m \in DOMAIN heap
        PROVE  k[m].kind = heap[m].kind /\ k[m].parts = heap[m].parts
    <3>1. heap[m] \in Record
      BY DEF DInv, IsHeap
    <3>2. [heap[m] EXCEPT !.of = None].kind = heap[m].kind
          /\ [heap[m] EXCEPT !.of = None].parts = heap[m].parts
      BY <3>1 DEF Record
    <3>3. k[m] = heap[m] \/ k[m] = [heap[m] EXCEPT !.of = None]
      BY DEF Parting, Live
    <3>. QED  BY <3>2, <3>3
  <2>2. DOMAIN k = DOMAIN heap
    BY DEF Parting, Live
  <2>3. c # None => c \in E
    BY DEF EndedWith
  <2>4. None \notin DOMAIN heap
    BY DEF DInv, IsHeap, None
  <2>5. h = Freed(k, E)
    BY DEF Parted
  <2>. HIDE DEF k, E, h
  <2>6. DOMAIN Freed(k, E) = DOMAIN k \ E /\ \A m \in DOMAIN k \ E : Freed(k, E)[m] = k[m]
    BY FreedIs
  <2>. QED  BY <2>1, <2>2, <2>3, <2>4, <2>5, <2>6
<1>. HIDE DEF h, n
<1>6. IsOutput(f) /\ f.open = <<>> /\ Paused(heap, {c})
  <2>. HIDE DEF c
  <2>. QED  BY <1>3, <1>4, FinalizedIs
<1>7. Paused(h, {})
  BY <1>5, <1>6 DEF Paused
<1>8. Paused(heap', {})
  <2>1. /\ DOMAIN Dictionaries(2) = 1 .. 2 /\ \A i \in 1 .. 2 : Dictionaries(2)[i].kind # "pageContext"
        /\ DOMAIN h \subseteq Live /\ 2 \in 1 .. 3
    BY <1>5, DictionariesAre DEF Live
  <2>. DEFINE rs == Dictionaries(2)
  <2>2. DOMAIN rs = 1 .. 2 /\ \A i \in 1 .. 2 : rs[i].kind # "pageContext"
    BY <2>1
  <2>. HIDE DEF rs
  <2>3. Paused(Created(h, rs), {})
    BY <1>1, <1>7, <2>1, <2>2, CreatedPaused
  <2>. QED  BY <1>2, <2>3 DEF rs
<1>. HIDE DEF f
<1>9. 2 \in 1 .. 2 /\ 1 \in 1 .. 2 /\ Room(1 + 2 - 1)
  BY <1>1
<1>. QED  BY <1>1, <1>6, <1>8, <1>9, BeginsCall

(***************************************************************************)
(* Forms.                                                                  *)
(***************************************************************************)

\* A form, or the form of a modifier, that the program draws on: its stream is open.
LEMMA FormIs ==
    ASSUME DInv, OInv, ~thrown, NEW cl, NEW w \in Of(cl), w.native \in busy,
           heap[w.native].kind \in {"form", "modifier"}
    PROVE  /\ IsOutput(out) /\ OnlyStream(out, PartOf(w.native, "stream"))
           /\ busy = {w.native} /\ w.native \notin Special /\ w.native \in DOMAIN heap
           /\ Paused(heap, {})
<1>. DEFINE c == w.native
            s == PartOf(c, "stream")
<1>1. c \in DOMAIN heap /\ c \notin Special
  <2>1. c \in DOMAIN heap
    BY Used DEF Live
  <2>. QED  BY <2>1, SpecialsDiffer DEF DInv
<1>2. s \in heap[c].parts /\ heap[s].kind = "stream" /\ s \in DOMAIN heap
  <2>1. \A k \in {"formContext", "stream"} :
                 /\ Safe(heap, wrappers, PartOf(c, k))
                 /\ PartOf(c, k) \in heap[c].parts
                 /\ heap[PartOf(c, k)].kind = k
    BY DrawnForm
  <2>. QED  BY <2>1 DEF Safe
<1>3. busy = {c}
  BY DEF DInv, IsBusy
<1>4. Nests(heap, out, busy, event)
  BY DEF OInv
<1>. HIDE DEF c, s
<1>5. DrawnIn(heap, out, c)
  BY <1>1, <1>3, <1>4 DEF Nests, Special
<1>6. OnlyStream(out, s)
  BY <1>2, <1>5 DEF DrawnIn
<1>7. Paused(heap, {})
  <2>1. heap[c].kind # "pageContext"
    BY DEF c
  <2>2. Paused(heap, {c})
    BY <1>3, <1>4 DEF Nests
  <2>. QED  BY <2>1, <2>2 DEF Paused
<1>8. IsOutput(out)
  BY <1>4 DEF Nests
<1>. QED  BY <1>1, <1>3, <1>6, <1>7, <1>8 DEF c, s

LEMMA FormEnds ==
    ASSUME NEW s, IsOutput(out), OnlyStream(out, s)
    PROVE  IsOutput(StreamEnded(out, s)) /\ StreamEnded(out, s).open = <<>>
BY EndingStream DEF OnlyStream

\* The form ends, and the listener is called for its resources.
LEMMA FormEndsInCall ==
    ASSUME DInv, OInv, ~thrown, NEW cl, NEW w \in Of(cl), w.native \in busy,
           heap[w.native].kind \in {"form", "modifier"},
           NEW h, DOMAIN h \subseteq DOMAIN heap, Paused(h, {}), Room(1),
           heap' = Created(h, Dictionaries(1)), busy' = {Listening}, session'.state = "on",
           out' = Begun(StreamEnded(out, PartOf(w.native, "stream")), 1, 1),
           event'.left = Left(1, 1)
    PROVE  OInv'
<1>. DEFINE o == StreamEnded(out, PartOf(w.native, "stream"))
<1>1. IsOutput(o) /\ o.open = <<>>
  BY FormIs, FormEnds
<1>2. Paused(heap', {})
  <2>. DEFINE rs == Dictionaries(1)
  <2>1. DOMAIN rs = 1 .. 1 /\ \A i \in 1 .. 1 : rs[i].kind # "pageContext"
    BY DictionariesAre
  <2>2. DOMAIN h \subseteq Live /\ 1 \in 1 .. 3
    BY DEF Live
  <2>. HIDE DEF rs
  <2>3. Paused(Created(h, rs), {})
    BY <2>1, <2>2, CreatedPaused
  <2>. QED  BY <2>3 DEF rs
<1>3. out' = Begun(o, 1, 1)
  OBVIOUS
<1>. HIDE DEF o
<1>4. 1 \in 1 .. 2 /\ Room(1 + 1 - 1)
  OBVIOUS
<1>. QED  BY <1>1, <1>2, <1>3, <1>4, BeginsCall

LEMMA FormEndNests ==
    ASSUME DInv, OInv, ~thrown, NEW w \in Of("FormXObject"), EndFormXObject(w)
    PROVE  OInv'
<1>1. /\ w.native \in busy /\ Room(1) /\ busy' = {Listening} /\ session'.state = "on"
      /\ heap' = Created(heap, Dictionaries(1))
      /\ out' = Begun(StreamEnded(out, PartOf(w.native, "stream")), 1, 1)
      /\ event'.left = Left(1, 1)
  BY DEF EndFormXObject, IsFree, IsRunning, Called
<1>2. heap[w.native].kind = "form"
  <2>1. /\ w.class = "FormXObject" /\ (w.owns => OwnerFits(heap, w))
        /\ (~w.owns => BorrowerFits(heap, wrappers, w))
    BY Used
  <2>. QED  BY <2>1 DEF OwnerFits, OwnerOf, BorrowerFits, BorrowerOf
<1>3. Paused(heap, {})
  BY <1>1, <1>2, FormIs
<1>. QED  BY <1>1, <1>2, <1>3, FormEndsInCall

\* The modifier's wrapper.
LEMMA ModifierIs ==
    ASSUME DInv, NEW w \in Of("PDFPageModifier")
    PROVE  w.native \in DOMAIN heap /\ heap[w.native].kind = "modifier" /\ heap[w.native] \in Record
<1>1. /\ w.class = "PDFPageModifier" /\ (w.owns => OwnerFits(heap, w))
      /\ (~w.owns => BorrowerFits(heap, wrappers, w))
  BY Used
<1>2. w.native \in DOMAIN heap /\ heap[w.native].kind = "modifier"
  BY <1>1 DEF OwnerFits, OwnerOf, BorrowerFits, BorrowerOf
<1>. QED  BY <1>2 DEF DInv, IsHeap

LEMMA EndsNests ==
    ASSUME DInv, OInv, ~thrown, NEW w \in Of("PDFPageModifier"), busy # {}, busy \subseteq {w.native},
           session.state = "on", NEW call, Ends(w, call)
    PROVE  OInv'
<1>. DEFINE n == w.native
            P == heap[n].parts
            f == Freed(heap, P)
            h == [f EXCEPT ![n].parts = {}]
<1>1. /\ n \in busy /\ Room(1) /\ busy' = {Listening} /\ session'.state = "on"
      /\ heap' = Created(h, Dictionaries(1))
      /\ out' = Begun(StreamEnded(out, PartOf(n, "stream")), 1, 1)
      /\ event'.left = Left(1, 1)
  BY DEF Ends, Called
<1>2. n \in DOMAIN heap /\ heap[n].kind = "modifier" /\ heap[n] \in Record
  BY ModifierIs
<1>3. Paused(heap, {})
  BY <1>1, <1>2, FormIs
<1>4. DOMAIN h \subseteq DOMAIN heap /\ Paused(h, {})
  <2>1. DOMAIN f = DOMAIN heap \ P /\ \A m \in DOMAIN heap \ P : f[m] = heap[m]
    <3>. HIDE DEF P
    <3>. QED  BY FreedIs
  <2>. HIDE DEF P, f, n
  <2>2. DOMAIN h = DOMAIN f /\ (n \in DOMAIN f => h[n].parts = {})
        /\ \A m \in DOMAIN f : m # n => h[m] = f[m]
    BY <1>2, <2>1 DEF Record
  <2>. HIDE DEF h
  <2>. QED  BY <1>3, <2>1, <2>2 DEF Paused
<1>. HIDE DEF h
<1>. QED  BY <1>1, <1>2, <1>3, <1>4, FormEndsInCall

LEMMA ModifiedNests ==
    ASSUME DInv, DInv', OInv, ~thrown, NEW w \in Of("PDFPageModifier"), EndContext(w) \/ WriteModifiedPage(w)
    PROVE  OInv'
<1>1. busy \subseteq {w.native} /\ session.state = "on"
  BY DEF EndContext, WriteModifiedPage, IsFree, IsRunning
<1>2. CASE busy # {}
  <2>1. Ends(w, "write") \/ Ends(w, "modify")
    BY <1>2 DEF EndContext, WriteModifiedPage
  <2>. QED  BY <1>1, <1>2, <2>1, EndsNests
<1>3. CASE busy = {}
  <2>1. heap' = heap /\ Quiet
    BY <1>3 DEF EndContext, WriteModifiedPage, Quiet
  <2>. QED  BY <2>1, QuietStep, SameUndisturbed
<1>. QED  BY <1>2, <1>3

\* A form's context and its stream are new, and the stream is open.
LEMMA FormMadeNests ==
    ASSUME DInv, OInv, ~thrown, CreateFormXObject
    PROVE  OInv'
<1>1. Room(3) /\ busy = {} /\ busy' = {New(1)} /\ session'.state = "on"
  BY DEF CreateFormXObject, IsFree, IsRunning
<1>2. IsOutput(out) /\ out.open = <<>> /\ Paused(heap, {})
  BY <1>1, NothingOpen
<1>. DEFINE a == Native("form", None, {New(2), New(3)})
            b == Native("formContext", New(1), {})
            c == Native("stream", New(1), {})
<1>3. New(1) \in Nat \ {None} /\ New(2) \in Nat \ {None} /\ New(3) \in Nat \ {None}
  BY <1>1, NewAddresses DEF Unused, None
<1>4. /\ a \in Record /\ a.kind = "form" /\ a.parts = {New(2), New(3)}
      /\ b \in Record /\ b.kind = "formContext" /\ c \in Record /\ c.kind = "stream"
  BY <1>3, NativeIs DEF Kinds, None
<1>5. heap' = Created(heap, <<a>> \o <<b, c>>) /\ out' = StreamStarted(ObjectStarted(out), New(3))
  BY DEF CreateFormXObject, FormParts
<1>. HIDE DEF a, b, c
<1>. DEFINE rs == <<a>> \o <<b, c>>
<1>6. /\ DOMAIN rs = 1 .. 3 /\ rs[1] = a /\ rs[2] = b /\ rs[3] = c
      /\ 1 \in 1 .. 3 /\ 2 \in 1 .. 3 /\ 3 \in 1 .. 3
      /\ \A i \in 1 .. 3 : i = 1 \/ i = 2 \/ i = 3
  <2>1. /\ <<b, c>> \in [1 .. 2 -> Record] /\ <<b, c>>[1] = b /\ <<b, c>>[2] = c
        /\ 2 \in Nat /\ 1 \in 1 .. 2 /\ 2 \in 1 .. 2 /\ 1 + 1 = 2 /\ 1 + 2 = 3 /\ 2 + 1 = 3
    BY <1>4
  <2>2. DOMAIN rs = 1 .. 3 /\ rs[1] = a /\ \A i \in 1 .. 2 : rs[1 + i] = <<b, c>>[i]
    BY <1>4, <2>1, Joined
  <2>3. rs[1 + 1] = b /\ rs[1 + 2] = c
    BY <2>1, <2>2
  <2>. QED  BY <2>1, <2>2, <2>3
<1>7. heap' = Created(heap, rs)
  BY <1>5
<1>. HIDE DEF rs
<1>8. \A i \in 1 .. 3 : rs[i] \in Record /\ rs[i].kind # "pageContext"
  BY <1>4, <1>6
<1>9. /\ Grows(heap, heap', NewOnes(3)) /\ IsFresh(heap, wrappers, NewOnes(3))
      /\ heap'[New(1)] = a /\ heap'[New(2)] = b /\ heap'[New(3)] = c
  BY <1>1, <1>6, <1>7, <1>8, Made
<1>10. Paused(heap', {New(1)})
  <2>1. DOMAIN heap \subseteq Live /\ 3 \in 1 .. 3
    BY DEF Live
  <2>2. Paused(heap', {})
    BY <1>1, <1>2, <1>6, <1>7, <1>8, <2>1, CreatedPaused
  <2>. QED  BY <2>2, PausedForAll
<1>11. New(1) \notin Special
  BY <1>3 DEF Special, Own, Listening, Waiting
<1>12. IsOutput(out') /\ OnlyStream(out', New(3))
  <2>. DEFINE p == ObjectStarted(out)
              s == New(3)
  <2>1. IsOutput(p) /\ p.open = <<Object>> /\ s \in Int
    BY <1>2, <1>3, StartingObject
  <2>2. out' = StreamStarted(p, s)
    BY <1>5
  <2>. HIDE DEF p, s
  <2>3. IsOutput(StreamStarted(p, s)) /\ StreamStarted(p, s).open = <<Object, Stream(s)>>
    BY <2>1, StartingStream
  <2>. QED  BY <2>1, <2>2, <2>3 DEF OnlyStream, s
<1>13. DrawnIn(heap', out', New(1))
  BY <1>4, <1>9, <1>12 DEF DrawnIn
<1>. QED  BY <1>1, <1>10, <1>11, <1>12, <1>13, BecomesDrawn

\* The form of a modifier.
LEMMA StartingNests ==
    ASSUME DInv, DInv', OInv, ~thrown, NEW w \in Of("PDFPageModifier"), StartContext(w)
    PROVE  OInv'
<1>1. CASE UNCHANGED <<heap, out, busy>>
  <2>1. heap' = heap /\ Quiet
    BY <1>1 DEF StartContext, Quiet
  <2>. QED  BY <2>1, QuietStep, SameUndisturbed
<1>2. CASE ~UNCHANGED <<heap, out, busy>>
  <2>. DEFINE n == w.native
              a == Native("formContext", n, {})
              b == Native("stream", n, {})
              rs == <<a, b>>
              g == Created(heap, rs)
              s == New(2)
              P == {New(1), New(2)}
  <2>1. /\ Room(2) /\ busy = {} /\ busy' = {n} /\ session'.state = "on"
        /\ heap' = [g EXCEPT ![n].parts = P]
        /\ out' = StreamStarted(ObjectStarted(out), s)
    BY <1>2 DEF StartContext, IsFree, IsRunning
  <2>2. n \in DOMAIN heap /\ heap[n].kind = "modifier" /\ heap[n] \in Record /\ n \notin Special
    BY ModifierIs, SpecialsDiffer DEF DInv
  <2>3. IsOutput(out) /\ out.open = <<>> /\ Paused(heap, {})
    BY <2>1, NothingOpen
  <2>4. DOMAIN rs = 1 .. 2 /\ rs[1].kind = "formContext" /\ rs[2].kind = "stream"
        /\ DOMAIN heap \subseteq Live /\ 2 \in 1 .. 3 /\ 1 \in 1 .. 2 /\ 2 \in 1 .. 2
        /\ \A i \in 1 .. 2 : i = 1 \/ i = 2
    BY DEF Native, Live
  <2>. HIDE DEF rs, n
  <2>5. IsMade(heap, g, rs, 2) /\ New(1) \in Nat /\ New(2) \in Nat
        /\ New(1) \notin DOMAIN heap /\ New(2) \notin DOMAIN heap
    <3>1. \A i \in 1 .. 2 : New(i) \in Unused
      BY <2>1, <2>4, NewAddresses
    <3>2. New(1) \in Unused /\ New(2) \in Unused
      BY <2>4, <3>1
    <3>. QED  BY <2>1, <2>4, <3>2, CreatedIs DEF Unused, Live
  <2>6. \A i \in 1 .. 2 : rs[i].kind # "pageContext"
    BY <2>4
  <2>7. Paused(g, {})
    BY <2>1, <2>3, <2>4, <2>6, CreatedPaused
  <2>8. /\ DOMAIN g = DOMAIN heap \cup {New(1), New(2)} /\ g[n] = heap[n]
        /\ g[New(1)].kind = "formContext" /\ g[New(2)].kind = "stream"
    BY <2>2, <2>4, <2>5 DEF IsMade, NewOnes
  <2>. HIDE DEF g
  <2>9. [g[n] EXCEPT !.parts = P].parts = P /\ [g[n] EXCEPT !.parts = P].kind = heap[n].kind
    BY <2>2, <2>8 DEF Record
  <2>. HIDE DEF P
  <2>10. /\ DOMAIN heap' = DOMAIN g /\ heap'[n].parts = P /\ heap'[n].kind = "modifier"
         /\ \A m \in DOMAIN g : m # n => heap'[m] = g[m]
    BY <2>1, <2>2, <2>8, <2>9
  <2>11. Paused(heap', {n})
    BY <2>7, <2>10 DEF Paused
  <2>12. IsOutput(out') /\ OnlyStream(out', s)
    <3>. DEFINE p == ObjectStarted(out)
    <3>1. IsOutput(p) /\ p.open = <<Object>> /\ s \in Int
      BY <2>3, <2>5, StartingObject
    <3>2. out' = StreamStarted(p, s)
      BY <2>1
    <3>. HIDE DEF p, s
    <3>3. IsOutput(StreamStarted(p, s)) /\ StreamStarted(p, s).open = <<Object, Stream(s)>>
      BY <3>1, StartingStream
    <3>. QED  BY <3>1, <3>2, <3>3 DEF OnlyStream
  <2>13. heap'[New(1)].kind = "formContext" /\ heap'[s].kind = "stream"
    BY <2>2, <2>5, <2>8, <2>10
  <2>14. DrawnIn(heap', out', n)
    BY <2>10, <2>12, <2>13 DEF DrawnIn, P
  <2>. QED  BY <2>1, <2>2, <2>11, <2>12, <2>14, BecomesDrawn
<1>. QED  BY <1>1, <1>2

\* Objects that are written as a whole, up to the first call of the listener.
LEMMA WholeNests ==
    ASSUME DInv, OInv, ~thrown, NEW kind \in {"form", "page"}, NEW k \in 1 .. 2, NEW gives,
           WritesWhole(kind, k, gives)
    PROVE  OInv'
<1>. DEFINE e == Called(IF kind = "page" THEN "page" ELSE "write", Left(2, k),
                        IF gives = {} THEN {New(1)} ELSE {},
                        {Wrap(class, New(1), TRUE, None) : class \in gives})
<1>a. /\ IsFree /\ busy = {} /\ Room(1 + k) /\ UNCHANGED session
      /\ \E works \in Outcomes :
            /\ Throws(~works)
            /\ IF works
               THEN /\ heap' = Created(heap, <<Native(kind, None, {})>> \o Dictionaries(k))
                    /\ out' = Begun(WholeObject(out), 2, k)
                    /\ wrappers' = wrappers \cup {Handed(New(1 + k))}
                    /\ event' = e
                    /\ busy' = {Listening}
               ELSE UNCHANGED <<heap, out, wrappers, event, busy>>
  BY DEF WritesWhole
<1>b. e.left = Left(2, k)
  BY DEF Called
<1>. HIDE DEF e
<1>1. PICK works \in Outcomes :
         /\ IsFree /\ busy = {} /\ Room(1 + k) /\ Throws(~works) /\ UNCHANGED session
         /\ works => /\ heap' = Created(heap, <<Native(kind, None, {})>> \o Dictionaries(k))
                     /\ out' = Begun(WholeObject(out), 2, k)
                     /\ event'.left = Left(2, k) /\ busy' = {Listening}
  <2>1. PICK works \in Outcomes :
           /\ Throws(~works)
           /\ IF works
              THEN /\ heap' = Created(heap, <<Native(kind, None, {})>> \o Dictionaries(k))
                   /\ out' = Begun(WholeObject(out), 2, k)
                   /\ wrappers' = wrappers \cup {Handed(New(1 + k))}
                   /\ event' = e
                   /\ busy' = {Listening}
              ELSE UNCHANGED <<heap, out, wrappers, event, busy>>
    BY <1>a
  <2>. QED  BY <1>a, <1>b, <2>1
<1>2. CASE ~works
  BY <1>1, <1>2 DEF OInv, Throws
<1>3. CASE works
  <2>. DEFINE a == Native(kind, None, {})
              rs == <<a>> \o Dictionaries(k)
  <2>1. a \in Record /\ a.kind = kind
    BY NativeIs DEF Kinds, None
  <2>. HIDE DEF a
  <2>2. /\ DOMAIN rs = 1 .. (k + 1) /\ rs[1] = a
        /\ \A i \in 1 .. k : rs[1 + i] = Dictionaries(k)[i]
    <3>. DEFINE f == Dictionaries(k)
    <3>1. f \in [1 .. k -> Record]
      BY DictionariesAre, Zenon
    <3>2. k \in Nat
      OBVIOUS
    <3>. HIDE DEF f, rs
    <3>3. /\ DOMAIN (<<a>> \o f) = 1 .. (k + 1) /\ (<<a>> \o f)[1] = a
          /\ \A i \in 1 .. k : (<<a>> \o f)[1 + i] = f[i]
      BY <2>1, <3>1, <3>2, Joined
    <3>. QED  BY <3>3 DEF f, rs
  <2>3. heap' = Created(heap, rs)
    BY <1>1, <1>3 DEF a
  <2>. HIDE DEF rs
  <2>4. \A i \in 1 .. (k + 1) : rs[i].kind # "pageContext"
    <3>1. ASSUME NEW i \in 1 .. (k + 1), i # 1
          PROVE  rs[i].kind # "pageContext"
      <4>1. i - 1 \in 1 .. k /\ 1 + (i - 1) = i
        BY <3>1
      <4>2. rs[i] = Dictionaries(k)[i - 1]
        BY <2>2, <4>1
      <4>. QED  BY <4>1, <4>2, DictionariesAre
    <3>. QED  BY <2>1, <2>2, <3>1
  <2>5. k + 1 \in 1 .. 3 /\ 1 + k = k + 1 /\ 2 \in 1 .. 2 /\ 2 + k - 1 = k + 1
        /\ DOMAIN heap \subseteq Live
    BY DEF Live
  <2>6. IsOutput(out) /\ out.open = <<>> /\ Paused(heap, {})
    BY <1>1, NothingOpen
  <2>7. Paused(heap', {}) /\ Room(k + 1)
    BY <1>1, <2>2, <2>3, <2>4, <2>5, <2>6, CreatedPaused
  <2>8. out' = Begun(out, 2, k)
    BY <1>1, <1>3, <2>6, WholeIs
  <2>9. session'.state = "on"
    BY <1>1 DEF IsFree, IsRunning
  <2>. QED  BY <1>1, <1>3, <2>5, <2>6, <2>7, <2>8, <2>9, BeginsCall
<1>. QED  BY <1>2, <1>3

LEMMA WholesNest ==
    ASSUME DInv, OInv, ~thrown, WritesObjectsWhole
    PROVE  OInv'
<1>1. PICK kind \in {"form", "page"}, k \in 1 .. 2, gives \in SUBSET {"FormXObject"} :
         WritesWhole(kind, k, gives)
  <2>1. CASE CreateFormXObjectFromJPG \/ CreateFormXObjectFromPNG \/ CreateFormXObjectFromTIFF
    <3>1. WritesWhole("form", 1, {"FormXObject"})
      BY <2>1 DEF CreateFormXObjectFromJPG, CreateFormXObjectFromPNG, CreateFormXObjectFromTIFF
    <3>. QED  BY <3>1
  <2>2. CASE CreateFormXObjectsFromPDF
    <3>1. WritesWhole("form", 1, {})
      BY <2>2 DEF CreateFormXObjectsFromPDF
    <3>. QED  BY <3>1
  <2>3. CASE AppendPDFPagesFromPDF
    <3>1. WritesWhole("page", 2, {})
      BY <2>3 DEF AppendPDFPagesFromPDF
    <3>. QED  BY <3>1
  <2>4. ASSUME NEW x \in Of("DocumentCopyingContext"),
               CreateFormXObjectFromPDFPage(x) \/ AppendPDFPageFromPDF(x)
        PROVE  WritesWhole("form", 1, {}) \/ WritesWhole("page", 2, {})
    BY <2>4 DEF CreateFormXObjectFromPDFPage, AppendPDFPageFromPDF
  <2>. QED  BY <2>1, <2>2, <2>3, <2>4 DEF WritesObjectsWhole
<1>. QED  BY <1>1, WholeNests

(***************************************************************************)
(* The session, and the calls that wait for the listener.                  *)
(***************************************************************************)

\* A writer is made when there is none, and then nothing is open.
LEMMA StartsNest ==
    ASSUME DInv, OInv, ~thrown, NEW modifies \in BOOLEAN, NEW k \in 0 .. 2, Starts(modifies, k)
    PROVE  OInv'
<1>. DEFINE a == Native("writer", None, Proxies(k))
            p == Native("proxy", New(1), {})
<1>1. /\ session.writer = None /\ Room(1 + k)
      /\ heap' = Created(heap, <<a>> \o [i \in 1 .. k |-> p])
      /\ UNCHANGED <<busy, event>> /\ out' = [open |-> <<>>, sound |-> out.sound]
  BY DEF Starts, Proxies
<1>2. PICK works \in Outcomes : session'.state = (IF works THEN "on" ELSE "failed") /\ Throws(~works)
  BY DEF Starts
<1>3. ~WriterHeld(wrappers)
  <2>1. ASSUME NEW v \in wrappers, v.class = "PDFWriter"
        PROVE  FALSE
    <3>1. v.owns /\ v.native = None
      BY <1>1, <2>1 DEF DInv, IsSession
    <3>2. v.native \in DOMAIN heap
      BY <3>1 DEF DInv, IsWrapped, OwnerFits
    <3>. QED  BY <3>1, <3>2 DEF DInv, IsHeap, None
  <2>. QED  BY <2>1 DEF WriterHeld
<1>4. /\ busy = {} /\ event = NoEvent /\ IsOutput(out) /\ out.open = <<>>
      /\ Nests(heap, out, {}, NoEvent)
  BY <1>3, WithoutWriter
<1>5. New(1) \in Nat \ {None} /\ Proxies(k) \in SUBSET (Nat \ {None}) /\ None \in Nat
  BY <1>1, ProxiesAre DEF None
<1>6. a \in Record /\ a.kind = "writer" /\ p \in Record /\ p.kind = "proxy"
  BY <1>5, NativeIs DEF Kinds
<1>. HIDE DEF a, p
<1>7. IsMadeWith(heap', a, p, k)
  BY <1>1, <1>6, MadeWith
<1>8. Paused(heap', {})
  <2>1. /\ DOMAIN heap' = DOMAIN heap \cup ({New(1)} \cup Proxies(k))
        /\ \A m \in DOMAIN heap : heap'[m] = heap[m]
        /\ heap'[New(1)] = a /\ \A q \in Proxies(k) : heap'[q] = p
    BY <1>7 DEF IsMadeWith, Grows
  <2>2. Paused(heap, {})
    BY <1>4 DEF Nests
  <2>. QED  BY <1>6, <2>1, <2>2 DEF Paused
<1>9. IsOutput(out') /\ out'.open = <<>>
  BY <1>1, <1>4 DEF IsOutput
<1>10. CASE works
  BY <1>1, <1>2, <1>4, <1>8, <1>9, <1>10, BecomesIdle
<1>11. CASE ~works
  BY <1>2, <1>11 DEF OInv, Throws
<1>. QED  BY <1>10, <1>11

LEMMA WritersNest ==
    ASSUME DInv, OInv, ~thrown, CreateWriter \/ CreateWriterToContinue \/ CreateWriterToModify
    PROVE  OInv'
<1>1. PICK modifies \in BOOLEAN : \E k \in 0 .. 2 : Starts(modifies, k)
  <2>1. {0, 1} \subseteq 0 .. 2 /\ {0, 2} \subseteq 0 .. 2
    OBVIOUS
  <2>2. CASE CreateWriter
    BY <2>1, <2>2 DEF CreateWriter
  <2>3. CASE CreateWriterToContinue
    BY <2>1, <2>3 DEF CreateWriterToContinue
  <2>4. CASE CreateWriterToModify
    BY <2>1, <2>4 DEF CreateWriterToModify
  <2>. QED  BY <2>2, <2>3, <2>4
<1>2. PICK k \in 0 .. 2 : Starts(modifies, k)
  BY <1>1
<1>. QED  BY <1>2, StartsNest

LEMMA ShutdownNests ==
    ASSUME DInv, OInv, ~thrown, Shutdown
    PROVE  OInv'
<1>1. /\ busy = {} /\ event = NoEvent /\ UNCHANGED <<heap, out, busy, event>>
  BY DEF Shutdown, IsFree
<1>2. PICK works \in Outcomes :
         /\ session' = [session EXCEPT !.state = IF works THEN "over" ELSE "failed"]
         /\ Throws(~works)
  BY DEF Shutdown
<1>3. IsOutput(out) /\ out.open = <<>> /\ Paused(heap, {})
  BY <1>1, NothingOpen
<1>4. CASE works
  <2>1. session'.state = "over"
    BY <1>2, <1>4 DEF DInv, IsSession
  <2>. QED  BY <1>1, <1>3, <2>1, BecomesIdle
<1>5. CASE ~works
  BY <1>2, <1>5 DEF OInv, Throws
<1>. QED  BY <1>4, <1>5

\* The catalog, or the tables of a modified file that has no new one.
LEMMA EndNests ==
    ASSUME DInv, OInv, ~thrown, End
    PROVE  OInv'
<1>1. busy = {} /\ session'.state = "on"
  BY DEF End, IsFree, IsRunning
<1>2. IsOutput(out) /\ out.open = <<>> /\ Paused(heap, {})
  BY <1>1, NothingOpen
<1>3. CASE /\ Room(1) /\ heap' = Created(heap, <<Native("dictionary", None, {})>>)
           /\ out' = DictionaryStarted(ObjectStarted(out), New(1))
           /\ event' = Called("end", <<New(1)>>, {}, {}) /\ busy' = {Listening}
  <2>. DEFINE rs == <<Native("dictionary", None, {})>>
  <2>1. DOMAIN rs = 1 .. 1 /\ \A i \in 1 .. 1 : rs[i].kind # "pageContext"
    BY OneDictionaryIs
  <2>2. DOMAIN heap \subseteq Live /\ 1 \in 1 .. 3 /\ 1 \in 1 .. 2 /\ Room(1 + 1 - 1)
    BY <1>3 DEF Live
  <2>. HIDE DEF rs
  <2>3. Paused(Created(heap, rs), {})
    BY <1>2, <1>3, <2>1, <2>2, CreatedPaused
  <2>4. Paused(heap', {})
    BY <1>3, <2>3 DEF rs
  <2>5. out' = Begun(out, 1, 1) /\ event'.left = Left(1, 1)
    BY <1>3 DEF Begun, Left, Called
  <2>. QED  BY <1>1, <1>2, <1>3, <2>2, <2>4, <2>5, BeginsCall
<1>4. CASE event' = Called("end", <<>>, {}, {}) /\ busy' = {Waiting} /\ UNCHANGED <<heap, out>>
  <2>1. WaitedFor(out', event')
    BY <1>2, <1>4 DEF WaitedFor, Called
  <2>. QED  BY <1>1, <1>2, <1>4, <2>1, BecomesWaiting
<1>. QED  BY <1>3, <1>4 DEF End

\* A call whose listener has completed everything waits, with its object open or, at the
\* end, with nothing.
LEMMA WaitingIs ==
    ASSUME DInv, OInv, ~thrown, event.call \in {"write", "page", "modify", "end"}, event.left = <<>>
    PROVE  /\ IsOutput(out) /\ Paused(heap, {}) /\ session.state = "on"
           /\ out.open = <<Object>> \/ (event.call = "end" /\ out.open = <<>>)
<1>1. event # NoEvent
  BY DEF NoEvent
<1>2. Nests(heap, out, busy, event) /\ session.state = "on" /\ busy \in {{Listening}, {Waiting}}
  BY <1>1 DEF OInv, IsOn, DInv, IsBusy
<1>3. busy = {Waiting}
  BY <1>2 DEF Nests, ListenedTo
<1>4. Paused(heap, {})
  BY <1>3, NoneDrawnNow DEF Special
<1>. QED  BY <1>2, <1>3, <1>4 DEF Nests, WaitedFor

LEMMA EndIsOver ==
    ASSUME DInv, OInv, ~thrown, FinishEnd
    PROVE  OInv'
<1>1. event.call = "end" /\ event.left = <<>> /\ event' = NoEvent /\ busy' = {}
  BY DEF FinishEnd
<1>2. IsOutput(out) /\ Paused(heap, {}) /\ (out.open = <<Object>> \/ out.open = <<>>)
  BY <1>1, WaitingIs
<1>3. IsOutput(out') /\ out'.open = <<>>
  <2>1. out' = IF out.open = <<>> THEN WholeObject(out) ELSE ObjectEnded(out)
    BY DEF FinishEnd
  <2>2. CASE out.open = <<>>
    BY <1>2, <2>1, <2>2, WholeIs
  <2>3. CASE out.open # <<>>
    BY <1>2, <2>1, <2>3, EndingObject
  <2>. QED  BY <2>2, <2>3
<1>4. PICK works \in Outcomes :
        /\ heap' = IF works
                   THEN [Freed(CleanedUp(heap), heap[session.writer].parts \ Fonts)
                            EXCEPT ![session.writer].parts = {}]
                   ELSE CleanedUp(heap)
        /\ session' = [session EXCEPT !.state = IF works THEN "over" ELSE "failed"]
        /\ Throws(~works)
  BY DEF FinishEnd
<1>5. Paused(heap', {})
  <2>1. WriterHeld(wrappers)
    <3>1. event # NoEvent
      BY <1>1 DEF NoEvent
    <3>. QED  BY <3>1, WhenRunning
  <2>2. Remains(heap')
    BY <1>4, <2>1, RemainsOf
  <2>. QED  BY <1>2, <2>2 DEF Remains, Paused
<1>6. CASE works
  <2>1. session'.state = "over"
    BY <1>4, <1>6 DEF DInv, IsSession
  <2>. QED  BY <1>1, <1>3, <1>5, <2>1, BecomesIdle
<1>7. CASE ~works
  BY <1>4, <1>7 DEF OInv, Throws
<1>. QED  BY <1>6, <1>7

\* The object of the call is complete.
LEMMA ReturningNests ==
    ASSUME DInv, OInv, ~thrown, CallReturns
    PROVE  OInv'
<1>1. /\ event.call \in {"write", "page"} /\ event.left = <<>> /\ event' = NoEvent /\ busy' = {}
      /\ out' = ObjectEnded(out) /\ heap' = Freed(heap, event.frees) /\ session' = session
  BY DEF CallReturns
<1>2. IsOutput(out) /\ Paused(heap, {}) /\ session.state = "on" /\ out.open = <<Object>>
  BY <1>1, WaitingIs
<1>3. IsOutput(out') /\ out'.open = <<>>
  BY <1>1, <1>2, EndingObject
<1>4. Paused(heap', {})
  <2>. DEFINE F == event.frees
              g == Freed(heap, F)
  <2>1. DOMAIN g = DOMAIN heap \ F /\ \A m \in DOMAIN heap \ F : g[m] = heap[m]
    <3>. HIDE DEF F
    <3>. QED  BY FreedIs
  <2>. HIDE DEF F, g
  <2>2. Paused(g, {})
    BY <1>2, <2>1 DEF Paused
  <2>. QED  BY <1>1, <2>2 DEF g, F
<1>. QED  BY <1>1, <1>2, <1>3, <1>4, BecomesIdle

\* The object of a modified page follows that of its form.
LEMMA FollowingNests ==
    ASSUME DInv, OInv, ~thrown, PageFollows
    PROVE  OInv'
<1>1. /\ event.call = "modify" /\ event.left = <<>> /\ event' = NoEvent /\ busy' = {}
      /\ out' = WholeObject(ObjectEnded(out)) /\ heap' = heap /\ session' = session
  BY DEF PageFollows
<1>2. IsOutput(out) /\ Paused(heap, {}) /\ session.state = "on" /\ out.open = <<Object>>
  BY <1>1, WaitingIs
<1>3. IsOutput(ObjectEnded(out)) /\ ObjectEnded(out).open = <<>>
  BY <1>2, EndingObject
<1>4. IsOutput(out') /\ out'.open = <<>>
  BY <1>1, <1>3, WholeIs
<1>. QED  BY <1>1, <1>2, <1>4, BecomesIdle

\* The dictionary that the listener was handed is the innermost one, and ends.
LEMMA ListenerNests ==
    ASSUME DInv, OInv, ~thrown, ListenerIsDone, ListenerReturns
    PROVE  OInv'
<1>. DEFINE left == event.left
            d == Head(left)
            rest == Tail(left)
            p == Closed(out, Dictionary(d))
<1>0. /\ left # <<>> /\ Top(out)[1] = "dictionary" /\ InnermostDictionary(out) = d
      /\ heap' = Freed(heap, {d}) /\ out' = p
      /\ event' = [event EXCEPT !.left = rest]
      /\ busy' = IF rest = <<>> THEN {Waiting} ELSE {Listening}
      /\ session' = session
  BY DEF ListenerReturns, ListenerIsDone
<1>1. /\ left \in Seq(Nat)
      /\ event \in [call : {"none", "write", "page", "modify", "end"}, left : Seq(Nat), frees : SUBSET Nat,
                    gives : SUBSET Wrapper]
  BY DEF DInv, IsEvent
<1>2. event # NoEvent
  BY <1>0 DEF NoEvent
<1>3. Nests(heap, out, busy, event) /\ session.state = "on" /\ busy \in {{Listening}, {Waiting}}
  BY <1>2 DEF OInv, IsOn, DInv, IsBusy
<1>4. busy = {Listening} /\ ListenedTo(out, left) /\ IsOutput(out)
  <2>1. {Listening} # {Waiting}
    BY SpecialsDiffer
  <2>. QED  BY <1>0, <1>3, <2>1 DEF Nests, WaitedFor
<1>5. Paused(heap, {})
  BY <1>4, NoneDrawnNow DEF Special
<1>6. Paused(heap', {})
  <2>. DEFINE F == {d}
              g == Freed(heap, F)
  <2>1. DOMAIN g = DOMAIN heap \ F /\ \A m \in DOMAIN heap \ F : g[m] = heap[m]
    <3>. HIDE DEF F
    <3>. QED  BY FreedIs
  <2>2. heap' = g
    BY <1>0
  <2>. HIDE DEF F, g
  <2>3. Paused(g, {})
    BY <1>5, <2>1 DEF Paused
  <2>. QED  BY <2>2, <2>3
<1>7. Top(out) = Dictionary(d)
  BY <1>0, <1>4, InnermostIs
<1>8. event'.left = rest
  BY <1>0, <1>1
<1>9. out' = p /\ session'.state = "on" /\ busy' = IF rest = <<>> THEN {Waiting} ELSE {Listening}
  BY <1>0, <1>3
<1>. HIDE DEF left
<1>10. IsOutput(p) /\ (rest = <<>> => p.open = <<Object>>) /\ (rest # <<>> => ListenedTo(p, rest))
  BY <1>1, <1>4, <1>7, ListenedCompletes
<1>. HIDE DEF rest, p
<1>11. CASE rest = <<>>
  <2>1. WaitedFor(out', event')
    BY <1>8, <1>9, <1>10, <1>11 DEF WaitedFor
  <2>. QED  BY <1>6, <1>9, <1>10, <1>11, <2>1, BecomesWaiting
<1>12. CASE rest # <<>>
  BY <1>6, <1>8, <1>9, <1>10, <1>12, BecomesListening
<1>. QED  BY <1>11, <1>12

(***************************************************************************)
(* All steps.                                                              *)
(***************************************************************************)
LEMMA PagesNest ==
    ASSUME OwnersOnly, DInv, DInv', OInv, ~thrown, DrawsPages
    PROVE  OInv'
<1>1. CASE CreatePage
  BY <1>1, PageNests
<1>2. ASSUME NEW w \in Of("PDFPage"),
             \/ UsePage(w) \/ StartPageContentContext(w)
             \/ WritePageAndReturnID(w) \/ MergePDFPagesToPage(w)
      PROVE  OInv'
  <2>1. CASE UsePage(w)
    BY <2>1, LookingNests DEF Uses
  <2>2. CASE StartPageContentContext(w)
    BY <2>2, ContextNests
  <2>3. CASE WritePageAndReturnID(w)
    BY <2>3, WritingPageNests
  <2>4. CASE MergePDFPagesToPage(w)
    BY <2>4, MergingNests DEF MergePDFPagesToPage
  <2>. QED  BY <1>2, <2>1, <2>2, <2>3, <2>4
<1>3. ASSUME NEW x \in Of("PageContentContext"),
             \/ GetAssociatedPage(x) \/ DrawOnPage(x)
             \/ GetCurrentPageContentStream(x) \/ PausePageContentContext(x)
      PROVE  OInv'
  <2>1. CASE GetAssociatedPage(x)
    BY <2>1, LookingNests DEF Gets
  <2>2. CASE DrawOnPage(x) \/ GetCurrentPageContentStream(x)
    BY <2>2, DrawingNests
  <2>3. CASE PausePageContentContext(x)
    BY <2>3, PausingNests
  <2>. QED  BY <1>3, <2>1, <2>2, <2>3
<1>4. CASE AppendPDFPagesFromPDF
  BY <1>4, WholesNest DEF WritesObjectsWhole
<1>5. CASE AttachURLLinktoCurrentPage
  BY <1>5, LookingNests DEF Looks
<1>. QED  BY <1>1, <1>2, <1>3, <1>4, <1>5 DEF DrawsPages

LEMMA FormsNest ==
    ASSUME DInv, DInv', OInv, ~thrown, DrawsForms
    PROVE  OInv'
<1>1. CASE CreateFormXObject
  BY <1>1, FormMadeNests
<1>2. ASSUME NEW w \in Of("FormXObject"),
             UseForm(w) \/ GetContentContext(w) \/ GetContentStream(w) \/ EndFormXObject(w)
      PROVE  OInv'
  <2>1. CASE UseForm(w)
    BY <2>1, LookingNests DEF Uses
  <2>2. CASE GetContentContext(w) \/ GetContentStream(w)
    BY <2>2, LookingNests DEF Gets
  <2>3. CASE EndFormXObject(w)
    BY <2>3, FormEndNests
  <2>. QED  BY <1>2, <2>1, <2>2, <2>3
<1>3. CASE \E x \in Of("XObjectContentContext") : DrawOnForm(x)
  BY <1>3, LookingNests DEF Gets
<1>4. CASE CreateFormXObjectsFromPDF
  BY <1>4, WholesNest DEF WritesObjectsWhole
<1>. QED  BY <1>1, <1>2, <1>3, <1>4 DEF DrawsForms

LEMMA ImagesNest ==
    ASSUME DInv, DInv', OInv, ~thrown, UsesImages
    PROVE  OInv'
<1>1. CASE CreateFormXObjectFromJPG \/ CreateFormXObjectFromPNG \/ CreateFormXObjectFromTIFF
  BY <1>1, WholesNest DEF WritesObjectsWhole
<1>2. CASE CreateImageXObjectFromJPG
  BY <1>2, ImageNests
<1>3. CASE \/ \E w \in Of("ImageXObject") : UseImage(w)
           \/ \E x \in Of("UsedFont") : UseFont(x)
  BY <1>3, LookingNests DEF Uses
<1>4. CASE GetFontForFile
  BY <1>4, FontNests
<1>. QED  BY <1>1, <1>2, <1>3, <1>4 DEF UsesImages

LEMMA FilesNest ==
    ASSUME OwnersOnly, DInv, DInv', OInv, ~thrown, UsesFiles
    PROVE  OInv'
<1>1. CASE \E class \in {"InputFile", "OutputFile"} : NewFile(class)
  BY <1>1, FileNests
<1>2. ASSUME NEW w \in Of("InputFile") \cup Of("OutputFile"), OpenFile(w) \/ CloseFile(w)
      PROVE  OInv'
  BY <1>2, OpeningNests, ClosingNests
<1>3. CASE \/ \E w \in Of("InputFile") \cup Of("OutputFile") : GetFileStream(w)
           \/ \E class \in {"InputFile", "OutputFile"} : GetMember(class)
  <2>1. Gets
    BY <1>3 DEF Gets
  <2>. QED  BY <2>1, LookingNests
<1>4. CASE \E x \in Of("ByteReaderWithPosition") \cup Of("ByteWriterWithPosition") : UseFileStream(x)
  BY <1>4, LookingNests DEF Uses
<1>. QED  BY <1>1, <1>2, <1>3, <1>4 DEF UsesFiles

LEMMA ReadsNest ==
    ASSUME DInv, DInv', OInv, ~thrown, Reads \/ Parses
    PROVE  OInv'
<1>1. CASE CreateReader
  BY <1>1, ReaderNests
<1>2. CASE GetMember("PDFReader") \/ \E w \in Of("PDFReader") : GetParserStream(w)
  <2>1. Gets
    BY <1>2 DEF Gets
  <2>. QED  BY <2>1, LookingNests
<1>3. CASE \/ \E w \in Of("PDFReader") : ParseObjects(w) \/ QueryReader(w)
           \/ \E w \in Of("PDFPageInput") : UsePageInput(w)
           \/ \E w \in Of("ByteReader") : ReadDecoded(w)
  BY <1>3, LookingNests DEF Uses
<1>4. ASSUME NEW w \in Of("PDFReader"), ParsePage(w) \/ StartReadingFromStream(w)
      PROVE  OInv'
  BY <1>4, DerivedNests DEF ParsePage, StartReadingFromStream
<1>. QED  BY <1>1, <1>2, <1>3, <1>4 DEF Reads, Parses

LEMMA CopiesAllNest ==
    ASSUME DInv, DInv', OInv, ~thrown, CopiesObjects
    PROVE  OInv'
<1>1. CASE CreatePDFCopyingContext \/ CreatePDFCopyingContextForModifiedFile
  BY <1>1, CopyingNests
<1>2. ASSUME NEW x \in Of("DocumentCopyingContext"),
             \/ CreateFormXObjectFromPDFPage(x) \/ AppendPDFPageFromPDF(x)
             \/ \E w \in Of("PDFPage") : MergePDFPageToPage(x, w)
             \/ \E f \in Of("FormXObject") : MergePDFPageToFormXObject(x, f)
             \/ GetSourceDocumentParser(x) \/ GetSourceDocumentStream(x)
             \/ CopyObject(x) \/ CopyNewObjectsForDirectObject(x)
             \/ CopyDirectObject(x) \/ UseCopiedObjects(x)
      PROVE  OInv'
  <2>1. CASE CreateFormXObjectFromPDFPage(x) \/ AppendPDFPageFromPDF(x)
    BY <2>1, WholesNest DEF WritesObjectsWhole
  <2>2. ASSUME NEW w \in Of("PDFPage"), MergePDFPageToPage(x, w)
        PROVE  OInv'
    BY <2>2, MergingNests DEF MergePDFPageToPage
  <2>3. ASSUME NEW f \in Of("FormXObject"), MergePDFPageToFormXObject(x, f)
        PROVE  OInv'
    BY <2>3, MergedNests
  <2>4. CASE GetSourceDocumentParser(x) \/ GetSourceDocumentStream(x)
    BY <2>4, LookingNests DEF Gets
  <2>5. CASE CopyObject(x) \/ CopyNewObjectsForDirectObject(x) \/ CopyDirectObject(x)
    BY <2>5, LookingNests DEF Looks
  <2>6. CASE UseCopiedObjects(x)
    BY <2>6, LookingNests DEF Uses
  <2>. QED  BY <1>2, <2>1, <2>2, <2>3, <2>4, <2>5, <2>6
<1>. QED  BY <1>1, <1>2 DEF CopiesObjects

LEMMA ModifiesNest ==
    ASSUME DInv, DInv', OInv, ~thrown, ModifiesPages
    PROVE  OInv'
<1>1. CASE NewModifier
  BY <1>1, PageNests
<1>2. ASSUME NEW w \in Of("PDFPageModifier"), StartContext(w) \/ EndContext(w) \/ WriteModifiedPage(w)
      PROVE  OInv'
  BY <1>2, StartingNests, ModifiedNests
<1>3. CASE \/ \E w \in Of("PDFPageModifier") : GetContext(w)
           \/ \E x \in Of("XObjectContentContext") : DrawOnForm(x)
  BY <1>3, LookingNests DEF Gets
<1>4. CASE \E w \in Of("PDFPageModifier") : AttachURLLinkToModifiedPage(w)
  BY <1>4, LookingNests DEF Looks
<1>. QED  BY <1>1, <1>2, <1>3, <1>4 DEF ModifiesPages

LEMMA CallsNest ==
    ASSUME OwnersOnly, DInv, DInv', OInv, ~thrown, program.nests, Calls
    PROVE  OInv'
<1>1. CASE CreateWriter \/ CreateWriterToContinue \/ CreateWriterToModify
  BY <1>1, WritersNest
<1>2. CASE Shutdown \/ End \/ FinishEnd \/ CallReturns \/ PageFollows
  BY <1>2, ShutdownNests, EndNests, EndIsOver, ReturningNests, FollowingNests
<1>a. CASE ListenerIsDone /\ ListenerReturns
  BY <1>a, ListenerNests
<1>3. CASE WritesObjects
  BY <1>3, ObjectsNest
<1>4. CASE DrawsPages
  BY <1>4, PagesNest
<1>5. CASE DrawsForms
  BY <1>5, FormsNest
<1>6. CASE UsesImages
  BY <1>6, ImagesNest
<1>7. CASE UsesFiles
  BY <1>7, FilesNest
<1>8. CASE Reads \/ Parses
  BY <1>8, ReadsNest
<1>9. CASE CopiesObjects
  BY <1>9, CopiesAllNest
<1>10. CASE ModifiesPages
  BY <1>10, ModifiesNest
<1>. QED  BY <1>1, <1>2, <1>a, <1>3, <1>4, <1>5, <1>6, <1>7, <1>8, <1>9, <1>10 DEF Calls

LEMMA StepsNest ==
    ASSUME OwnersOnly, DInv, OInv, program.nests, [Next]_vars
    PROVE  OInv'
<1>1. DInv'
  BY StepsKeep
<1>2. CASE UNCHANGED vars
  BY <1>2 DEF vars, OInv
<1>3. CASE ~thrown /\ Calls
  BY <1>1, <1>3, CallsNest
<1>4. ASSUME NEW w \in wrappers, LetGoOf(w)
      PROVE  OInv'
  BY <1>1, <1>4, LettingGoNests
<1>5. ASSUME NEW w \in wrappers, Collect(w)
      PROVE  OInv'
  <2>1. UNCHANGED <<out, busy, event>>
    BY <1>5 DEF Collect
  <2>. QED  BY <1>1, <1>5, <2>1, CollectingWriterNests, CollectingNests DEF Collect
<1>. QED  BY <1>2, <1>3, <1>4, <1>5 DEF Next

LEMMA InitNests == Init => OInv
<1>. SUFFICES ASSUME Init
              PROVE  OInv
  OBVIOUS
<1>1. /\ DOMAIN heap = {} /\ out = [open |-> <<>>, sound |-> TRUE] /\ busy = {} /\ event = NoEvent
      /\ session.state = "none"
  BY DEF Init
<1>2. IsOutput(out) /\ out.open = <<>>
  BY <1>1 DEF IsOutput
<1>3. Paused(heap, {})
  BY <1>1 DEF Paused
<1>. QED  BY <1>1, <1>2, <1>3 DEF OInv, Nests, IsOn

NInv == program.nests => OInv

LEMMA NestsImplies ==
    ASSUME NInv
    PROVE  OutputNests
<1>1. ASSUME ~thrown, program.nests
      PROVE  out.sound /\ (session.state = "over" => out.open = <<>>)
  <2>1. Nests(heap, out, busy, event) /\ IsOn(session, busy, event)
    BY <1>1 DEF NInv, OInv
  <2>. QED  BY <2>1 DEF Nests, IsOn, IsOutput
<1>. QED  BY <1>1 DEF OutputNests

\* A program stays one that nests what it writes.
LEMMA SameProgram == [Next]_vars => program' = program
BY DEF Next, vars

\* What the program writes and what the library writes follow each other as whole objects,
\* with streams and dictionaries properly within each other, and nothing is open when the
\* writer has ended: for any programs that end what they start in the dictionaries they are
\* handed, any bounds and any depth, as long as pages are written, and files opened, by the
\* wrappers that own them.
THEOREM OutputIsWhole ==
    ASSUME OwnersOnly
    PROVE  Spec => []OutputNests
<1>1. Init => DInv /\ NInv
  BY InitSound, InitNests DEF NInv
<1>2. DInv /\ NInv /\ [Next]_vars => (DInv /\ NInv)'
  BY StepsKeep, StepsNest, SameProgram DEF NInv
<1>3. NInv => OutputNests
  BY NestsImplies
<1>. QED  BY <1>1, <1>2, <1>3, PTL DEF Spec

-----------------------------------------------------------------------------
(***************************************************************************)
(* Nothing is forgotten: whatever exists will be deleted by the destructor *)
(* of a wrapper, by the dictionary's end, by the call that waits or when   *)
(* its page is written.                                                    *)
(***************************************************************************)
IsDeleted(h, ws, n) == \E w \in ws : n \in DeletesIn(h, w)
IsOpen(o, n) == \E i \in DOMAIN o.open : o.open[i] = Dictionary(n)
Due(e) == IF e.call \in {"write", "page"} THEN e.frees \cup {g.native : g \in e.gives} ELSE {}
HasPage(ws, c) == \E w \in ws : w.owns /\ w.held /\ w.class = "PDFPage" /\ w.also = c
IsDrawn(h, n) == \E c \in DOMAIN h : h[c].kind = "pageContext" /\ n \in h[c].parts

IsKept(h, ws, e, o, n) ==
    \/ IsDeleted(h, ws, n)
    \/ h[n].kind = "dictionary" /\ IsOpen(o, n)
    \/ n \in Due(e)
    \/ h[n].kind = "pageContext" /\ HasPage(ws, n)
    \/ IsDrawn(h, n)

\* A modifier has no form while the program does not draw on it.
Ended(h, b) == \A n \in DOMAIN h : h[n].kind = "modifier" /\ n \notin b => h[n].parts = {}

\* Everything is kept for something.
Accounted(h, ws, e, o, b) == (\A n \in DOMAIN h : IsKept(h, ws, e, o, n)) /\ Ended(h, b)

LInv == ~thrown => Accounted(heap, wrappers, event, out, busy)

-----------------------------------------------------------------------------
(***************************************************************************)
(* A step that keeps what is kept.                                         *)
(***************************************************************************)
\* What stays is deleted with what it was a part of.
ObjectsStay(h, g) ==
    /\ \A n \in DOMAIN h : n \in DOMAIN g =>
          /\ g[n].kind = h[n].kind
          /\ OwnedIn(h, n) \cap DOMAIN g \subseteq OwnedIn(g, n)
          /\ h[n].kind = "pageContext" => h[n].parts \cap DOMAIN g \subseteq g[n].parts
    /\ \A n \in DOMAIN h : n \notin DOMAIN g /\ h[n].kind = "pageContext" =>
          h[n].parts \cap DOMAIN g = {}

\* A wrapper that deletes the same, and is the wrapper of the same page.
Follows(g, w, v) ==
    /\ v.owns /\ v.native = w.native /\ v.class = w.class /\ w.native \in DOMAIN g
    /\ w.class \in WithProxy => v.also = w.also
    /\ w.class = "PDFPage" /\ w.held /\ w.also \in DOMAIN g => v.held /\ v.also = w.also
OwnersStay(h, ws, g, vs) ==
    \A w \in ws : w.owns =>
       /\ w.native \in DOMAIN h
       /\ \/ \E v \in vs : Follows(g, w, v)
          \/ DeletesIn(h, w) \cap DOMAIN g = {} /\ ~w.held

DueStay(e, g, vs, f) == \A n \in Due(e) : n \in DOMAIN g => n \in Due(f) \/ IsDeleted(g, vs, n)
OpenStay(h, o, g, q) ==
    \A n \in DOMAIN h : n \in DOMAIN g /\ h[n].kind = "dictionary" /\ IsOpen(o, n) => IsOpen(q, n)
EndedStay(h, b, g, c) ==
    \A n \in DOMAIN h : n \in DOMAIN g /\ h[n].kind = "modifier" /\ n \notin c =>
       g[n].parts = {} \/ (n \notin b /\ g[n].parts \subseteq h[n].parts)
NewAccounted(h, g, vs, f, q, c) ==
    \A n \in DOMAIN g : n \notin DOMAIN h =>
       IsKept(g, vs, f, q, n) /\ (g[n].kind = "modifier" => g[n].parts = {} \/ n \in c)

LEMMA DeletedStays ==
    ASSUME NEW h, NEW ws, NEW g, NEW vs, ObjectsStay(h, g), OwnersStay(h, ws, g, vs),
           NEW n \in DOMAIN h, n \in DOMAIN g, IsDeleted(h, ws, n)
    PROVE  IsDeleted(g, vs, n)
<1>1. PICK w \in ws : n \in DeletesIn(h, w) BY DEF IsDeleted
<1>2. w.owns BY <1>1 DEF DeletesIn
<1>3. w.native \in DOMAIN h /\ n \in DeletesIn(h, w) \cap DOMAIN g BY <1>1, <1>2 DEF OwnersStay
<1>4. PICK v \in vs : Follows(g, w, v) BY <1>2, <1>3 DEF OwnersStay
<1>5. OwnedIn(h, w.native) \cap DOMAIN g \subseteq OwnedIn(g, w.native) BY <1>3, <1>4 DEF ObjectsStay, Follows
<1>6. n \in DeletesIn(g, v)
  <2>1. n # None /\ (n \in OwnedIn(h, w.native) \/ (w.class \in WithProxy /\ n = w.also))
    BY <1>1, <1>2 DEF DeletesIn
  <2>2. CASE n \in OwnedIn(h, w.native)
    BY <1>5, <1>4, <2>1, <2>2 DEF DeletesIn, Follows
  <2>3. CASE w.class \in WithProxy /\ n = w.also
    BY <1>4, <2>1, <2>3 DEF DeletesIn, Follows
  <2> QED BY <2>1, <2>2, <2>3
<1> QED BY <1>6 DEF IsDeleted

LEMMA PagesStay ==
    ASSUME NEW h, NEW ws, NEW g, NEW vs, OwnersStay(h, ws, g, vs), NEW c \in DOMAIN g, HasPage(ws, c)
    PROVE  HasPage(vs, c)
<1>1. PICK w \in ws : w.owns /\ w.held /\ w.class = "PDFPage" /\ w.also = c BY DEF HasPage
<1>2. PICK v \in vs : Follows(g, w, v) BY <1>1 DEF OwnersStay
<1>3. v.owns /\ v.held /\ v.class = "PDFPage" /\ v.also = c BY <1>1, <1>2 DEF Follows
<1> QED BY <1>3 DEF HasPage

LEMMA Accounting ==
    ASSUME NEW h, NEW ws, NEW e, NEW o, NEW b, NEW g, NEW vs, NEW f, NEW q, NEW c,
           Accounted(h, ws, e, o, b), ObjectsStay(h, g), OwnersStay(h, ws, g, vs),
           DueStay(e, g, vs, f), OpenStay(h, o, g, q), EndedStay(h, b, g, c),
           NewAccounted(h, g, vs, f, q, c)
    PROVE  Accounted(g, vs, f, q, c)
<1>1. ASSUME NEW n \in DOMAIN g PROVE IsKept(g, vs, f, q, n)
  <2>1. CASE n \notin DOMAIN h BY <2>1, <1>1 DEF NewAccounted
  <2>2. CASE n \in DOMAIN h
    <3>1. IsKept(h, ws, e, o, n) /\ g[n].kind = h[n].kind BY <2>2, <1>1 DEF Accounted, ObjectsStay
    <3>2. CASE IsDeleted(h, ws, n) BY <3>2, <2>2, <1>1, DeletedStays DEF IsKept
    <3>3. CASE h[n].kind = "dictionary" /\ IsOpen(o, n) BY <3>1, <3>3, <2>2, <1>1 DEF OpenStay, IsKept
    <3>4. CASE n \in Due(e) BY <3>4, <1>1 DEF DueStay, IsKept
    <3>5. CASE h[n].kind = "pageContext" /\ HasPage(ws, n) BY <3>1, <3>5, <1>1, PagesStay DEF IsKept
    <3>6. CASE IsDrawn(h, n)
      <4>1. PICK d \in DOMAIN h : h[d].kind = "pageContext" /\ n \in h[d].parts BY <3>6 DEF IsDrawn
      <4>2. d \in DOMAIN g /\ g[d].kind = h[d].kind /\ n \in g[d].parts
        BY <4>1, <1>1 DEF ObjectsStay
      <4> QED BY <4>1, <4>2 DEF IsDrawn, IsKept
    <3> QED BY <3>1, <3>2, <3>3, <3>4, <3>5, <3>6 DEF IsKept
  <2> QED BY <2>1, <2>2
<1>2. Ended(g, c)
  <2> SUFFICES ASSUME NEW n \in DOMAIN g, g[n].kind = "modifier", n \notin c PROVE g[n].parts = {}
    BY DEF Ended
  <2>1. CASE n \notin DOMAIN h BY <2>1 DEF NewAccounted
  <2>2. CASE n \in DOMAIN h
    <3>1. h[n].kind = "modifier" BY <2>2 DEF ObjectsStay
    <3>2. g[n].parts = {} \/ (n \notin b /\ g[n].parts \subseteq h[n].parts) BY <3>1, <2>2 DEF EndedStay
    <3>3. n \notin b => h[n].parts = {} BY <3>1, <2>2 DEF Accounted, Ended
    <3> QED BY <3>2, <3>3
  <2> QED BY <2>1, <2>2
<1> QED BY <1>1, <1>2 DEF Accounted

LEMMA GrowsStay ==
    ASSUME NEW h, NEW g, NEW ws, NEW N, IsFresh(h, ws, N), Grows(h, g, N)
    PROVE  ObjectsStay(h, g)
<1>1. \A n \in DOMAIN h : n \in DOMAIN g /\ g[n] = h[n] BY DEF Grows
<1>2. \A n \in DOMAIN h : OwnedIn(g, n) = OwnedIn(h, n) BY GrowsReach
<1> QED BY <1>1, <1>2 DEF ObjectsStay

LEMMA SameStay == ASSUME NEW h PROVE ObjectsStay(h, h)
  BY DEF ObjectsStay

\* Objects go, with the streams of the contexts that go, and the others keep their parts.
LEMMA ShrinksStay ==
    ASSUME NEW h, NEW g, IsHeap(h), Shrinks(h, g),
           \A n \in DOMAIN g : h[n].parts \cap DOMAIN g \subseteq g[n].parts,
           \A n \in DOMAIN h : n \notin DOMAIN g /\ h[n].kind = "pageContext" =>
              h[n].parts \cap DOMAIN g = {}
    PROVE  ObjectsStay(h, g)
<1>1. \A n \in DOMAIN g : n \in DOMAIN h /\ g[n].kind = h[n].kind BY DEF Shrinks
<1>2. ASSUME NEW n \in DOMAIN g PROVE OwnedIn(h, n) \cap DOMAIN g \subseteq OwnedIn(g, n)
  <2> SUFFICES ASSUME NEW p \in OwnedIn(h, n), p \in DOMAIN g PROVE p \in OwnedIn(g, n) OBVIOUS
  <2>1. CASE p = n BY <2>1 DEF OwnedIn
  <2>2. CASE p # n
    <3>1. p \in h[n].parts /\ p \in DOMAIN h /\ h[p].of = n BY <1>1, <2>2 DEF OwnedIn
    <3>2. p \in g[n].parts BY <3>1
    <3>3. HasPart(h[n].kind, h[p].kind) BY <1>1, <3>1 DEF IsHeap, PartsFit
    <3>4. PointsBack(h[p].kind, h[n].kind) BY <1>1, <3>1 DEF IsHeap, OfFits
    <3>5. h[p].kind \notin {"copying", "page"} BY <3>3, <3>4 DEF HasPart, PointsBack, Deletable, Lent
    <3>6. g[p].of = n BY <3>5, <3>1, <1>1 DEF Shrinks
    <3> QED BY <3>2, <3>6 DEF OwnedIn
  <2> QED BY <2>1, <2>2
<1> QED BY <1>1, <1>2 DEF ObjectsStay

LEMMA StayTogether ==
    ASSUME NEW h, NEW m, NEW g, IsHeap(h), ObjectsStay(h, m), ObjectsStay(m, g),
           DOMAIN h \cap DOMAIN g \subseteq DOMAIN m
    PROVE  ObjectsStay(h, g)
<1>1. ASSUME NEW n \in DOMAIN h, n \in DOMAIN g
      PROVE  /\ g[n].kind = h[n].kind
             /\ OwnedIn(h, n) \cap DOMAIN g \subseteq OwnedIn(g, n)
             /\ h[n].kind = "pageContext" => h[n].parts \cap DOMAIN g \subseteq g[n].parts
  <2>1. n \in DOMAIN m /\ g[n].kind = m[n].kind /\ m[n].kind = h[n].kind BY <1>1 DEF ObjectsStay
  <2>2. OwnedIn(h, n) \subseteq DOMAIN h BY DEF OwnedIn
  <2>3. OwnedIn(h, n) \cap DOMAIN m \subseteq OwnedIn(m, n) /\ OwnedIn(m, n) \cap DOMAIN g \subseteq OwnedIn(g, n)
    BY <1>1, <2>1 DEF ObjectsStay
  <2>4. OwnedIn(h, n) \cap DOMAIN g \subseteq OwnedIn(g, n) BY <2>2, <2>3
  <2>5. ASSUME h[n].kind = "pageContext" PROVE h[n].parts \cap DOMAIN g \subseteq g[n].parts
    <3>1. h[n].parts \subseteq DOMAIN h BY <2>5 DEF IsHeap, ContextFits
    <3>2. h[n].parts \cap DOMAIN m \subseteq m[n].parts /\ m[n].parts \cap DOMAIN g \subseteq g[n].parts
      BY <1>1, <2>1, <2>5 DEF ObjectsStay
    <3> QED BY <3>1, <3>2
  <2> QED BY <2>1, <2>4, <2>5
<1>2. ASSUME NEW n \in DOMAIN h, n \notin DOMAIN g, h[n].kind = "pageContext"
      PROVE  h[n].parts \cap DOMAIN g = {}
  <2>1. h[n].parts \subseteq DOMAIN h BY <1>2 DEF IsHeap, ContextFits
  <2>2. CASE n \in DOMAIN m
    <3>1. m[n].kind = "pageContext" /\ h[n].parts \cap DOMAIN m \subseteq m[n].parts BY <1>2, <2>2 DEF ObjectsStay
    <3>2. m[n].parts \cap DOMAIN g = {} BY <1>2, <2>2, <3>1 DEF ObjectsStay
    <3> QED BY <2>1, <3>1, <3>2
  <2>3. CASE n \notin DOMAIN m
    <3>1. h[n].parts \cap DOMAIN m = {} BY <1>2, <2>3 DEF ObjectsStay
    <3> QED BY <2>1, <3>1
  <2> QED BY <2>2, <2>3
<1> QED BY <1>1, <1>2 DEF ObjectsStay

StepStays ==
    /\ ObjectsStay(heap, heap') /\ OwnersStay(heap, wrappers, heap', wrappers')
    /\ DueStay(event, heap', wrappers', event') /\ OpenStay(heap, out, heap', out')
    /\ EndedStay(heap, busy, heap', busy')
    /\ NewAccounted(heap, heap', wrappers', event', out', busy')

LEMMA StepAccounts ==
    ASSUME LInv, ~thrown, ~thrown' => StepStays
    PROVE  LInv'
<1> SUFFICES ASSUME ~thrown' PROVE Accounted(heap', wrappers', event', out', busy') BY DEF LInv
<1>1. Accounted(heap, wrappers, event, out, busy) BY DEF LInv
<1>2. StepStays OBVIOUS
<1> QED BY <1>1, <1>2, Accounting DEF StepStays

\* The wrappers that own something are as they were.
OwnersRemain == \A w \in wrappers : w.owns => w \in wrappers'

LEMMA OwnersRemaining ==
    ASSUME DInv, DInv', OwnersRemain
    PROVE  OwnersStay(heap, wrappers, heap', wrappers')
<1> SUFFICES ASSUME NEW w \in wrappers, w.owns
             PROVE  w.native \in DOMAIN heap /\ \E v \in wrappers' : Follows(heap', w, v)
  BY DEF OwnersStay
<1>1. w \in wrappers' BY DEF OwnersRemain
<1>2. w.native \in DOMAIN heap BY DEF DInv, IsWrapped, OwnerFits
<1>3. IsWrapped(heap', wrappers') BY DEF DInv
<1>4. w.native \in DOMAIN heap' BY <1>1, <1>3 DEF IsWrapped, OwnerFits
<1>5. Follows(heap', w, w) BY <1>4 DEF Follows
<1> QED BY <1>1, <1>2, <1>5

\* The objects of a quiet step.
NewDeleted ==
    \A n \in DOMAIN heap' : n \notin DOMAIN heap =>
       IsDeleted(heap', wrappers', n) /\ (heap'[n].kind = "modifier" => heap'[n].parts = {})
ModifiersStay ==
    \A n \in DOMAIN heap : n \in DOMAIN heap' /\ heap[n].kind = "modifier" =>
       heap'[n].parts \subseteq heap[n].parts

LEMMA QuietAccounts ==
    ASSUME DInv, DInv', OInv, LInv, ~thrown, Quiet, OwnersRemain,
           ~thrown' => ObjectsStay(heap, heap') /\ NewDeleted /\ ModifiersStay
    PROVE  LInv'
<1> SUFFICES ASSUME ~thrown' PROVE StepStays BY StepAccounts
<1>1. OwnersStay(heap, wrappers, heap', wrappers') BY OwnersRemaining
<1>2. DueStay(event, heap', wrappers', event') BY DEF DueStay, Quiet
<1>3. OpenStay(heap, out, heap', out')
  <2>1. out'.open = out.open
    <3>1. busy = {} => WholeObject(out) = out BY WholeIs DEF OInv, Nests
    <3> QED BY <3>1 DEF Quiet
  <2> QED BY <2>1 DEF OpenStay, IsOpen
<1>4. EndedStay(heap, busy, heap', busy') BY DEF EndedStay, ModifiersStay, Quiet
<1>5. NewAccounted(heap, heap', wrappers', event', out', busy')
  BY DEF NewAccounted, NewDeleted, IsKept
<1> QED BY <1>1, <1>2, <1>3, <1>4, <1>5 DEF StepStays

LEMMA NothingChanges ==
    ASSUME heap' = heap
    PROVE  ObjectsStay(heap, heap') /\ NewDeleted /\ ModifiersStay
BY SameStay DEF NewDeleted, ModifiersStay

LEMMA LookingAccounts ==
    ASSUME DInv, DInv', OInv, LInv, ~thrown, Looks \/ Uses \/ Gets
    PROVE  LInv'
<1>1. Looks => heap' = heap /\ Quiet /\ OwnersRemain
  BY DEF Looks, Quiet, WriteToken, WriteInDictionary, WriteInStream, AttachURLLinktoCurrentPage,
         CopyObject, CopyNewObjectsForDirectObject, CopyDirectObject, AttachURLLinkToModifiedPage,
         OwnersRemain
<1>2. Uses => heap' = heap /\ Quiet /\ OwnersRemain
  BY DEF Uses, Quiet, UsePage, UseForm, UseImage, UseFont, UseFileStream, ParseObjects, QueryReader,
         UsePageInput, ReadDecoded, UseCopiedObjects, OwnersRemain
<1>3. Gets => heap' = heap /\ Quiet /\ OwnersRemain
  BY DEF Gets, Quiet, GetAssociatedPage, GetMember, GetContentContext, GetContentStream, GetContext,
         GetFileStream, GetParserStream, GetSourceDocumentParser, GetSourceDocumentStream, DrawOnForm,
         OwnersRemain
<1> QED BY <1>1, <1>2, <1>3, QuietAccounts, NothingChanges

\* What a wrapper deletes.
LEMMA OwnerDeletes ==
    ASSUME NEW g, NEW vs, NEW v \in vs, v.owns, v.native # None
    PROVE  IsDeleted(g, vs, v.native)
<1>1. v.native \in DeletesIn(g, v) BY DEF DeletesIn, OwnedIn
<1> QED BY <1>1 DEF IsDeleted

LEMMA PartDeleted ==
    ASSUME NEW g, NEW vs, NEW v \in vs, v.owns, v.native \in DOMAIN g,
           NEW p \in DOMAIN g, p \in g[v.native].parts, g[p].of = v.native, p # None
    PROVE  IsDeleted(g, vs, p)
<1>1. p \in DeletesIn(g, v) BY DEF DeletesIn, OwnedIn
<1> QED BY <1>1 DEF IsDeleted

LEMMA ProxyDeleted ==
    ASSUME NEW g, NEW vs, NEW v \in vs, v.owns, v.class \in WithProxy, v.also # None
    PROVE  IsDeleted(g, vs, v.also)
<1>1. v.also \in DeletesIn(g, v) BY DEF DeletesIn
<1> QED BY <1>1 DEF IsDeleted

\* New objects next to those that there are.
MadeOf(g, rs, k) ==
    /\ DOMAIN g = DOMAIN heap \cup NewOnes(k)
    /\ \A n \in DOMAIN heap : g[n] = heap[n]
    /\ \A i \in 1 .. k : g[New(i)] = rs[i] /\ New(i) # None /\ New(i) \in DOMAIN g

LEMMA MadeIs ==
    ASSUME DInv, DInv', NEW k \in 1 .. 3, Room(k), NEW rs, DOMAIN rs = 1 .. k, heap' = Created(heap, rs)
    PROVE  MadeOf(heap', rs, k) /\ ObjectsStay(heap, heap') /\ ModifiersStay
<1>1. IsMade(heap, heap', rs, k) BY CreatedIs DEF Live
<1>2. IsFresh(heap, wrappers, NewOnes(k)) BY NewAreFresh DEF NewOnes
<1>3. heap' \in [DOMAIN heap' -> Record] BY DEF DInv, IsHeap
<1>4. Grows(heap, heap', NewOnes(k)) BY <1>1, <1>3 DEF Grows, IsMade
<1>5. ObjectsStay(heap, heap') BY <1>2, <1>4, GrowsStay
<1>6. ModifiersStay BY <1>1 DEF IsMade, ModifiersStay
<1>7. \A i \in 1 .. k : New(i) \in NewOnes(k) BY DEF NewOnes
<1>8. \A i \in 1 .. k : New(i) # None
  BY <1>2, <1>7, NativesAssumption DEF IsFresh, None
<1>9. MadeOf(heap', rs, k) BY <1>1, <1>7, <1>8 DEF MadeOf, IsMade
<1> QED BY <1>5, <1>6, <1>9

LEMMA OfMade ==
    ASSUME NEW g, NEW rs, NEW k, MadeOf(g, rs, k), NEW n \in DOMAIN g, n \notin DOMAIN heap
    PROVE  \E i \in 1 .. k : n = New(i)
BY DEF MadeOf, NewOnes

\* One object, that its wrapper owns.
LEMMA OneOwned ==
    ASSUME DInv, DInv', OInv, LInv, ~thrown, Quiet, OwnersRemain, Room(1),
           NEW x, heap' = Created(heap, <<x>>), x.kind = "modifier" => x.parts = {},
           NEW v \in wrappers', v.owns, v.native = New(1)
    PROVE  LInv'
<1> DEFINE rs == <<x>>
<1>1. DOMAIN rs = 1 .. 1 /\ rs[1] = x /\ 1 \in 1 .. 3 OBVIOUS
<1> HIDE DEF rs
<1>2. heap' = Created(heap, rs) BY DEF rs
<1>3. MadeOf(heap', rs, 1) /\ ObjectsStay(heap, heap') /\ ModifiersStay
  BY <1>1, <1>2, MadeIs
<1>4. NewDeleted
  <2> SUFFICES ASSUME NEW n \in DOMAIN heap', n \notin DOMAIN heap
               PROVE  IsDeleted(heap', wrappers', n) /\ (heap'[n].kind = "modifier" => heap'[n].parts = {})
    BY DEF NewDeleted
  <2>1. PICK i \in 1 .. 1 : n = New(i) BY <1>3, OfMade
  <2>2. n = New(1) /\ heap'[n] = x /\ n # None BY <1>1, <1>3, <2>1 DEF MadeOf
  <2> QED BY <2>2, OwnerDeletes
<1> QED BY <1>3, <1>4, QuietAccounts

LEMMA NativeHas ==
    ASSUME NEW kind, NEW of, NEW parts
    PROVE  /\ Native(kind, of, parts).kind = kind /\ Native(kind, of, parts).of = of
           /\ Native(kind, of, parts).parts = parts
BY DEF Native

LEMMA PageAccounts ==
    ASSUME DInv, DInv', OInv, LInv, ~thrown, CreatePage
    PROVE  LInv'
<1> DEFINE x == Native("page", None, {})
           v == Wrap("PDFPage", New(1), TRUE, None)
<1>1. Room(1) /\ heap' = Created(heap, <<x>>) /\ v \in wrappers' /\ OwnersRemain /\ Quiet
  BY DEF CreatePage, OwnersRemain, Quiet
<1>2. v.owns /\ v.native = New(1) BY DEF Wrap
<1>3. x.parts = {} BY NativeHas
<1> HIDE DEF x, v
<1> QED BY <1>1, <1>2, <1>3, OneOwned

LEMMA ModifierAccounts ==
    ASSUME DInv, DInv', OInv, LInv, ~thrown, NewModifier
    PROVE  LInv'
<1> DEFINE x == Native("modifier", session.writer, {})
           v == Wrap("PDFPageModifier", New(1), TRUE, None)
<1>1. Room(1) /\ heap' = Created(heap, <<x>>) /\ v \in wrappers' /\ OwnersRemain /\ Quiet
  BY DEF NewModifier, OwnersRemain, Quiet
<1>2. v.owns /\ v.native = New(1) BY DEF Wrap
<1>3. x.parts = {} BY NativeHas
<1> HIDE DEF x, v
<1> QED BY <1>1, <1>2, <1>3, OneOwned

LEMMA DerivedAccounts ==
    ASSUME DInv, DInv', OInv, LInv, ~thrown, NEW w, NEW class, Derived(w, class)
    PROVE  LInv'
<1> DEFINE x == Native("derived", None, {w.native})
           v == Wrap(class, New(1), TRUE, None)
<1>1. Room(1) /\ heap' = Created(heap, <<x>>) /\ v \in wrappers' /\ OwnersRemain /\ Quiet
  BY DEF Derived, OwnersRemain, Quiet
<1>2. v.owns /\ v.native = New(1) BY DEF Wrap
<1>3. x.kind # "modifier" BY NativeHas
<1> HIDE DEF x, v
<1> QED BY <1>1, <1>2, <1>3, OneOwned

LEMMA ImageAccounts ==
    ASSUME DInv, DInv', OInv, LInv, ~thrown, CreateImageXObjectFromJPG
    PROVE  LInv'
<1> DEFINE x == Native("image", None, {})
           v == Wrap("ImageXObject", New(1), TRUE, None)
<1>1. Room(1) /\ OwnersRemain /\ Quiet
  BY DEF CreateImageXObjectFromJPG, OwnersRemain, Quiet
<1>2. heap' = heap \/ (heap' = Created(heap, <<x>>) /\ v \in wrappers')
  BY DEF CreateImageXObjectFromJPG
<1>3. v.owns /\ v.native = New(1) BY DEF Wrap
<1>4. x.kind # "modifier" BY NativeHas
<1> HIDE DEF x, v
<1> QED BY <1>1, <1>2, <1>3, <1>4, OneOwned, QuietAccounts, NothingChanges

LEMMA FileAccounts ==
    ASSUME DInv, DInv', OInv, LInv, ~thrown, NEW class, NewFile(class)
    PROVE  LInv'
<1> DEFINE x == Native("file", None, {New(2)})
           y == Native("fileStream", New(1), {})
           z == Native("file", None, {})
           v == Wrap(class, New(1), TRUE, None)
<1>1. Room(2) /\ v \in wrappers' /\ OwnersRemain /\ Quiet
  BY DEF NewFile, OwnersRemain, Quiet
<1>2. PICK opens \in BOOLEAN : heap' = Created(heap, IF opens THEN <<x, y>> ELSE <<z>>)
  BY DEF NewFile
<1>3. v.owns /\ v.native = New(1) BY DEF Wrap
<1>4. x.kind # "modifier" /\ y.kind # "modifier" /\ z.kind # "modifier" /\ x.parts = {New(2)} /\ y.of = New(1)
  BY NativeHas
<1> HIDE DEF x, v, y, z
<1>5. CASE ~opens
  <2>1. Room(1)
    <3>1. Cardinality(Unused) \in Nat BY UnusedIsFinite, FS_CardinalityType
    <3> QED BY <1>1, <3>1 DEF Room
  <2> QED BY <1>1, <1>2, <1>3, <1>4, <1>5, <2>1, OneOwned
<1>6. CASE opens
  <2> DEFINE rs == <<x, y>>
  <2>1. DOMAIN rs = 1 .. 2 /\ rs[1] = x /\ rs[2] = y OBVIOUS
  <2>2. heap' = Created(heap, rs) BY <1>2, <1>6
  <2> HIDE DEF rs
  <2>3. MadeOf(heap', rs, 2) /\ ObjectsStay(heap, heap') /\ ModifiersStay
    BY <1>1, <2>1, <2>2, MadeIs
  <2>4. /\ heap'[New(1)] = x /\ New(1) # None /\ New(1) \in DOMAIN heap'
        /\ heap'[New(2)] = y /\ New(2) # None /\ New(2) \in DOMAIN heap'
    BY <2>1, <2>3 DEF MadeOf
  <2>5. IsDeleted(heap', wrappers', New(1)) BY <1>1, <1>3, <2>4, OwnerDeletes
  <2>6. IsDeleted(heap', wrappers', New(2)) BY <1>1, <1>3, <1>4, <2>4, PartDeleted
  <2>7. NewDeleted
    <3> SUFFICES ASSUME NEW n \in DOMAIN heap', n \notin DOMAIN heap
                 PROVE  IsDeleted(heap', wrappers', n) /\ (heap'[n].kind = "modifier" => heap'[n].parts = {})
      BY DEF NewDeleted
    <3>1. PICK i \in 1 .. 2 : n = New(i) BY <2>3, OfMade
    <3>2. i = 1 \/ i = 2 OBVIOUS
    <3> QED BY <1>4, <2>4, <2>5, <2>6, <3>1, <3>2
  <2> QED BY <1>1, <2>3, <2>7, QuietAccounts
<1> QED BY <1>5, <1>6

LEMMA NewOwned ==
    ASSUME DInv, DInv', OInv, LInv, ~thrown, Quiet, OwnersRemain, NEW k \in 1 .. 3, Room(k),
           NEW rs, DOMAIN rs = 1 .. k, heap' = Created(heap, rs),
           \A i \in 1 .. k : IsDeleted(heap', wrappers', New(i)) /\ rs[i].kind # "modifier"
    PROVE  LInv'
<1>1. MadeOf(heap', rs, k) /\ ObjectsStay(heap, heap') /\ ModifiersStay
  BY MadeIs
<1>2. NewDeleted
  <2> SUFFICES ASSUME NEW n \in DOMAIN heap', n \notin DOMAIN heap
               PROVE  IsDeleted(heap', wrappers', n) /\ (heap'[n].kind = "modifier" => heap'[n].parts = {})
    BY DEF NewDeleted
  <2>1. PICK i \in 1 .. k : n = New(i) BY <1>1, OfMade
  <2>2. heap'[n] = rs[i] BY <1>1, <2>1 DEF MadeOf
  <2> QED BY <2>1, <2>2
<1> QED BY <1>1, <1>2, QuietAccounts

LEMMA ReaderAccounts ==
    ASSUME DInv, DInv', OInv, LInv, ~thrown, CreateReader
    PROVE  LInv'
<1>1. PICK k \in {0, 1} :
         /\ Room(1 + k)
         /\ heap' = Created(heap, <<Native("parser", None, {New(1 + i) : i \in 1 .. k})>>
                                     \o [i \in 1 .. k |-> Native("proxy", None, {})])
         /\ \E works \in Outcomes :
               wrappers' = wrappers \cup
                  {[Wrap("PDFReader", New(1), TRUE, IF k = 0 THEN None ELSE New(2)) EXCEPT !.held = works]}
  BY DEF CreateReader
<1> DEFINE a == Native("parser", None, Proxies(k))
           p == Native("proxy", None, {})
           also == IF k = 0 THEN None ELSE New(2)
<1>2. k \in 0 .. 2 BY <1>1
<1>3. a \in Record /\ p \in Record /\ a.kind = "parser" /\ p.kind = "proxy"
  <2>1. Proxies(k) \in SUBSET (Nat \ {None}) BY <1>1, <1>2, ProxiesAre
  <2>2. None \in Nat BY DEF None
  <2> QED BY <2>1, <2>2, NativeIs DEF Kinds
<1>4. heap' = Created(heap, <<a>> \o [i \in 1 .. k |-> p]) BY <1>1 DEF Proxies
<1>5. PICK v \in wrappers' : v.owns /\ v.native = New(1) /\ v.class = "PDFReader" /\ v.also = also
  <2>1. PICK works \in Outcomes : wrappers' = wrappers \cup {[Wrap("PDFReader", New(1), TRUE, also) EXCEPT !.held = works]}
    BY <1>1
  <2> DEFINE v == [Wrap("PDFReader", New(1), TRUE, also) EXCEPT !.held = works]
  <2>2. v.owns /\ v.native = New(1) /\ v.class = "PDFReader" /\ v.also = also BY DEF Wrap
  <2>3. v \in wrappers' BY <2>1
  <2> QED BY <2>2, <2>3
<1> HIDE DEF a, p
<1>6. IsMadeWith(heap', a, p, k) BY <1>1, <1>2, <1>3, <1>4, MadeWith
<1> DEFINE N == {New(1)} \cup Proxies(k)
<1>7. /\ Grows(heap, heap', N) /\ IsFresh(heap, wrappers, N)
      /\ \A n \in N : heap'[n] = a \/ heap'[n] = p
      /\ New(1) # None /\ None \notin DOMAIN heap'
  BY <1>6 DEF IsMadeWith
<1>8. \A n \in N : IsDeleted(heap', wrappers', n)
  <2>1. IsDeleted(heap', wrappers', New(1)) BY <1>5, <1>7, OwnerDeletes
  <2>2. CASE k = 0
    <3>1. Proxies(k) = {} BY <2>2 DEF Proxies
    <3> QED BY <2>1, <3>1
  <2>3. CASE k = 1
    <3>1. Proxies(k) = {New(2)} BY <2>3 DEF Proxies
    <3>2. New(2) \in DOMAIN heap' BY <1>7, <3>1 DEF Grows
    <3>3. v.also = New(2) /\ New(2) # None BY <1>5, <1>7, <2>3, <3>2
    <3>4. IsDeleted(heap', wrappers', New(2)) BY <1>5, <3>3, ProxyDeleted DEF WithProxy
    <3> QED BY <2>1, <3>1, <3>4
  <2> QED BY <1>1, <2>2, <2>3
<1> HIDE DEF N
<1>9. NewDeleted
  <2>1. \A n \in DOMAIN heap' : n \notin DOMAIN heap => n \in N BY <1>7 DEF Grows
  <2> QED BY <1>3, <1>7, <1>8, <2>1 DEF NewDeleted
<1>10. ObjectsStay(heap, heap') BY <1>7, GrowsStay
<1>11. ModifiersStay BY <1>7 DEF ModifiersStay, Grows
<1>12. Quiet /\ OwnersRemain
  <2>1. OwnersRemain BY <1>1 DEF OwnersRemain
  <2>2. Quiet BY DEF CreateReader, Quiet
  <2> QED BY <2>1, <2>2
<1> QED BY <1>9, <1>10, <1>11, <1>12, QuietAccounts

LEMMA CopiesAccounts ==
    ASSUME DInv, DInv', OInv, LInv, ~thrown, NEW source \in {"path", "stream", "parser"}, NEW given,
           Copies(source, given)
    PROVE  LInv'
<1> SUFFICES ASSUME ~thrown' PROVE LInv' BY DEF LInv
<1> DEFINE x == Native("copying", session.writer, {New(2)})
           y == Native("parser", New(1), {})
           z == Native("parser", New(1), {New(3)})
           p == Native("proxy", None, {})
           o == Native("copying", session.writer, given)
           v == Wrap("DocumentCopyingContext", New(1), TRUE, IF source = "stream" THEN New(3) ELSE None)
<1>1. /\ wrappers' = wrappers \cup {v}
      /\ heap' = Created(heap, CASE source = "path" -> <<x, y>> [] source = "stream" -> <<x, z, p>>
                                 [] source = "parser" -> <<o>>)
  BY DEF Copies, Throws
<1>2. /\ v.owns /\ v.native = New(1) /\ v.class = "DocumentCopyingContext"
      /\ v.also = IF source = "stream" THEN New(3) ELSE None
  BY DEF Wrap
<1>3. /\ x.kind = "copying" /\ y.kind = "parser" /\ z.kind = "parser" /\ p.kind = "proxy" /\ o.kind = "copying"
      /\ x.parts = {New(2)} /\ y.of = New(1) /\ z.of = New(1)
  BY NativeHas
<1>4. Room(1) /\ Room(2) /\ Room(3) /\ Quiet
  <2>1. Room(1) /\ Room(2) /\ Room(3) BY RoomForLess DEF Copies
  <2>2. Quiet BY DEF Copies, Quiet
  <2> QED BY <2>1, <2>2
<1>5. OwnersRemain BY <1>1 DEF OwnersRemain
<1> HIDE DEF x, y, z, p, o, v
<1>6. CASE source = "path"
  <2> DEFINE rs == <<x, y>>
  <2>1. DOMAIN rs = 1 .. 2 /\ rs[1] = x /\ rs[2] = y /\ 2 \in 1 .. 3 OBVIOUS
  <2>2. heap' = Created(heap, rs) BY <1>1, <1>6
  <2> HIDE DEF rs
  <2>3. MadeOf(heap', rs, 2) BY <1>4, <2>1, <2>2, MadeIs
  <2>4. /\ heap'[New(1)] = x /\ New(1) # None /\ New(1) \in DOMAIN heap'
        /\ heap'[New(2)] = y /\ New(2) # None /\ New(2) \in DOMAIN heap'
    BY <2>1, <2>3 DEF MadeOf
  <2>5. IsDeleted(heap', wrappers', New(1)) BY <1>1, <1>2, <2>4, OwnerDeletes
  <2>6. IsDeleted(heap', wrappers', New(2))
    <3>1. /\ v \in wrappers' /\ v.owns /\ v.native \in DOMAIN heap' /\ New(2) \in DOMAIN heap'
          /\ New(2) \in heap'[v.native].parts /\ heap'[New(2)].of = v.native /\ New(2) # None
      BY <1>1, <1>2, <1>3, <2>4
    <3> QED BY ONLY <3>1, PartDeleted
  <2>7. \A i \in 1 .. 2 : IsDeleted(heap', wrappers', New(i)) /\ rs[i].kind # "modifier"
    BY <1>3, <2>1, <2>5, <2>6
  <2> QED BY <1>4, <1>5, <2>1, <2>2, <2>7, NewOwned
<1>7. CASE source = "stream"
  <2> DEFINE rs == <<x, z, p>>
  <2>1. DOMAIN rs = 1 .. 3 /\ rs[1] = x /\ rs[2] = z /\ rs[3] = p /\ 3 \in 1 .. 3 OBVIOUS
  <2>2. heap' = Created(heap, rs) BY <1>1, <1>7
  <2> HIDE DEF rs
  <2>3. MadeOf(heap', rs, 3) BY <1>4, <2>1, <2>2, MadeIs
  <2>4. /\ heap'[New(1)] = x /\ New(1) # None /\ New(1) \in DOMAIN heap'
        /\ heap'[New(2)] = z /\ New(2) # None /\ New(2) \in DOMAIN heap'
        /\ New(3) # None
    BY <2>1, <2>3 DEF MadeOf
  <2>5. IsDeleted(heap', wrappers', New(1)) BY <1>1, <1>2, <2>4, OwnerDeletes
  <2>6. IsDeleted(heap', wrappers', New(2))
    <3>1. /\ v \in wrappers' /\ v.owns /\ v.native \in DOMAIN heap' /\ New(2) \in DOMAIN heap'
          /\ New(2) \in heap'[v.native].parts /\ heap'[New(2)].of = v.native /\ New(2) # None
      BY <1>1, <1>2, <1>3, <2>4
    <3> QED BY ONLY <3>1, PartDeleted
  <2>7. v.also = New(3) /\ v \in wrappers' BY <1>1, <1>2, <1>7
  <2>8. IsDeleted(heap', wrappers', New(3)) BY <1>2, <2>4, <2>7, ProxyDeleted DEF WithProxy
  <2>9. \A i \in 1 .. 3 : IsDeleted(heap', wrappers', New(i)) /\ rs[i].kind # "modifier"
    BY <1>3, <2>1, <2>5, <2>6, <2>8
  <2> QED BY <1>4, <1>5, <2>1, <2>2, <2>9, NewOwned
<1>8. CASE source = "parser"
  <2>1. heap' = Created(heap, <<o>>) /\ v \in wrappers' /\ o.kind # "modifier" BY <1>1, <1>3, <1>8
  <2> QED BY <1>2, <1>4, <1>5, <2>1, OneOwned
<1> QED BY <1>6, <1>7, <1>8

LEMMA CopyingAccounts ==
    ASSUME DInv, DInv', OInv, LInv, ~thrown,
           CreatePDFCopyingContext \/ CreatePDFCopyingContextForModifiedFile
    PROVE  LInv'
<1>1. \A source \in {"path", "stream", "parser"} : \A given : Copies(source, given) => LInv'
  BY CopiesAccounts
<1>2. CreatePDFCopyingContext => \E source \in {"path", "stream", "parser"} : \E given : Copies(source, given)
  BY DEF CreatePDFCopyingContext
<1>3. CreatePDFCopyingContextForModifiedFile => Copies("parser", {session.writer})
  BY DEF CreatePDFCopyingContextForModifiedFile
<1> QED BY <1>1, <1>2, <1>3

\* Objects that keep what they have, and may have more.
LEMMA GainsStay ==
    ASSUME NEW h, NEW g,
           \A n \in DOMAIN h : /\ n \in DOMAIN g /\ g[n].kind = h[n].kind
                               /\ h[n].parts \subseteq g[n].parts,
           \A n \in DOMAIN h : h[n].kind # "page" => g[n].of = h[n].of,
           IsHeap(h)
    PROVE  ObjectsStay(h, g)
<1>1. ASSUME NEW n \in DOMAIN h PROVE OwnedIn(h, n) \cap DOMAIN g \subseteq OwnedIn(g, n)
  <2> SUFFICES ASSUME NEW p \in OwnedIn(h, n), p \in DOMAIN g PROVE p \in OwnedIn(g, n) OBVIOUS
  <2>1. CASE p = n BY <2>1 DEF OwnedIn
  <2>2. CASE p # n
    <3>1. p \in h[n].parts /\ p \in DOMAIN h /\ h[p].of = n BY <1>1, <2>2 DEF OwnedIn
    <3>2. HasPart(h[n].kind, h[p].kind) BY <1>1, <3>1 DEF IsHeap, PartsFit
    <3>3. h[p].kind # "page" BY <3>2 DEF HasPart, Deletable, Lent
    <3>4. p \in g[n].parts /\ g[p].of = n BY <1>1, <3>1, <3>3
    <3> QED BY <1>1, <3>4 DEF OwnedIn
  <2> QED BY <2>1, <2>2
<1> QED BY <1>1 DEF ObjectsStay

\* The wrapper of the writer.
LEMMA WriterOwner ==
    ASSUME DInv, WriterHeld(wrappers)
    PROVE  \E v \in wrappers : v.owns /\ v.native = session.writer
BY DEF DInv, IsSession, WriterHeld

LEMMA FontAccounts ==
    ASSUME DInv, DInv', OInv, LInv, ~thrown, GetFontForFile
    PROVE  LInv'
<1> SUFFICES ASSUME ~thrown' PROVE LInv' BY DEF LInv
<1> DEFINE n == session.writer
           r == Native("font", n, {})
           rs == <<r>>
<1>1. WriterHeld(wrappers) BY WhenRunning DEF GetFontForFile, IsFree
<1>2. n \in DOMAIN heap /\ heap[n].kind = "writer" /\ heap \in [DOMAIN heap -> Record] /\ heap[n] \in Record
  <2>2. n \in DOMAIN heap /\ heap[n].kind = "writer" BY <1>1, WriterIsSafe DEF Live
  <2> QED BY <2>2 DEF DInv, IsHeap
<1>3. Quiet /\ OwnersRemain
  <2>1. Quiet BY DEF GetFontForFile, Quiet
  <2>2. OwnersRemain BY DEF GetFontForFile, OwnersRemain
  <2> QED BY <2>1, <2>2
<1>4. PICK v \in wrappers' : v.owns /\ v.native = n BY <1>1, <1>3, WriterOwner DEF OwnersRemain
<1>5. \/ \E f : heap' = [heap EXCEPT ![n].parts = @ \cup {f}]
      \/ Room(1) /\ heap' = [Created(heap, rs) EXCEPT ![n].parts = @ \cup {New(1)}]
  BY DEF GetFontForFile, Throws
<1>6. \A f : /\ [heap[n] EXCEPT !.parts = @ \cup {f}].kind = heap[n].kind
             /\ [heap[n] EXCEPT !.parts = @ \cup {f}].of = heap[n].of
             /\ [heap[n] EXCEPT !.parts = @ \cup {f}].parts = heap[n].parts \cup {f}
  BY <1>2 DEF Record
<1>7. IsHeap(heap) BY DEF DInv
<1>8. ASSUME NEW f, heap' = [heap EXCEPT ![n].parts = @ \cup {f}]
      PROVE  LInv'
  <2>1. heap' = [heap EXCEPT ![n] = [heap[n] EXCEPT !.parts = @ \cup {f}]] BY <1>8
  <2>2. /\ DOMAIN heap' = DOMAIN heap /\ \A m \in DOMAIN heap : m # n => heap'[m] = heap[m]
        /\ heap'[n].kind = heap[n].kind /\ heap'[n].of = heap[n].of /\ heap'[n].parts = heap[n].parts \cup {f}
    BY <1>2, <1>6, <2>1
  <2> HIDE DEF n
  <2>3. /\ \A m \in DOMAIN heap : m \in DOMAIN heap' /\ heap'[m].kind = heap[m].kind
                                  /\ heap[m].parts \subseteq heap'[m].parts
        /\ \A m \in DOMAIN heap : heap[m].kind # "page" => heap'[m].of = heap[m].of
    BY <2>2
  <2>4. ObjectsStay(heap, heap') BY <1>7, <2>3, GainsStay
  <2>5. ModifiersStay BY <1>2, <2>2 DEF ModifiersStay
  <2>6. NewDeleted BY <2>2 DEF NewDeleted
  <2> QED BY <1>3, <2>4, <2>5, <2>6, QuietAccounts
<1>9. ASSUME Room(1), heap' = [Created(heap, rs) EXCEPT ![n].parts = @ \cup {New(1)}]
      PROVE  LInv'
  <2>1. r.kind = "font" /\ r.of = n /\ r.parts = {} BY NativeHas
  <2>2. DOMAIN rs = 1 .. 1 /\ rs[1] = r /\ DOMAIN heap \subseteq Live /\ 1 \in 1 .. 3 BY DEF Live
  <2>3. IsFresh(heap, wrappers, NewOnes(1)) BY <1>9, NewAreFresh DEF NewOnes
  <2> DEFINE g == Created(heap, rs)
  <2> HIDE DEF r, rs
  <2>4. IsMade(heap, g, rs, 1) BY <1>9, <2>2, CreatedIs
  <2>5. NewOnes(1) = {New(1)} BY DEF NewOnes
  <2>6. /\ DOMAIN g = DOMAIN heap \cup {New(1)} /\ \A m \in DOMAIN heap : g[m] = heap[m]
        /\ g[New(1)] = r
    BY <2>2, <2>4, <2>5 DEF IsMade
  <2>7. heap' = [g EXCEPT ![n] = [g[n] EXCEPT !.parts = @ \cup {New(1)}]] BY <1>9
  <2> HIDE DEF g
  <2>8. New(1) \notin DOMAIN heap /\ New(1) # None /\ New(1) # n
    BY <1>2, <2>3, <2>5, NativesAssumption DEF IsFresh, None
  <2>9. /\ DOMAIN heap' = DOMAIN heap \cup {New(1)} /\ \A m \in DOMAIN heap : m # n => heap'[m] = heap[m]
        /\ heap'[n].kind = heap[n].kind /\ heap'[n].of = heap[n].of /\ heap'[n].parts = heap[n].parts \cup {New(1)}
        /\ heap'[New(1)] = r
    BY <1>2, <1>6, <2>6, <2>7, <2>8
  <2>10. IsDeleted(heap', wrappers', New(1))
    <3>1. /\ v \in wrappers' /\ v.owns /\ v.native \in DOMAIN heap' /\ New(1) \in DOMAIN heap'
          /\ New(1) \in heap'[v.native].parts /\ heap'[New(1)].of = v.native /\ New(1) # None
      BY <1>2, <1>4, <2>1, <2>8, <2>9
    <3> QED BY ONLY <3>1, PartDeleted
  <2> HIDE DEF n
  <2>11. /\ \A m \in DOMAIN heap : m \in DOMAIN heap' /\ heap'[m].kind = heap[m].kind
                                  /\ heap[m].parts \subseteq heap'[m].parts
         /\ \A m \in DOMAIN heap : heap[m].kind # "page" => heap'[m].of = heap[m].of
    BY <2>9
  <2>12. ObjectsStay(heap, heap') BY <1>7, <2>11, GainsStay
  <2>13. ModifiersStay BY <1>2, <2>9 DEF ModifiersStay
  <2>14. NewDeleted BY <2>1, <2>9, <2>10 DEF NewDeleted
  <2> QED BY <1>3, <2>12, <2>13, <2>14, QuietAccounts
<1> QED BY <1>5, <1>8, <1>9

LEMMA MergedAccounts ==
    ASSUME DInv, DInv', OInv, LInv, ~thrown, NEW x \in Of("DocumentCopyingContext"),
           NEW f \in Of("FormXObject"), MergePDFPageToFormXObject(x, f)
    PROVE  LInv'
<1> DEFINE n == f.native
           c == x.native
<1>1. heap' = [heap EXCEPT ![n].parts = @ \cup {c}] BY DEF MergePDFPageToFormXObject
<1>2. n \in DOMAIN heap /\ heap[n].kind = "form"
  <2>1. /\ f.class = "FormXObject" /\ (f.owns => OwnerFits(heap, f))
        /\ (~f.owns => BorrowerFits(heap, wrappers, f))
    BY Used
  <2> QED BY <2>1 DEF OwnerFits, OwnerOf, BorrowerFits, BorrowerOf
<1>3. heap[n] \in Record /\ IsHeap(heap) BY <1>2 DEF DInv, IsHeap
<1>4. /\ [heap[n] EXCEPT !.parts = @ \cup {c}].kind = heap[n].kind
      /\ [heap[n] EXCEPT !.parts = @ \cup {c}].of = heap[n].of
      /\ [heap[n] EXCEPT !.parts = @ \cup {c}].parts = heap[n].parts \cup {c}
  BY <1>3 DEF Record
<1>5. heap' = [heap EXCEPT ![n] = [heap[n] EXCEPT !.parts = @ \cup {c}]] BY <1>1
<1>6. /\ DOMAIN heap' = DOMAIN heap /\ \A m \in DOMAIN heap : m # n => heap'[m] = heap[m]
      /\ heap'[n].kind = heap[n].kind /\ heap'[n].of = heap[n].of /\ heap'[n].parts = heap[n].parts \cup {c}
  BY <1>2, <1>4, <1>5
<1> HIDE DEF n, c
<1>7. /\ \A m \in DOMAIN heap : m \in DOMAIN heap' /\ heap'[m].kind = heap[m].kind
                                /\ heap[m].parts \subseteq heap'[m].parts
      /\ \A m \in DOMAIN heap : heap[m].kind # "page" => heap'[m].of = heap[m].of
  BY <1>6
<1>8. ObjectsStay(heap, heap') BY <1>3, <1>7, GainsStay
<1>9. ModifiersStay BY <1>2, <1>6 DEF ModifiersStay
<1>10. NewDeleted BY <1>6 DEF NewDeleted
<1>11. Quiet BY DEF MergePDFPageToFormXObject, Quiet
<1>12. OwnersRemain BY DEF MergePDFPageToFormXObject, OwnersRemain
<1> QED BY <1>8, <1>9, <1>10, <1>11, <1>12, QuietAccounts

\* What stays keeps its parts, as far as these stay, and what it points to.
KeepsParts(h, g) ==
    /\ \A n \in DOMAIN h : n \in DOMAIN g =>
          /\ g[n].kind = h[n].kind /\ h[n].parts \cap DOMAIN g \subseteq g[n].parts
          /\ h[n].kind \notin {"page", "copying"} => g[n].of = h[n].of
    /\ \A n \in DOMAIN h : n \notin DOMAIN g /\ h[n].kind = "pageContext" =>
          h[n].parts \cap DOMAIN g = {}

LEMMA KeepingStays ==
    ASSUME NEW h, NEW g, IsHeap(h), KeepsParts(h, g)
    PROVE  ObjectsStay(h, g)
<1>1. ASSUME NEW n \in DOMAIN h, n \in DOMAIN g PROVE OwnedIn(h, n) \cap DOMAIN g \subseteq OwnedIn(g, n)
  <2> SUFFICES ASSUME NEW p \in OwnedIn(h, n), p \in DOMAIN g PROVE p \in OwnedIn(g, n) OBVIOUS
  <2>1. CASE p = n BY <2>1 DEF OwnedIn
  <2>2. CASE p # n
    <3>1. p \in h[n].parts /\ p \in DOMAIN h /\ h[p].of = n BY <1>1, <2>2 DEF OwnedIn
    <3>2. HasPart(h[n].kind, h[p].kind) BY <1>1, <3>1 DEF IsHeap, PartsFit
    <3>3. PointsBack(h[p].kind, h[n].kind) BY <1>1, <3>1 DEF IsHeap, OfFits
    <3>4. h[p].kind \notin {"page", "copying"} BY <3>2, <3>3 DEF HasPart, Deletable, Lent, PointsBack
    <3>5. p \in g[n].parts BY <1>1, <3>1 DEF KeepsParts
    <3>6. g[p].of = n BY <1>1, <3>1, <3>4 DEF KeepsParts
    <3> QED BY <1>1, <3>5, <3>6 DEF OwnedIn
  <2> QED BY <2>1, <2>2
<1>2. \A n \in DOMAIN h : n \in DOMAIN g =>
          g[n].kind = h[n].kind /\ h[n].parts \cap DOMAIN g \subseteq g[n].parts
  BY DEF KeepsParts
<1>3. \A n \in DOMAIN h : n \notin DOMAIN g /\ h[n].kind = "pageContext" => h[n].parts \cap DOMAIN g = {}
  BY DEF KeepsParts
<1> QED BY <1>1, <1>2, <1>3 DEF ObjectsStay

LEMMA QuietStays ==
    ASSUME DInv, DInv', OInv, LInv, ~thrown, Quiet, OwnersStay(heap, wrappers, heap', wrappers'),
           ~thrown' => /\ ObjectsStay(heap, heap') /\ ModifiersStay
                       /\ NewAccounted(heap, heap', wrappers', event', out', busy')
    PROVE  LInv'
<1> SUFFICES ASSUME ~thrown' PROVE StepStays BY StepAccounts
<1>1. DueStay(event, heap', wrappers', event') BY DEF DueStay, Quiet
<1>2. OpenStay(heap, out, heap', out')
  <2>1. out'.open = out.open
    <3>1. busy = {} => WholeObject(out) = out BY WholeIs DEF OInv, Nests
    <3> QED BY <3>1 DEF Quiet
  <2> QED BY <2>1 DEF OpenStay, IsOpen
<1>3. EndedStay(heap, busy, heap', busy') BY DEF EndedStay, ModifiersStay, Quiet
<1> QED BY <1>1, <1>2, <1>3 DEF StepStays

LEMMA FollowsSame ==
    ASSUME DInv, DInv', NEW v \in wrappers, v.owns, v \in wrappers'
    PROVE  v.native \in DOMAIN heap /\ Follows(heap', v, v)
<1>1. v.native \in DOMAIN heap BY DEF DInv, IsWrapped, OwnerFits
<1>2. v.native \in DOMAIN heap' BY DEF DInv, IsWrapped, OwnerFits
<1> QED BY <1>1, <1>2 DEF Follows

LEMMA LettingGoAccounts ==
    ASSUME DInv, DInv', OInv, LInv, NEW w \in wrappers, LetGoOf(w)
    PROVE  LInv'
<1>1. thrown' = thrown /\ heap' = heap /\ Quiet BY DEF LetGoOf, Quiet
<1>2. CASE thrown BY <1>1, <1>2 DEF LInv
<1>3. CASE ~thrown
  <2>1. w \in Wrapper BY DEF DInv, IsWrapped
  <2> DEFINE u == [w EXCEPT !.held = FALSE]
  <2>2. u.owns = w.owns /\ u.native = w.native /\ u.class = w.class /\ u.also = w.also
    BY <2>1 DEF Wrapper
  <2>3. w.class = "PDFPage" => w.also = None BY <1>3 DEF LetGoOf, MayLetGo
  <2>4. \A v \in wrappers : v # w => v \in wrappers' BY DEF LetGoOf, LetGo
  <2>5. w.owns => u \in wrappers' BY DEF LetGoOf, LetGo
  <2> HIDE DEF u
  <2>6. None \notin DOMAIN heap' BY <1>1, NativesAssumption DEF DInv, IsHeap, None
  <2>7. OwnersStay(heap, wrappers, heap', wrappers')
    <3> SUFFICES ASSUME NEW v \in wrappers, v.owns
                 PROVE  v.native \in DOMAIN heap /\ \E y \in wrappers' : Follows(heap', v, y)
      BY DEF OwnersStay
    <3>1. CASE v # w BY <2>4, <3>1, FollowsSame
    <3>2. CASE v = w
      <4>1. w.native \in DOMAIN heap BY <3>2 DEF DInv, IsWrapped, OwnerFits
      <4>2. Follows(heap', w, u) BY <1>1, <2>2, <2>3, <2>6, <3>2, <4>1 DEF Follows
      <4> QED BY <2>5, <3>2, <4>1, <4>2
    <3> QED BY <3>1, <3>2
  <2>8. ObjectsStay(heap, heap') /\ ModifiersStay /\ NewAccounted(heap, heap', wrappers', event', out', busy')
    BY <1>1, SameStay DEF ModifiersStay, NewAccounted
  <2> QED BY <1>1, <1>3, <2>7, <2>8, QuietStays
<1> QED BY <1>2, <1>3

LEMMA ContextAccounts ==
    ASSUME OwnersOnly, DInv, DInv', OInv, LInv, ~thrown, NEW w \in Of("PDFPage"), StartPageContentContext(w)
    PROVE  LInv'
<1> DEFINE n == w.native
           a == New(1)
           c == IF heap[n].of # None THEN heap[n].of ELSE New(1)
           u == [w EXCEPT !.also = c]
<1>1. w.owns /\ OwnerFits(heap, w) /\ w.class = "PDFPage" /\ w.held /\ w \in Wrapper /\ w \in wrappers
  BY Used DEF StartPageContentContext, OwnersOnly
<1>2. n \in DOMAIN heap /\ n \in Live /\ heap[n].kind = "page" /\ heap[n] \in Record /\ w.also = heap[n].of
  BY <1>1 DEF OwnerFits, OwnerOf, Live, DInv, IsHeap
<1>3. Quiet BY DEF StartPageContentContext, Quiet
<1>4. u.owns /\ u.native = n /\ u.class = "PDFPage" /\ u.held /\ u.also = c
  BY <1>1 DEF Wrapper
<1>5. wrappers' = (wrappers \ {w}) \cup {u, Wrap("PageContentContext", c, FALSE, None)}
  BY <1>2 DEF StartPageContentContext
<1>6. None \notin DOMAIN heap' BY NativesAssumption DEF DInv, IsHeap, None
<1>7. heap[n].of # None => c = w.also BY <1>2
<1>8. u \in wrappers' /\ \A v \in wrappers : v # w => v \in wrappers' BY <1>5
<1> HIDE DEF u
<1>9. CASE heap[n].of # None
  <2>1. heap' = [heap EXCEPT ![n].of = heap[n].of] BY <1>2, <1>9 DEF StartPageContentContext
  <2>2. [heap[n] EXCEPT !.of = heap[n].of] = heap[n] BY <1>2 DEF Record
  <2>3. heap' = [heap EXCEPT ![n] = [heap[n] EXCEPT !.of = heap[n].of]] BY <2>1
  <2>4. heap \in [DOMAIN heap -> Record] BY DEF DInv, IsHeap
  <2>5. heap' = heap BY <1>2, <2>2, <2>3, <2>4
  <2> HIDE DEF c
  <2>6. OwnersStay(heap, wrappers, heap', wrappers')
    <3> SUFFICES ASSUME NEW v \in wrappers, v.owns
                 PROVE  v.native \in DOMAIN heap /\ \E y \in wrappers' : Follows(heap', v, y)
      BY DEF OwnersStay
    <3>1. CASE v # w BY <1>8, <3>1, FollowsSame
    <3>2. CASE v = w
      <4>1. Follows(heap', w, u)
        BY <1>1, <1>2, <1>4, <1>7, <1>9, <2>5, <3>2 DEF Follows, WithProxy
      <4> QED BY <1>2, <1>8, <3>2, <4>1
    <3> QED BY <3>1, <3>2
  <2>7. ObjectsStay(heap, heap') /\ ModifiersStay /\ NewAccounted(heap, heap', wrappers', event', out', busy')
    BY <2>5, SameStay DEF ModifiersStay, NewAccounted
  <2> QED BY <1>3, <2>6, <2>7, QuietStays
<1>10. CASE heap[n].of = None
  <2>1. Room(1) /\ StartsContext(w, a)
    <3>1. /\ Room(1)
          /\ heap' = [Created(heap, <<Native("pageContext", n, {})>>) EXCEPT ![n].of = a]
          /\ wrappers' = (wrappers \ {w}) \cup {[w EXCEPT !.also = a], BorrowedOf("PageContentContext", a)}
      BY <1>2, <1>10 DEF StartPageContentContext, BorrowedOf
    <3> QED BY <3>1 DEF StartsContext
  <2>2. NewContext(heap', w, a) BY <1>2, <2>1, NewContextIs
  <2>3. c = a BY <1>10
  <2> HIDE DEF a, c
  <2>4. /\ DOMAIN heap' = DOMAIN heap \cup {a} /\ \A m \in DOMAIN heap : m # n => heap'[m] = heap[m]
        /\ heap'[n].kind = heap[n].kind /\ heap'[n].parts = heap[n].parts
        /\ heap'[a].kind = "pageContext"
    <3>1. [heap[n] EXCEPT !.of = a].kind = heap[n].kind /\ [heap[n] EXCEPT !.of = a].parts = heap[n].parts
      BY <1>2 DEF Record
    <3>2. Native("pageContext", n, {}).kind = "pageContext" BY DEF Native
    <3> QED BY <2>2, <3>1, <3>2 DEF NewContext
  <2>5. OwnersStay(heap, wrappers, heap', wrappers')
    <3> SUFFICES ASSUME NEW v \in wrappers, v.owns
                 PROVE  v.native \in DOMAIN heap /\ \E y \in wrappers' : Follows(heap', v, y)
      BY DEF OwnersStay
    <3>1. CASE v # w BY <1>8, <3>1, FollowsSame
    <3>2. CASE v = w
      <4>1. w.also \notin DOMAIN heap' BY <1>2, <1>6, <1>10
      <4>2. n \in DOMAIN heap' BY <1>2, <2>4
      <4>3. Follows(heap', w, u) BY <1>1, <1>4, <3>2, <4>1, <4>2 DEF Follows, WithProxy
      <4> QED BY <1>2, <1>8, <3>2, <4>3
    <3> QED BY <3>1, <3>2
  <2>6. HasPage(wrappers', a) BY <1>4, <1>8, <2>3 DEF HasPage
  <2>7. NewAccounted(heap, heap', wrappers', event', out', busy')
    BY <2>4, <2>6 DEF NewAccounted, IsKept
  <2> HIDE DEF n
  <2>8. ModifiersStay BY <1>2, <2>4 DEF ModifiersStay
  <2>9. IsHeap(heap) BY DEF DInv
  <2>10. KeepsParts(heap, heap')
    <3>1. \A m \in DOMAIN heap : /\ m \in DOMAIN heap' /\ heap'[m].kind = heap[m].kind
                                 /\ heap'[m].parts = heap[m].parts
                                 /\ heap[m].kind # "page" => heap'[m].of = heap[m].of
      BY <1>2, <2>4
    <3> QED BY <3>1 DEF KeepsParts
  <2>11. ObjectsStay(heap, heap') BY <2>9, <2>10, KeepingStays
  <2> QED BY <1>3, <2>5, <2>7, <2>8, <2>11, QuietStays
<1> QED BY <1>9, <1>10

LEMMA NoneOpen ==
    ASSUME NEW o, o.open = <<>> \/ o.open = <<Object>> \/ \E s : OnlyStream(o, s)
    PROVE  \A n : ~IsOpen(o, n)
<1> SUFFICES ASSUME NEW n, IsOpen(o, n) PROVE FALSE OBVIOUS
<1>1. PICK i \in DOMAIN o.open : o.open[i] = Dictionary(n) BY DEF IsOpen
<1>2. o.open[i][1] = "dictionary" BY <1>1, ThingsAre
<1>3. CASE o.open = <<>> BY <1>1, <1>3
<1>4. CASE o.open = <<Object>>
  <2>1. i = 1 BY <1>1, <1>4
  <2> QED BY <1>2, <1>4, <2>1, ThingsAre
<1>5. CASE \E s : OnlyStream(o, s)
  <2>1. PICK s : o.open = <<Object, Stream(s)>> BY <1>5 DEF OnlyStream
  <2>2. i = 1 \/ i = 2 BY <1>1, <2>1
  <2>3. o.open[i] = Object \/ o.open[i] = Stream(s) BY <2>1, <2>2
  <2>4. Object[1] = "object" /\ Stream(s)[1] = "stream" BY ThingsAre
  <2> QED BY <1>2, <2>3, <2>4
<1> QED BY <1>3, <1>4, <1>5

LEMMA OpenStays ==
    ASSUME NEW h, NEW g, NEW o, NEW q, \A n : ~IsOpen(o, n)
    PROVE  OpenStay(h, o, g, q)
BY DEF OpenStay

\* The context of a page that the program may draw on.
LEMMA DrawnAlone ==
    ASSUME DInv, OInv, ~thrown, NEW c \in Nat, c \in DOMAIN heap => heap[c].kind = "pageContext",
           busy \subseteq {c}
    PROVE  /\ \A n : ~IsOpen(out, n)
           /\ \A m \in busy : m \in DOMAIN heap => heap[m].kind = "pageContext"
<1>1. \A m \in busy : m \in DOMAIN heap => heap[m].kind = "pageContext" OBVIOUS
<1>2. out.open = <<>> \/ \E s : OnlyStream(out, s)
  <2>1. CASE c \notin DOMAIN heap
    <3>1. c \notin {Own, Listening, Waiting} BY DEF Own, Listening, Waiting
    <3>2. c \notin busy BY <2>1, <3>1 DEF DInv, IsBusy
    <3>3. busy = {} BY <3>2
    <3> QED BY <3>3, NothingOpen
  <2>2. CASE c \in DOMAIN heap BY <2>2, ContextIs
  <2> QED BY <2>1, <2>2
<1> QED BY <1>1, <1>2, NoneOpen

\* An object loses its parts.
LEMMA WithoutStreamStays ==
    ASSUME IsHeap(heap), NEW n, n \in DOMAIN heap => heap[n].kind # "modifier"
    PROVE  /\ ObjectsStay(heap, WithoutStream(n))
           /\ DOMAIN WithoutStream(n) \subseteq DOMAIN heap
           /\ \A m \in DOMAIN heap : m \in DOMAIN WithoutStream(n) /\ heap[m].kind = "modifier" =>
                 WithoutStream(n)[m].parts = heap[m].parts
<1> DEFINE g == WithoutStream(n)
           S == StreamsOf(n)
<1>1. /\ DOMAIN g = DOMAIN heap \ S
      /\ \A m \in DOMAIN heap \ S : g[m] = IF m = n THEN [heap[m] EXCEPT !.parts = {}] ELSE heap[m]
  BY WithoutStreamIs
<1>2. S = IF n \in DOMAIN heap THEN heap[n].parts ELSE {} BY DEF StreamsOf, Live
<1>3. n \in DOMAIN heap => /\ [heap[n] EXCEPT !.parts = {}].kind = heap[n].kind
                           /\ [heap[n] EXCEPT !.parts = {}].of = heap[n].of
                           /\ [heap[n] EXCEPT !.parts = {}].parts = {}
  <2>1. n \in DOMAIN heap => heap[n] \in Record BY DEF IsHeap
  <2> QED BY <2>1 DEF Record
<1>4. ASSUME NEW m \in DOMAIN heap, m \notin DOMAIN g PROVE heap[m].kind # "pageContext"
  <2>1. m \in S BY <1>1, <1>4
  <2>2. n \in DOMAIN heap /\ m \in heap[n].parts BY <1>2, <2>1
  <2>3. HasPart(heap[n].kind, heap[m].kind) BY <1>4, <2>2 DEF IsHeap, PartsFit
  <2> QED BY <2>3 DEF HasPart, Deletable, Lent
<1> HIDE DEF g, S
<1>5. ASSUME NEW m \in DOMAIN heap, m \in DOMAIN g
      PROVE  /\ g[m].kind = heap[m].kind /\ g[m].of = heap[m].of
             /\ heap[m].parts \cap DOMAIN g \subseteq g[m].parts
             /\ m # n => g[m].parts = heap[m].parts
  <2>1. CASE m = n BY <1>1, <1>2, <1>3, <1>5, <2>1
  <2>2. CASE m # n BY <1>1, <1>5, <2>2
  <2> QED BY <2>1, <2>2
<1>6. KeepsParts(heap, g) BY <1>4, <1>5 DEF KeepsParts
<1>7. ObjectsStay(heap, g) BY <1>6, KeepingStays
<1>8. DOMAIN g \subseteq DOMAIN heap BY <1>1
<1>9. \A m \in DOMAIN heap : m \in DOMAIN g /\ heap[m].kind = "modifier" => g[m].parts = heap[m].parts
  BY <1>5
<1> QED BY <1>7, <1>8, <1>9 DEF g

LEMMA ClosingAccounts ==
    ASSUME DInv, DInv', OInv, LInv, ~thrown, NEW w \in Of("InputFile") \cup Of("OutputFile"), CloseFile(w)
    PROVE  LInv'
<1> DEFINE n == w.native
<1>1. w.owns /\ heap' = WithoutStream(n) /\ wrappers' = wrappers \ About(StreamsOf(n)) /\ Quiet
  BY DEF CloseFile, Quiet
<1>2. n \in DOMAIN heap /\ heap[n].kind = "file" BY <1>1, FileIs DEF Live
<1>3. OwnersRemain BY <1>1, AboutAreLent DEF OwnersRemain
<1>4. IsHeap(heap) BY DEF DInv
<1> HIDE DEF n
<1>5. /\ ObjectsStay(heap, heap') /\ DOMAIN heap' \subseteq DOMAIN heap
      /\ \A m \in DOMAIN heap : m \in DOMAIN heap' /\ heap[m].kind = "modifier" => heap'[m].parts = heap[m].parts
  BY <1>1, <1>2, <1>4, WithoutStreamStays
<1>6. ModifiersStay BY <1>5 DEF ModifiersStay
<1>7. NewDeleted BY <1>5 DEF NewDeleted
<1> QED BY <1>1, <1>3, <1>5, <1>6, <1>7, QuietAccounts

LEMMA PausingAccounts ==
    ASSUME DInv, DInv', OInv, LInv, ~thrown, NEW c \in Nat, c \in DOMAIN heap => heap[c].kind = "pageContext",
           busy \subseteq {c}, event' = event, heap' = WithoutStream(c),
           wrappers' = wrappers \ About(StreamsOf(c))
    PROVE  LInv'
<1>1. IsHeap(heap) BY DEF DInv
<1>2. /\ ObjectsStay(heap, heap') /\ DOMAIN heap' \subseteq DOMAIN heap
      /\ \A m \in DOMAIN heap : m \in DOMAIN heap' /\ heap[m].kind = "modifier" => heap'[m].parts = heap[m].parts
  BY <1>1, WithoutStreamStays
<1>3. OwnersRemain BY AboutAreLent DEF OwnersRemain
<1>4. OwnersStay(heap, wrappers, heap', wrappers') BY <1>3, OwnersRemaining
<1>5. /\ \A n : ~IsOpen(out, n)
      /\ \A m \in busy : m \in DOMAIN heap => heap[m].kind = "pageContext"
  BY DrawnAlone
<1>6. OpenStay(heap, out, heap', out') BY <1>5, OpenStays
<1>7. DueStay(event, heap', wrappers', event') BY DEF DueStay
<1>8. EndedStay(heap, busy, heap', busy') BY <1>2, <1>5 DEF EndedStay
<1>9. NewAccounted(heap, heap', wrappers', event', out', busy') BY <1>2 DEF NewAccounted
<1>10. StepStays BY <1>2, <1>4, <1>6, <1>7, <1>8, <1>9 DEF StepStays
<1> QED BY <1>10, StepAccounts

LEMMA PageOf ==
    ASSUME DInv, NEW w \in Of("PDFPage")
    PROVE  LET c == heap[w.native].of
           IN  c \in Nat /\ (c \in DOMAIN heap => heap[c].kind = "pageContext")
<1> DEFINE n == w.native
           c == heap[n].of
<1>1. n \in DOMAIN heap /\ heap[n].kind = "page"
  <2>1. /\ w.class = "PDFPage" /\ (w.owns => OwnerFits(heap, w))
        /\ (~w.owns => BorrowerFits(heap, wrappers, w))
    BY Used
  <2> QED BY <2>1 DEF OwnerFits, OwnerOf, BorrowerFits, BorrowerOf
<1>2. heap[n] \in Record /\ OfFits(heap, n) BY <1>1 DEF DInv, IsHeap
<1>3. \A k : PointsBack("page", k) => k = "pageContext" BY DEF PointsBack
<1> QED BY <1>1, <1>2, <1>3 DEF OfFits, Record

LEMMA ContextsPause ==
    ASSUME DInv, DInv', OInv, LInv, ~thrown,
           \/ \E x \in Of("PageContentContext") : PausePageContentContext(x)
           \/ \E w \in Of("PDFPage") : Merges(w)
    PROVE  LInv'
<1>1. ASSUME NEW x \in Of("PageContentContext"), PausePageContentContext(x) PROVE LInv'
  <2> DEFINE c == x.native
  <2>1. c \in DOMAIN heap /\ heap[c].kind = "pageContext" /\ c \in Nat
    BY PageContextOf DEF DInv, IsHeap
  <2>2. /\ busy \subseteq {c} /\ event' = event /\ heap' = WithoutStream(c)
        /\ wrappers' = wrappers \ About(StreamsOf(c))
    BY <1>1 DEF PausePageContentContext
  <2> HIDE DEF c
  <2> QED BY <2>1, <2>2, PausingAccounts
<1>2. ASSUME NEW w \in Of("PDFPage"), Merges(w) PROVE LInv'
  <2> DEFINE c == heap[w.native].of
  <2>1. c \in Nat /\ (c \in DOMAIN heap => heap[c].kind = "pageContext") BY PageOf
  <2>2. /\ busy \subseteq {c} /\ event' = event /\ heap' = WithoutStream(c)
        /\ wrappers' = wrappers \ About(StreamsOf(c))
    BY <1>2 DEF Merges
  <2> HIDE DEF c
  <2> QED BY <2>1, <2>2, PausingAccounts
<1> QED BY <1>1, <1>2

\* A modifier that the program drew on is drawn on still.
LEMMA BusyEnds ==
    ASSUME DInv, busy \subseteq busy' \cup Special, ModifiersStay
    PROVE  EndedStay(heap, busy, heap', busy')
<1>1. \A n \in DOMAIN heap : n \notin Special BY SpecialsDiffer DEF DInv
<1> QED BY <1>1 DEF EndedStay, ModifiersStay

LEMMA WritingAccounts ==
    ASSUME DInv, DInv', LInv, ~thrown,
           ~thrown' => /\ ObjectsStay(heap, heap') /\ OwnersRemain /\ ModifiersStay
                       /\ busy \subseteq busy' \cup Special /\ event' = event
                       /\ OpenStay(heap, out, heap', out')
                       /\ NewAccounted(heap, heap', wrappers', event', out', busy')
    PROVE  LInv'
<1> SUFFICES ASSUME ~thrown' PROVE StepStays BY StepAccounts
<1>1. OwnersStay(heap, wrappers, heap', wrappers') BY OwnersRemaining
<1>2. DueStay(event, heap', wrappers', event') BY DEF DueStay
<1>3. EndedStay(heap, busy, heap', busy') BY BusyEnds
<1> QED BY <1>1, <1>2, <1>3 DEF StepStays

LEMMA TokensAccount ==
    ASSUME DInv, DInv', LInv, ~thrown, UNCHANGED <<heap, wrappers, event>>,
           busy \subseteq busy' \cup Special, OpenStay(heap, out, heap', out')
    PROVE  LInv'
<1>1. ObjectsStay(heap, heap') BY SameStay
<1>2. OwnersRemain /\ ModifiersStay BY DEF OwnersRemain, ModifiersStay
<1>3. NewAccounted(heap, heap', wrappers', event', out', busy') BY DEF NewAccounted
<1> QED BY <1>1, <1>2, <1>3, WritingAccounts

\* What is open when something is started, or ended, within it.
LEMMA StaysOpen ==
    ASSUME NEW o, IsOutput(o), NEW q, NEW x, q.open = Append(o.open, x)
    PROVE  /\ \A n : IsOpen(o, n) => IsOpen(q, n)
           /\ \A n : x = Dictionary(n) => IsOpen(q, n)
<1>1. o.open \in Seq(Thing) BY DEF IsOutput
<1>2. /\ DOMAIN q.open = 1 .. (Len(o.open) + 1) /\ DOMAIN o.open = 1 .. Len(o.open) /\ Len(o.open) \in Nat
      /\ \A i \in 1 .. Len(o.open) : q.open[i] = o.open[i]
      /\ q.open[Len(o.open) + 1] = x
  BY <1>1
<1>3. \A i \in DOMAIN o.open : i \in DOMAIN q.open /\ q.open[i] = o.open[i] BY <1>2
<1>4. Len(o.open) + 1 \in DOMAIN q.open BY <1>2
<1> QED BY <1>2, <1>3, <1>4 DEF IsOpen

LEMMA RestStaysOpen ==
    ASSUME NEW o, IsOutput(o), NEW x, Top(o) = x, o.open # <<>>, NEW n, IsOpen(o, n), x # Dictionary(n)
    PROVE  IsOpen(Closed(o, x), n)
<1> DEFINE q == Closed(o, x)
<1>1. /\ IsOutput(q) /\ Len(q.open) = Len(o.open) - 1
      /\ \A i \in 1 .. (Len(o.open) - 1) : q.open[i] = o.open[i]
  BY Closing
<1> HIDE DEF q
<1>2. o.open \in Seq(Thing) /\ q.open \in Seq(Thing) BY <1>1 DEF IsOutput
<1>3. PICK i \in DOMAIN o.open : o.open[i] = Dictionary(n) BY DEF IsOpen
<1>4. Top(o) = o.open[Len(o.open)] BY TopIs
<1>5. i # Len(o.open) BY <1>3, <1>4
<1>6. i \in 1 .. (Len(o.open) - 1) /\ i \in DOMAIN q.open BY <1>1, <1>2, <1>3, <1>5
<1> QED BY <1>1, <1>3, <1>6 DEF IsOpen, q

LEMMA ObjectAccounts ==
    ASSUME DInv, DInv', OInv, LInv, ~thrown, StartNewIndirectObject \/ EndIndirectObject, UNCHANGED event
    PROVE  LInv'
<1>1. UNCHANGED <<heap, wrappers, event>> /\ busy \subseteq busy' \cup Special
  BY DEF StartNewIndirectObject, EndIndirectObject, Special
<1>2. out.open = <<>> \/ out.open = <<Object>>
  <2>1. CASE StartNewIndirectObject BY <2>1, NothingOpen DEF StartNewIndirectObject
  <2>2. CASE EndIndirectObject
    <3>1. busy = {Own} /\ Top(out) = Object BY <2>2 DEF EndIndirectObject
    <3>2. IsOutput(out) /\ OwnObject(out) BY <3>1, WritingIs, SpecialsDiffer DEF InOwn, InCall
    <3> QED BY <3>1, <3>2, OwnTop
  <2> QED BY <2>1, <2>2
<1>3. OpenStay(heap, out, heap', out') BY <1>2, NoneOpen, OpenStays
<1> QED BY <1>1, <1>3, TokensAccount

LEMMA WritingInner ==
    ASSUME DInv, OInv, ~thrown, IsWriting
    PROVE  IsOutput(out) /\ out.open # <<>>
<1>1. IsOutput(out) /\ event.left \in Seq(Nat) /\ (InOwn(out) \/ InCall(out)) BY WritingIs DEF IsWriting
<1> QED BY <1>1, InnerTop DEF InOwn, InCall

LEMMA ArrayAccounts ==
    ASSUME DInv, DInv', OInv, LInv, ~thrown, StartArray \/ EndArray, UNCHANGED event
    PROVE  LInv'
<1>1. UNCHANGED <<heap, wrappers, event, busy>> /\ IsWriting BY DEF StartArray, EndArray
<1>2. IsOutput(out) /\ out.open # <<>> BY <1>1, WritingInner
<1>3. \A n : Array # Dictionary(n) BY DEF Array, Dictionary
<1>4. OpenStay(heap, out, heap', out')
  <2>1. CASE StartArray
    <3>1. out'.open = Append(out.open, Array) BY <2>1 DEF StartArray, Opened
    <3> QED BY <1>2, <3>1, StaysOpen DEF OpenStay
  <2>2. CASE EndArray
    <3>1. Top(out) = Array /\ out' = Closed(out, Array) BY <2>2 DEF EndArray
    <3> QED BY <1>2, <1>3, <3>1, RestStaysOpen DEF OpenStay
  <2> QED BY <2>1, <2>2
<1> QED BY <1>1, <1>4, TokensAccount

LEMMA StreamEndAccounts ==
    ASSUME DInv, DInv', OInv, LInv, ~thrown, NEW x \in Of("PDFStream"), EndPDFStream(x), UNCHANGED event
    PROVE  LInv'
<1>1. UNCHANGED <<heap, wrappers, event>> /\ busy = {Own} /\ Top(out) = Stream(x.native) BY DEF EndPDFStream
<1>2. IsOutput(out) /\ OwnObject(out) BY <1>1, WritingIs, SpecialsDiffer DEF InOwn, InCall
<1>3. \E s : OnlyStream(out, s) BY <1>1, <1>2, OwnTop
<1>4. OpenStay(heap, out, heap', out') BY <1>3, NoneOpen, OpenStays
<1>5. busy \subseteq busy' \cup Special BY <1>1 DEF Special
<1> QED BY <1>1, <1>4, <1>5, TokensAccount

LEMMA DictionaryAccounts ==
    ASSUME DInv, DInv', OInv, LInv, ~thrown, StartDictionary, UNCHANGED event
    PROVE  LInv'
<1> DEFINE r == Native("dictionary", None, {})
           rs == <<r>>
<1>1. /\ IsWriting /\ Room(1) /\ heap' = Created(heap, rs) /\ UNCHANGED <<event, busy>>
      /\ out' = DictionaryStarted(out, New(1)) /\ OwnersRemain
  BY DEF StartDictionary, OwnersRemain
<1>2. DOMAIN rs = 1 .. 1 /\ rs[1] = r /\ r.kind = "dictionary" /\ 1 \in 1 .. 3 BY DEF Native
<1> HIDE DEF r, rs
<1>3. MadeOf(heap', rs, 1) /\ ObjectsStay(heap, heap') /\ ModifiersStay BY <1>1, <1>2, MadeIs
<1>4. out'.open = Append(out.open, Dictionary(New(1))) BY <1>1 DEF DictionaryStarted, Opened
<1>5. IsOutput(out) BY <1>1, WritingInner
<1>6. (\A n : IsOpen(out, n) => IsOpen(out', n)) /\ IsOpen(out', New(1)) BY <1>4, <1>5, StaysOpen
<1>7. OpenStay(heap, out, heap', out') BY <1>6 DEF OpenStay
<1>8. NewAccounted(heap, heap', wrappers', event', out', busy')
  <2> SUFFICES ASSUME NEW n \in DOMAIN heap', n \notin DOMAIN heap
               PROVE  IsKept(heap', wrappers', event', out', n) /\ heap'[n].kind # "modifier"
    BY DEF NewAccounted
  <2>1. PICK i \in 1 .. 1 : n = New(i) BY <1>3, OfMade
  <2>2. n = New(1) /\ heap'[n].kind = "dictionary" BY <1>2, <1>3, <2>1 DEF MadeOf
  <2> QED BY <1>6, <2>2 DEF IsKept
<1> QED BY <1>1, <1>3, <1>7, <1>8, WritingAccounts

\* Objects that no page's context is among go.
LEMMA FreedStays ==
    ASSUME NEW h, IsHeap(h), NEW F, \A n \in DOMAIN h : n \in F => h[n].kind # "pageContext"
    PROVE  ObjectsStay(h, Freed(h, F))
<1> DEFINE g == Freed(h, F)
<1>1. DOMAIN g = DOMAIN h \ F /\ \A n \in DOMAIN h \ F : g[n] = h[n] BY FreedIs
<1> HIDE DEF g
<1>2. KeepsParts(h, g) BY <1>1 DEF KeepsParts
<1> QED BY <1>2, KeepingStays DEF g

LEMMA DictionaryEndAccounts ==
    ASSUME DInv, DInv', OInv, LInv, ~thrown, NEW x \in Of("DictionaryContext"), EndDictionary(x), UNCHANGED event
    PROVE  LInv'
<1> SUFFICES ASSUME ~thrown' PROVE LInv' BY DEF LInv
<1> DEFINE n == x.native
<1>1. /\ IsWriting /\ Top(out)[1] = "dictionary" /\ UNCHANGED <<busy, event>>
      /\ thrown' = (thrown \/ InnermostDictionary(out) # n)
  BY DEF EndDictionary, Throws
<1>2. InnermostDictionary(out) = n BY <1>1
<1>3. out' = Closed(out, Dictionary(n)) /\ heap' = Freed(heap, {n}) /\ wrappers' = wrappers \ {x}
  BY <1>2 DEF EndDictionary
<1>4. IsOutput(out) /\ out.open # <<>> BY <1>1, WritingInner
<1>5. Top(out) = Dictionary(n) BY <1>1, <1>2, <1>4, InnermostIs
<1>6. ~x.owns /\ n \in DOMAIN heap /\ heap[n].kind = "dictionary"
  <2>1. /\ x.class = "DictionaryContext" /\ (x.owns => OwnerFits(heap, x))
        /\ (~x.owns => BorrowerFits(heap, wrappers, x))
    BY Used
  <2> QED BY <2>1 DEF OwnerFits, OwnerOf, BorrowerFits, BorrowerOf
<1> HIDE DEF n
<1>7. IsHeap(heap) /\ DOMAIN heap' = DOMAIN heap \ {n} /\ \A m \in DOMAIN heap' : heap'[m] = heap[m]
  <2> DEFINE F == {n}
              g == Freed(heap, F)
  <2> HIDE DEF F
  <2>1. DOMAIN g = DOMAIN heap \ F /\ \A m \in DOMAIN heap \ F : g[m] = heap[m] BY FreedIs
  <2>2. heap' = g BY <1>3 DEF F
  <2> HIDE DEF g
  <2> QED BY <2>1, <2>2 DEF F, DInv
<1>8. ObjectsStay(heap, heap') BY <1>3, <1>6, <1>7, FreedStays
<1>9. ModifiersStay BY <1>7 DEF ModifiersStay
<1>10. OwnersRemain BY <1>3, <1>6 DEF OwnersRemain
<1>11. OpenStay(heap, out, heap', out')
  <2> SUFFICES ASSUME NEW m \in DOMAIN heap, m \in DOMAIN heap', IsOpen(out, m)
               PROVE  IsOpen(out', m)
    BY DEF OpenStay
  <2> DEFINE y == Dictionary(n)
  <2>1. y # Dictionary(m) BY <1>7, ThingsAre
  <2>2. Top(out) = y /\ out' = Closed(out, y) BY <1>3, <1>5
  <2> HIDE DEF y
  <2> QED BY <1>4, <2>1, <2>2, RestStaysOpen
<1>12. NewAccounted(heap, heap', wrappers', event', out', busy') BY <1>7 DEF NewAccounted
<1> QED BY <1>1, <1>8, <1>9, <1>10, <1>11, <1>12, WritingAccounts

\* New objects next to those that stay.
MadeOn(g, h, rs, k) ==
    /\ DOMAIN g = DOMAIN h \cup NewOnes(k)
    /\ \A n \in DOMAIN h : g[n] = h[n]
    /\ \A i \in 1 .. k : g[New(i)] = rs[i] /\ New(i) # None /\ New(i) \in DOMAIN g /\ New(i) \notin DOMAIN heap

LEMMA MadeAfter ==
    ASSUME DInv, DInv', NEW k \in 1 .. 3, Room(k), NEW h, DOMAIN h \subseteq DOMAIN heap,
           ObjectsStay(heap, h),
           \A n \in DOMAIN h : h[n].of \in {heap[n].of, None} /\ h[n].parts \subseteq heap[n].parts,
           NEW rs, DOMAIN rs = 1 .. k, heap' = Created(h, rs)
    PROVE  MadeOn(heap', h, rs, k) /\ ObjectsStay(heap, heap')
<1> DEFINE N == NewOnes(k)
<1>1. IsMade(h, heap', rs, k) BY CreatedIs DEF Live
<1>2. IsFresh(heap, wrappers, N) BY NewAreFresh DEF NewOnes
<1>3. heap' \in [DOMAIN heap' -> Record] /\ IsHeap(heap) BY DEF DInv, IsHeap
<1>4. Grows(h, heap', N) BY <1>1, <1>3 DEF Grows, IsMade
<1>5. \A n \in N : n # None BY <1>2, NativesAssumption DEF IsFresh, None
<1>6. IsFresh(h, {}, N)
  <2>1. N \subseteq 1 .. MaxNatives BY <1>2 DEF IsFresh
  <2>2. ASSUME NEW n \in DOMAIN h PROVE n \notin N /\ h[n].of \notin N /\ h[n].parts \cap N = {}
    <3>1. n \notin N /\ heap[n].of \notin N /\ heap[n].parts \cap N = {} BY <1>2, <2>2 DEF IsFresh
    <3>2. h[n].of \notin N BY <1>5, <3>1
    <3>3. h[n].parts \subseteq heap[n].parts OBVIOUS
    <3> HIDE DEF N
    <3> QED BY <3>1, <3>2, <3>3
  <2> QED BY <2>1, <2>2 DEF IsFresh
<1>7. \A i \in 1 .. k : New(i) \in N BY DEF NewOnes
<1>8. \A n \in N : n \notin DOMAIN heap BY <1>2 DEF IsFresh
<1>9. MadeOn(heap', h, rs, k) BY <1>1, <1>5, <1>7, <1>8 DEF MadeOn, IsMade
<1> HIDE DEF N
<1>10. ObjectsStay(h, heap') BY <1>4, <1>6, GrowsStay
<1>11. DOMAIN heap \cap DOMAIN heap' \subseteq DOMAIN h BY <1>4, <1>8 DEF Grows
<1>12. ObjectsStay(heap, heap') BY <1>3, <1>10, <1>11, StayTogether
<1> QED BY <1>9, <1>12

LEMMA OnMade ==
    ASSUME NEW g, NEW h, NEW rs, NEW k, MadeOn(g, h, rs, k), DOMAIN h \subseteq DOMAIN heap,
           NEW n \in DOMAIN g, n \notin DOMAIN heap
    PROVE  \E i \in 1 .. k : n = New(i)
BY DEF MadeOn, NewOnes

\* One of the objects that stay gets new parts.
GivenOn(g, f, rs, k, n, Q) ==
    /\ DOMAIN g = DOMAIN f \cup NewOnes(k)
    /\ \A m \in DOMAIN f : m # n => g[m] = heap[m]
    /\ g[n].kind = heap[n].kind /\ g[n].of = heap[n].of /\ g[n].parts = Q /\ n \in DOMAIN g
    /\ \A i \in 1 .. k : g[New(i)] = rs[i] /\ New(i) # None /\ New(i) \in DOMAIN g /\ New(i) \notin DOMAIN heap

LEMMA GivenKeeps ==
    ASSUME DInv, DInv', NEW k \in 1 .. 3, Room(k), NEW f, DOMAIN f \subseteq DOMAIN heap,
           \A m \in DOMAIN f : f[m] = heap[m],
           \A m \in DOMAIN heap : m \notin DOMAIN f => heap[m].kind # "pageContext",
           NEW n \in DOMAIN f, heap[n].parts \cap DOMAIN f = {},
           NEW rs, DOMAIN rs = 1 .. k, NEW Q, heap' = GivenParts(f, rs, n, Q)
    PROVE  GivenOn(heap', f, rs, k, n, Q) /\ ObjectsStay(heap, heap')
<1> DEFINE N == NewOnes(k)
           g == Created(f, rs)
<1>1. IsMade(f, g, rs, k) BY CreatedIs DEF Live
<1>2. IsFresh(heap, wrappers, N) BY NewAreFresh DEF NewOnes
<1>3. IsHeap(heap) /\ heap[n] \in Record BY DEF DInv, IsHeap
<1>4. \A m \in N : m # None BY <1>2, NativesAssumption DEF IsFresh, None
<1>5. heap' = [g EXCEPT ![n].parts = Q] BY DEF GivenParts
<1>6. \A i \in 1 .. k : New(i) \in N BY DEF NewOnes
<1>7. (\A m \in N : m \notin DOMAIN heap) /\ \A m \in DOMAIN heap : heap[m].parts \cap N = {}
  BY <1>2 DEF IsFresh
<1>8. DOMAIN g = DOMAIN f \cup N /\ (\A m \in DOMAIN f : g[m] = heap[m]) /\ \A i \in 1 .. k : g[New(i)] = rs[i]
  BY <1>1 DEF IsMade
<1> HIDE DEF N, g
<1>9. /\ [heap[n] EXCEPT !.parts = Q].kind = heap[n].kind
      /\ [heap[n] EXCEPT !.parts = Q].of = heap[n].of
      /\ [heap[n] EXCEPT !.parts = Q].parts = Q
  BY <1>3 DEF Record
<1>10. /\ DOMAIN heap' = DOMAIN g /\ \A m \in DOMAIN g : m # n => heap'[m] = g[m]
       /\ heap'[n] = [heap[n] EXCEPT !.parts = Q]
  BY <1>5, <1>8
<1>11. \A i \in 1 .. k : New(i) # n BY <1>6, <1>7
<1>12. GivenOn(heap', f, rs, k, n, Q)
  <2>1. DOMAIN heap' = DOMAIN f \cup N /\ \A m \in DOMAIN f : m # n => heap'[m] = heap[m] BY <1>8, <1>10
  <2>2. heap'[n].kind = heap[n].kind /\ heap'[n].of = heap[n].of /\ heap'[n].parts = Q /\ n \in DOMAIN heap'
    BY <1>8, <1>9, <1>10
  <2>3. \A i \in 1 .. k : heap'[New(i)] = rs[i] /\ New(i) # None /\ New(i) \in DOMAIN heap' /\ New(i) \notin DOMAIN heap
    BY <1>4, <1>6, <1>7, <1>8, <1>10, <1>11
  <2> QED BY <2>1, <2>2, <2>3 DEF GivenOn, N
<1>13. KeepsParts(heap, heap')
  <2>1. ASSUME NEW m \in DOMAIN heap, m \in DOMAIN heap'
        PROVE  /\ heap'[m].kind = heap[m].kind /\ heap'[m].of = heap[m].of
               /\ heap[m].parts \cap DOMAIN heap' \subseteq heap'[m].parts
    <3>1. m \in DOMAIN f BY <1>7, <1>8, <1>10, <2>1
    <3>2. CASE m = n
      <4>1. heap[n].parts \cap DOMAIN heap' = {} BY <1>7, <1>8, <1>10
      <4> QED BY <1>9, <1>10, <3>2, <4>1
    <3>3. CASE m # n BY <1>8, <1>10, <3>1, <3>3
    <3> QED BY <3>2, <3>3
  <2>2. \A m \in DOMAIN heap : m \notin DOMAIN heap' => heap[m].kind # "pageContext" BY <1>8, <1>10
  <2> QED BY <2>1, <2>2 DEF KeepsParts
<1> QED BY <1>3, <1>12, <1>13, KeepingStays

LEMMA OnGiven ==
    ASSUME NEW g, NEW f, NEW rs, NEW k, NEW n, NEW Q, GivenOn(g, f, rs, k, n, Q), DOMAIN f \subseteq DOMAIN heap,
           NEW m \in DOMAIN g, m \notin DOMAIN heap
    PROVE  \E i \in 1 .. k : m = New(i)
BY DEF GivenOn, NewOnes

LEMMA StreamAccounts ==
    ASSUME DInv, DInv', OInv, LInv, ~thrown, StartPDFStream, UNCHANGED event
    PROVE  LInv'
<1> DEFINE r == Native("stream", None, {})
           rs == <<r>>
           v == Wrap("PDFStream", New(1), TRUE, None)
<1>1. /\ busy = {Own} /\ Top(out) = Object /\ Room(1) /\ heap' = Created(heap, rs) /\ UNCHANGED <<event, busy>>
      /\ v \in wrappers' /\ OwnersRemain
  BY DEF StartPDFStream, OwnersRemain
<1>2. DOMAIN rs = 1 .. 1 /\ rs[1] = r /\ r.kind = "stream" /\ 1 \in 1 .. 3 BY DEF Native
<1>3. v.owns /\ v.native = New(1) BY DEF Wrap
<1> HIDE DEF r, rs, v
<1>4. MadeOf(heap', rs, 1) /\ ObjectsStay(heap, heap') /\ ModifiersStay BY <1>1, <1>2, MadeIs
<1>5. OpenStay(heap, out, heap', out')
  <2>1. IsOutput(out) /\ OwnObject(out) BY <1>1, WritingIs, SpecialsDiffer DEF InOwn, InCall
  <2>2. out.open = <<Object>> BY <1>1, <2>1, OwnTop
  <2> QED BY <2>2, NoneOpen, OpenStays
<1>6. NewAccounted(heap, heap', wrappers', event', out', busy')
  <2> SUFFICES ASSUME NEW n \in DOMAIN heap', n \notin DOMAIN heap
               PROVE  IsKept(heap', wrappers', event', out', n) /\ heap'[n].kind # "modifier"
    BY DEF NewAccounted
  <2>1. PICK i \in 1 .. 1 : n = New(i) BY <1>4, OfMade
  <2>2. n = New(1) /\ heap'[n].kind = "stream" /\ New(1) # None BY <1>2, <1>4, <2>1 DEF MadeOf
  <2>3. IsDeleted(heap', wrappers', n) BY <1>1, <1>3, <2>2, OwnerDeletes
  <2> QED BY <2>2, <2>3 DEF IsKept
<1> QED BY <1>1, <1>4, <1>5, <1>6, WritingAccounts

LEMMA StreamWithAccounts ==
    ASSUME DInv, DInv', OInv, LInv, ~thrown, NEW x \in Of("DictionaryContext"), StartPDFStreamWith(x),
           UNCHANGED event
    PROVE  LInv'
<1> DEFINE n == x.native
           F == {n}
           h == Freed(heap, F)
           r == Native("stream", None, {})
           rs == <<r>>
           v == Wrap("PDFStream", New(1), TRUE, None)
<1>1. /\ busy = {Own} /\ out.open = <<Object, Dictionary(n)>> /\ Room(1) /\ heap' = Created(h, rs)
      /\ UNCHANGED <<event, busy>> /\ wrappers' = (wrappers \ {x}) \cup {v}
  BY DEF StartPDFStreamWith
<1>2. DOMAIN rs = 1 .. 1 /\ rs[1] = r /\ r.kind = "stream" /\ 1 \in 1 .. 3 BY DEF Native
<1>3. v.owns /\ v.native = New(1) BY DEF Wrap
<1>4. ~x.owns /\ n \in DOMAIN heap /\ heap[n].kind = "dictionary"
  <2>1. /\ x.class = "DictionaryContext" /\ (x.owns => OwnerFits(heap, x))
        /\ (~x.owns => BorrowerFits(heap, wrappers, x))
    BY Used
  <2> QED BY <2>1 DEF OwnerFits, OwnerOf, BorrowerFits, BorrowerOf
<1>5. IsHeap(heap) BY DEF DInv
<1>6. \A m \in F : m = n OBVIOUS
<1>7. n \in F OBVIOUS
<1> HIDE DEF F
<1>8. DOMAIN h = DOMAIN heap \ F /\ \A m \in DOMAIN heap \ F : h[m] = heap[m] BY FreedIs
<1> HIDE DEF n
<1>9. ObjectsStay(heap, h) BY <1>4, <1>5, <1>6, FreedStays
<1> HIDE DEF r, rs, v, h
<1>10. MadeOn(heap', h, rs, 1) /\ ObjectsStay(heap, heap')
  <2>1. DOMAIN h \subseteq DOMAIN heap BY <1>8
  <2>2. \A m \in DOMAIN h : h[m].of \in {heap[m].of, None} /\ h[m].parts \subseteq heap[m].parts BY <1>8
  <2> QED BY <1>1, <1>2, <1>9, <2>1, <2>2, MadeAfter
<1>11. /\ DOMAIN heap' = DOMAIN h \cup NewOnes(1) /\ \A m \in DOMAIN h : heap'[m] = h[m]
       /\ heap'[New(1)] = r /\ New(1) # None /\ New(1) \in DOMAIN heap' /\ New(1) \notin DOMAIN heap
  BY <1>2, <1>10 DEF MadeOn
<1>12. NewOnes(1) = {New(1)} BY DEF NewOnes
<1>13. ModifiersStay BY <1>8, <1>11, <1>12 DEF ModifiersStay
<1>14. OwnersRemain BY <1>1, <1>4 DEF OwnersRemain
<1>15. OpenStay(heap, out, heap', out')
  <2> SUFFICES ASSUME NEW m \in DOMAIN heap, m \in DOMAIN heap', IsOpen(out, m)
               PROVE  FALSE
    BY DEF OpenStay
  <2>1. PICK i \in DOMAIN out.open : out.open[i] = Dictionary(m) BY DEF IsOpen
  <2>2. i = 1 \/ i = 2 BY <1>1, <2>1
  <2>3. out.open[1] = Object /\ out.open[2] = Dictionary(n) BY <1>1
  <2>4. m = n
    <3>1. Dictionary(m)[1] = "dictionary" /\ Dictionary(m)[2] = m /\ Dictionary(n)[2] = n /\ Object[1] = "object"
      BY ThingsAre
    <3> QED BY <2>1, <2>2, <2>3, <3>1
  <2> QED BY <1>4, <1>7, <1>8, <1>11, <1>12, <2>4
<1>16. NewAccounted(heap, heap', wrappers', event', out', busy')
  <2> SUFFICES ASSUME NEW m \in DOMAIN heap', m \notin DOMAIN heap
               PROVE  IsKept(heap', wrappers', event', out', m) /\ heap'[m].kind # "modifier"
    BY DEF NewAccounted
  <2>1. m = New(1) BY <1>8, <1>11, <1>12
  <2>2. v \in wrappers' BY <1>1
  <2>3. IsDeleted(heap', wrappers', m) BY <1>3, <1>11, <2>1, <2>2, OwnerDeletes
  <2> QED BY <1>2, <1>11, <2>1, <2>3 DEF IsKept
<1> QED BY <1>1, <1>10, <1>13, <1>14, <1>15, <1>16, WritingAccounts

LEMMA ObjectsAccount ==
    ASSUME DInv, DInv', OInv, LInv, ~thrown, WritesObjects
    PROVE  LInv'
<1>1. \/ StartNewIndirectObject \/ EndIndirectObject
      \/ StartDictionary \/ StartArray \/ EndArray \/ StartPDFStream
      \/ Looks
      \/ \E x \in Of("DictionaryContext") : EndDictionary(x) \/ StartPDFStreamWith(x)
      \/ \E x \in Of("PDFStream") : EndPDFStream(x)
  BY DEF WritesObjects, Looks
<1>2. UNCHANGED event BY DEF WritesObjects
<1> QED BY <1>1, <1>2, ObjectAccounts, DictionaryAccounts, ArrayAccounts, StreamAccounts, LookingAccounts,
           DictionaryEndAccounts, StreamWithAccounts, StreamEndAccounts

LEMMA OpeningAccounts ==
    ASSUME OwnersOnly, DInv, DInv', OInv, LInv, ~thrown,
           NEW w \in Of("InputFile") \cup Of("OutputFile"), OpenFile(w)
    PROVE  LInv'
<1> DEFINE n == w.native
           S == StreamsOf(n)
           f == Freed(heap, S)
           r == Native("fileStream", n, {})
           rs == <<r>>
           Q == {New(1)}
           u == [w EXCEPT !.owns = TRUE]
<1>1. /\ w.owns /\ Room(1) /\ (heap' = GivenParts(f, rs, n, Q) \/ heap' = WithoutStream(n))
      /\ wrappers' = (wrappers \ (About(S) \cup {w})) \cup {u}
  BY DEF OpenFile, OwnersOnly, GivenParts
<1>2. /\ n \in DOMAIN heap /\ heap[n].kind = "file" /\ w \in wrappers
      /\ \A p \in heap[n].parts : p \in DOMAIN heap /\ heap[p].kind = "fileStream"
  BY <1>1, FileIs DEF Live
<1>3. u = w
  <2>1. w \in Wrapper BY <1>2 DEF DInv, IsWrapped
  <2> QED BY <1>1, <2>1 DEF Wrapper
<1>4. OwnersRemain BY <1>1, <1>3, AboutAreLent DEF OwnersRemain
<1>5. Quiet BY DEF OpenFile, Quiet
<1>a. CASE heap' = WithoutStream(n)
  <2>1. IsHeap(heap) BY DEF DInv
  <2> HIDE DEF n
  <2>2. /\ ObjectsStay(heap, heap') /\ DOMAIN heap' \subseteq DOMAIN heap
        /\ \A m \in DOMAIN heap : m \in DOMAIN heap' /\ heap[m].kind = "modifier" =>
              heap'[m].parts = heap[m].parts
    BY <1>2, <1>a, <2>1, WithoutStreamStays
  <2>3. ModifiersStay BY <2>2 DEF ModifiersStay
  <2>4. NewDeleted BY <2>2 DEF NewDeleted
  <2> QED BY <1>4, <1>5, <2>2, <2>3, <2>4, QuietAccounts
<1> SUFFICES ASSUME heap' = GivenParts(f, rs, n, Q) PROVE LInv' BY <1>1, <1>a
<1>6. w \in wrappers' BY <1>1, <1>3
<1>7. S = heap[n].parts BY <1>2 DEF StreamsOf, Live
<1>8. DOMAIN rs = 1 .. 1 /\ rs[1] = r /\ r.kind = "fileStream" /\ r.of = n /\ 1 \in 1 .. 3 BY DEF Native
<1>9. New(1) \in Q OBVIOUS
<1> HIDE DEF n, S, r, rs, u, Q
<1>10. DOMAIN f = DOMAIN heap \ S /\ \A m \in DOMAIN heap \ S : f[m] = heap[m] BY FreedIs
<1> HIDE DEF f
<1>11. n \in DOMAIN f /\ DOMAIN f \subseteq DOMAIN heap /\ heap[n].parts \cap DOMAIN f = {}
  BY <1>2, <1>7, <1>10
<1>12. /\ \A m \in DOMAIN f : f[m] = heap[m]
       /\ \A m \in DOMAIN heap : m \notin DOMAIN f => heap[m].kind # "pageContext"
  BY <1>2, <1>7, <1>10
<1>13. GivenOn(heap', f, rs, 1, n, Q) /\ ObjectsStay(heap, heap')
  BY <1>1, <1>8, <1>11, <1>12, GivenKeeps
<1>14. /\ \A m \in DOMAIN f : m # n => heap'[m] = heap[m]
       /\ DOMAIN heap' = DOMAIN f \cup NewOnes(1) /\ n \in DOMAIN heap' /\ heap'[n].parts = Q
       /\ heap'[New(1)] = r /\ New(1) # None /\ New(1) \in DOMAIN heap' /\ New(1) \notin DOMAIN heap
  BY <1>8, <1>13 DEF GivenOn
<1>15. NewOnes(1) = {New(1)} BY DEF NewOnes
<1>16. ModifiersStay BY <1>2, <1>14, <1>15 DEF ModifiersStay
<1>17. NewDeleted
  <2> SUFFICES ASSUME NEW m \in DOMAIN heap', m \notin DOMAIN heap
               PROVE  IsDeleted(heap', wrappers', m) /\ heap'[m].kind # "modifier"
    BY DEF NewDeleted
  <2>1. m = New(1) BY <1>11, <1>14, <1>15
  <2>2. /\ w \in wrappers' /\ w.owns /\ w.native \in DOMAIN heap' /\ New(1) \in DOMAIN heap'
        /\ New(1) \in heap'[w.native].parts /\ heap'[New(1)].of = w.native /\ New(1) # None
    BY <1>1, <1>6, <1>8, <1>9, <1>14 DEF n
  <2>3. IsDeleted(heap', wrappers', New(1)) BY ONLY <2>2, PartDeleted
  <2> QED BY <1>8, <1>14, <2>1, <2>3
<1> QED BY <1>4, <1>5, <1>13, <1>16, <1>17, QuietAccounts

LEMMA DrawingAccounts ==
    ASSUME DInv, DInv', OInv, LInv, ~thrown, NEW x \in Of("PageContentContext"),
           DrawOnPage(x) \/ GetCurrentPageContentStream(x)
    PROVE  LInv'
<1> DEFINE c == x.native
<1>1. StartAStreamIfRequired(c) /\ busy \subseteq {c} /\ busy' = {c} /\ event' = event /\ OwnersRemain
  BY DEF DrawOnPage, GetCurrentPageContentStream, OwnersRemain
<1>2. c \in DOMAIN heap /\ heap[c].kind = "pageContext" /\ c \in Nat
  BY PageContextOf DEF DInv, IsHeap
<1> HIDE DEF c
<1>3. OpenStay(heap, out, heap', out') BY <1>1, <1>2, DrawnAlone, OpenStays
<1>4. CASE heap[c].parts # {}
  <2>1. heap' = heap BY <1>1, <1>4 DEF StartAStreamIfRequired
  <2>2. ObjectsStay(heap, heap') BY <2>1, SameStay
  <2>3. ModifiersStay BY <2>1 DEF ModifiersStay
  <2>4. NewAccounted(heap, heap', wrappers', event', out', busy') BY <2>1 DEF NewAccounted
  <2> QED BY <1>1, <1>3, <2>2, <2>3, <2>4, WritingAccounts
<1>5. CASE heap[c].parts = {}
  <2> DEFINE r == Native("stream", None, {})
             rs == <<r>>
             Q == {New(1)}
  <2>1. Room(1) /\ heap' = GivenParts(heap, rs, c, Q) BY <1>1, <1>5 DEF StartAStreamIfRequired, GivenParts
  <2>2. DOMAIN rs = 1 .. 1 /\ rs[1] = r /\ r.kind = "stream" /\ 1 \in 1 .. 3 /\ New(1) \in Q BY DEF Native
  <2> HIDE DEF r, rs, Q
  <2>3. GivenOn(heap', heap, rs, 1, c, Q) /\ ObjectsStay(heap, heap')
    BY <1>2, <1>5, <2>1, <2>2, GivenKeeps
  <2>4. /\ \A m \in DOMAIN heap : m # c => heap'[m] = heap[m]
        /\ DOMAIN heap' = DOMAIN heap \cup NewOnes(1) /\ c \in DOMAIN heap' /\ heap'[c].parts = Q
        /\ heap'[c].kind = heap[c].kind /\ heap'[New(1)] = r
    BY <2>2, <2>3 DEF GivenOn
  <2>5. NewOnes(1) = {New(1)} BY DEF NewOnes
  <2>6. ModifiersStay BY <1>2, <2>4 DEF ModifiersStay
  <2>7. NewAccounted(heap, heap', wrappers', event', out', busy')
    <3> SUFFICES ASSUME NEW m \in DOMAIN heap', m \notin DOMAIN heap
                 PROVE  IsKept(heap', wrappers', event', out', m) /\ heap'[m].kind # "modifier"
      BY DEF NewAccounted
    <3>1. m = New(1) BY <2>4, <2>5
    <3>2. IsDrawn(heap', m) BY <1>2, <2>2, <2>4, <3>1 DEF IsDrawn
    <3> QED BY <2>2, <2>4, <3>1, <3>2 DEF IsKept
  <2> QED BY <1>1, <1>3, <2>3, <2>6, <2>7, WritingAccounts
<1> QED BY <1>4, <1>5

\* A form and its parts, which the wrapper of the form deletes.
LEMMA FormAccounts ==
    ASSUME DInv, DInv', OInv, LInv, ~thrown, CreateFormXObject
    PROVE  LInv'
<1> DEFINE a == Native("form", None, {New(2), New(3)})
           y == Native("formContext", New(1), {})
           z == Native("stream", New(1), {})
           rs == <<a>> \o <<y, z>>
           v == Wrap("FormXObject", New(1), TRUE, None)
<1>1. /\ busy = {} /\ Room(3) /\ event' = event /\ v \in wrappers' /\ OwnersRemain
      /\ heap' = Created(heap, <<a>> \o FormParts)
  BY DEF CreateFormXObject, OwnersRemain
<1>2. heap' = Created(heap, rs) BY DEF CreateFormXObject, FormParts
<1>3. New(1) \in Nat \ {None} /\ New(2) \in Nat \ {None} /\ New(3) \in Nat \ {None}
  BY <1>1, NewAddresses DEF Unused, None
<1>4. /\ a.kind = "form" /\ y.kind = "formContext" /\ z.kind = "stream"
      /\ a.parts = {New(2), New(3)} /\ y.of = New(1) /\ z.of = New(1)
  BY NativeHas
<1>5. v.owns /\ v.native = New(1) BY DEF Wrap
<1>20. a \in Record /\ y \in Record /\ z \in Record BY <1>3, NativeIs DEF Kinds, None
<1> HIDE DEF a, y, z, v
<1>6. DOMAIN rs = 1 .. 3 /\ rs[1] = a /\ rs[2] = y /\ rs[3] = z /\ 3 \in 1 .. 3
  <2>1. /\ <<y, z>> \in [1 .. 2 -> Record] /\ <<y, z>>[1] = y /\ <<y, z>>[2] = z
        /\ 2 \in Nat /\ 1 \in 1 .. 2 /\ 2 \in 1 .. 2 /\ 1 + 1 = 2 /\ 1 + 2 = 3 /\ 2 + 1 = 3
    BY <1>20
  <2>2. DOMAIN rs = 1 .. 3 /\ rs[1] = a /\ \A i \in 1 .. 2 : rs[1 + i] = <<y, z>>[i]
    BY <1>20, <2>1, Joined
  <2>3. rs[1 + 1] = y /\ rs[1 + 2] = z BY <2>1, <2>2
  <2> QED BY <2>1, <2>2, <2>3
<1> HIDE DEF rs
<1>7. MadeOf(heap', rs, 3) /\ ObjectsStay(heap, heap') /\ ModifiersStay BY <1>1, <1>2, <1>6, MadeIs
<1>8. /\ heap'[New(1)] = a /\ New(1) # None /\ New(1) \in DOMAIN heap'
      /\ heap'[New(2)] = y /\ New(2) # None /\ New(2) \in DOMAIN heap'
      /\ heap'[New(3)] = z /\ New(3) # None /\ New(3) \in DOMAIN heap'
  BY <1>6, <1>7 DEF MadeOf
<1>9. IsDeleted(heap', wrappers', New(1)) BY <1>1, <1>5, <1>8, OwnerDeletes
<1>10. IsDeleted(heap', wrappers', New(2))
  <2>1. /\ v \in wrappers' /\ v.owns /\ v.native \in DOMAIN heap' /\ New(2) \in DOMAIN heap'
        /\ New(2) \in heap'[v.native].parts /\ heap'[New(2)].of = v.native /\ New(2) # None
    BY <1>1, <1>4, <1>5, <1>8
  <2> QED BY ONLY <2>1, PartDeleted
<1>11. IsDeleted(heap', wrappers', New(3))
  <2>1. /\ v \in wrappers' /\ v.owns /\ v.native \in DOMAIN heap' /\ New(3) \in DOMAIN heap'
        /\ New(3) \in heap'[v.native].parts /\ heap'[New(3)].of = v.native /\ New(3) # None
    BY <1>1, <1>4, <1>5, <1>8
  <2> QED BY ONLY <2>1, PartDeleted
<1>12. NewAccounted(heap, heap', wrappers', event', out', busy')
  <2> SUFFICES ASSUME NEW n \in DOMAIN heap', n \notin DOMAIN heap
               PROVE  IsDeleted(heap', wrappers', n) /\ heap'[n].kind # "modifier"
    BY DEF NewAccounted, IsKept
  <2>1. PICK i \in 1 .. 3 : n = New(i) BY <1>7, OfMade
  <2>2. i = 1 \/ i = 2 \/ i = 3 OBVIOUS
  <2> QED BY <1>4, <1>8, <1>9, <1>10, <1>11, <2>1, <2>2
<1>13. OpenStay(heap, out, heap', out') BY <1>1, NothingOpen, NoneOpen, OpenStays
<1>14. busy \subseteq busy' \cup Special BY <1>1
<1> QED BY <1>1, <1>7, <1>12, <1>13, <1>14, WritingAccounts

\* The dictionaries that a call starts are open.
LEMMA BeganOpen ==
    ASSUME NEW o, IsOutput(o), o.open = <<>>, NEW k \in 1 .. 2, NEW first \in Nat,
           New(first) \in Nat, k = 2 => New(first + 1) \in Nat
    PROVE  \A i \in 1 .. k : IsOpen(Begun(o, first, k), New(first + i - 1))
<1> DEFINE q == Begun(o, first, k)
           left == Left(first, k)
<1>1. IsOutput(q) /\ ListenedTo(q, left) BY Beginning
<1>2. q.open \in Seq(Thing) /\ (k = 1 \/ k = 2) BY <1>1 DEF IsOutput
<1>3. CASE k = 1
  <2>1. left = <<New(first)>> BY <1>3 DEF Left
  <2>2. Len(left) = 1 /\ left[1] = New(first) BY <2>1
  <2> HIDE DEF q, left
  <2>3. Len(q.open) >= 1 + 1 /\ \A i \in 1 .. 1 : q.open[1 + i] = Dictionary(left[1 + 1 - i])
    BY <1>1, <2>2 DEF ListenedTo
  <2>4. q.open[1 + 1] = Dictionary(left[1 + 1 - 1]) /\ 1 + 1 - 1 = 1 /\ 1 + 1 = 2 BY <2>3
  <2>5. 2 \in DOMAIN q.open /\ q.open[2] = Dictionary(New(first)) BY <1>2, <2>2, <2>3, <2>4
  <2>6. IsOpen(q, New(first)) BY <2>5 DEF IsOpen
  <2>7. \A i \in 1 .. k : i = 1 BY <1>3
  <2>8. first + 1 - 1 = first OBVIOUS
  <2> QED BY <2>6, <2>7, <2>8 DEF q
<1>4. CASE k = 2
  <2>1. left = <<New(first + 1), New(first)>> BY <1>4 DEF Left
  <2>2. Len(left) = 2 /\ left[1] = New(first + 1) /\ left[2] = New(first) BY <2>1
  <2> HIDE DEF q, left
  <2>3. Len(q.open) >= 1 + 2 /\ \A i \in 1 .. 2 : q.open[1 + i] = Dictionary(left[2 + 1 - i])
    BY <1>1, <2>2 DEF ListenedTo
  <2>4. /\ q.open[1 + 1] = Dictionary(left[2 + 1 - 1]) /\ q.open[1 + 2] = Dictionary(left[2 + 1 - 2])
        /\ 2 + 1 - 1 = 2 /\ 2 + 1 - 2 = 1 /\ 1 + 1 = 2 /\ 1 + 2 = 3
    BY <2>3
  <2>5. /\ 2 \in DOMAIN q.open /\ q.open[2] = Dictionary(New(first))
        /\ 3 \in DOMAIN q.open /\ q.open[3] = Dictionary(New(first + 1))
    BY <1>2, <2>2, <2>3, <2>4
  <2>6. IsOpen(q, New(first)) /\ IsOpen(q, New(first + 1)) BY <2>5 DEF IsOpen
  <2>7. \A i \in 1 .. k : i = 1 \/ i = 2 BY <1>4
  <2>8. first + 1 - 1 = first /\ first + 2 - 1 = first + 1 OBVIOUS
  <2> QED BY <2>6, <2>7, <2>8 DEF q
<1> QED BY <1>2, <1>3, <1>4

\* A call of the writer that the listener is called from.
LEMMA CallingAccounts ==
    ASSUME LInv, ~thrown, event = NoEvent,
           ~thrown' => /\ ObjectsStay(heap, heap') /\ OwnersStay(heap, wrappers, heap', wrappers')
                       /\ EndedStay(heap, busy, heap', busy')
                       /\ \A n : ~IsOpen(out, n)
                       /\ NewAccounted(heap, heap', wrappers', event', out', busy')
    PROVE  LInv'
<1> SUFFICES ASSUME ~thrown' PROVE StepStays BY StepAccounts
<1>1. DueStay(event, heap', wrappers', event') BY DEF DueStay, Due, NoEvent
<1>2. OpenStay(heap, out, heap', out') BY OpenStays
<1> QED BY <1>1, <1>2 DEF StepStays

\* It starts dictionaries, next to what stays.
LEMMA DictionariesAccounted ==
    ASSUME DInv', NEW k \in 1 .. 2, NEW h, DOMAIN h \subseteq DOMAIN heap,
           MadeOn(heap', h, Dictionaries(k), k), NEW o, IsOutput(o), o.open = <<>>, out' = Begun(o, 1, k)
    PROVE  NewAccounted(heap, heap', wrappers', event', out', busy')
<1>1. \A i \in 1 .. k : Dictionaries(k)[i].kind = "dictionary" BY DictionariesAre
<1>2. /\ \A n \in DOMAIN heap' : n \in DOMAIN h \/ \E i \in 1 .. k : n = New(i)
      /\ \A i \in 1 .. k : heap'[New(i)].kind = "dictionary" /\ New(i) \in DOMAIN heap'
  BY <1>1 DEF MadeOn, NewOnes
<1>3. \A n \in DOMAIN heap' : n \in Nat BY NativesAssumption DEF DInv, IsHeap
<1>4. \A i \in 1 .. k : New(i) \in Nat BY <1>2, <1>3
<1>5. New(1) \in Nat /\ (k = 2 => New(1 + 1) \in Nat)
  <2>1. 1 \in 1 .. k /\ (k = 2 => 1 + 1 \in 1 .. k) OBVIOUS
  <2> QED BY <1>4, <2>1
<1>6. \A i \in 1 .. k : IsOpen(Begun(o, 1, k), New(1 + i - 1)) BY <1>5, BeganOpen
<1>7. \A i \in 1 .. k : 1 + i - 1 = i OBVIOUS
<1>8. \A i \in 1 .. k : IsOpen(out', New(i)) BY <1>6, <1>7
<1>9. ASSUME NEW n \in DOMAIN heap', n \notin DOMAIN heap
      PROVE  IsKept(heap', wrappers', event', out', n) /\ heap'[n].kind # "modifier"
  <2>1. PICK i \in 1 .. k : n = New(i) BY <1>2, <1>9
  <2>2. heap'[n].kind = "dictionary" /\ IsOpen(out', n) BY <1>2, <1>8, <2>1
  <2> QED BY <2>2 DEF IsKept
<1> QED BY <1>9 DEF NewAccounted

\* The form, or that of a modifier, ends: what stays of the objects is h.
LEMMA EndingAccounts ==
    ASSUME DInv, DInv', OInv, LInv, ~thrown, NEW cl, NEW w \in Of(cl), w.native \in busy,
           heap[w.native].kind \in {"form", "modifier"}, Room(1),
           NEW h, DOMAIN h \subseteq DOMAIN heap, ObjectsStay(heap, h), w.native \in DOMAIN h,
           heap[w.native].kind = "modifier" => h[w.native].parts = {},
           \A n \in DOMAIN h : h[n].of \in {heap[n].of, None} /\ h[n].parts \subseteq heap[n].parts,
           heap' = Created(h, Dictionaries(1)), event = NoEvent, OwnersRemain,
           out' = Begun(StreamEnded(out, PartOf(w.native, "stream")), 1, 1)
    PROVE  LInv'
<1> DEFINE o == StreamEnded(out, PartOf(w.native, "stream"))
           rs == Dictionaries(1)
<1>1. IsOutput(o) /\ o.open = <<>> BY FormIs, FormEnds
<1>2. OnlyStream(out, PartOf(w.native, "stream")) /\ busy = {w.native} BY FormIs
<1>3. \A n : ~IsOpen(out, n) BY <1>2, NoneOpen
<1>4. DOMAIN rs = 1 .. 1 /\ 1 \in 1 .. 3 /\ 1 \in 1 .. 2 BY DictionariesAre
<1>5. heap' = Created(h, rs) /\ out' = Begun(o, 1, 1) OBVIOUS
<1> HIDE DEF o, rs
<1>6. MadeOn(heap', h, rs, 1) /\ ObjectsStay(heap, heap') BY <1>4, <1>5, MadeAfter
<1>7. NewAccounted(heap, heap', wrappers', event', out', busy')
  BY <1>1, <1>4, <1>5, <1>6, DictionariesAccounted DEF rs
<1>8. OwnersStay(heap, wrappers, heap', wrappers') BY OwnersRemaining
<1>9. EndedStay(heap, busy, heap', busy')
  <2> SUFFICES ASSUME NEW n \in DOMAIN heap, n \in DOMAIN heap', heap[n].kind = "modifier"
               PROVE  heap'[n].parts = {} \/ (n \notin busy /\ heap'[n].parts \subseteq heap[n].parts)
    BY DEF EndedStay
  <2>1. NewOnes(1) = {New(1)} /\ New(1) \notin DOMAIN heap BY <1>4, <1>6 DEF NewOnes, MadeOn
  <2>2. n \in DOMAIN h /\ heap'[n] = h[n] BY <1>6, <2>1 DEF MadeOn
  <2>3. CASE n = w.native BY <2>2, <2>3
  <2>4. CASE n # w.native
    <3>1. n \notin busy BY <1>2, <2>4
    <3> QED BY <2>2, <3>1
  <2> QED BY <2>3, <2>4
<1> QED BY <1>3, <1>6, <1>7, <1>8, <1>9, CallingAccounts

LEMMA FormEndAccounts ==
    ASSUME DInv, DInv', OInv, LInv, ~thrown, NEW w \in Of("FormXObject"), EndFormXObject(w)
    PROVE  LInv'
<1>1. /\ w.native \in busy /\ Room(1) /\ event = NoEvent
      /\ heap' = Created(heap, Dictionaries(1))
      /\ out' = Begun(StreamEnded(out, PartOf(w.native, "stream")), 1, 1)
      /\ wrappers' = (wrappers \ About(heap[w.native].parts)) \cup {Handed(New(1))}
  BY DEF EndFormXObject, IsFree
<1>2. heap[w.native].kind = "form" /\ w.native \in DOMAIN heap
  <2>1. /\ w.class = "FormXObject" /\ (w.owns => OwnerFits(heap, w))
        /\ (~w.owns => BorrowerFits(heap, wrappers, w))
    BY Used
  <2> QED BY <2>1 DEF OwnerFits, OwnerOf, BorrowerFits, BorrowerOf
<1>3. OwnersRemain BY <1>1, AboutAreLent DEF OwnersRemain
<1>4. ObjectsStay(heap, heap) BY SameStay
<1>5. \A n \in DOMAIN heap : heap[n].of \in {heap[n].of, None} /\ heap[n].parts \subseteq heap[n].parts OBVIOUS
<1> QED BY <1>1, <1>2, <1>3, <1>4, <1>5, EndingAccounts

\* An object loses the parts that it deletes.
IsWithout(h, n) == h = [Freed(heap, heap[n].parts) EXCEPT ![n].parts = {}]

LEMMA WithoutPartsStays ==
    ASSUME IsHeap(heap), NEW n \in DOMAIN heap, heap[n].kind = "modifier",
           NEW h, IsWithout(h, n)
    PROVE  /\ ObjectsStay(heap, h) /\ DOMAIN h \subseteq DOMAIN heap /\ n \in DOMAIN h /\ h[n].parts = {}
           /\ \A m \in DOMAIN h : h[m].of \in {heap[m].of, None} /\ h[m].parts \subseteq heap[m].parts
<1> DEFINE P == heap[n].parts
           f == Freed(heap, P)
<1>1. heap[n] \in Record BY DEF IsHeap
<1>2. /\ [heap[n] EXCEPT !.parts = {}].kind = heap[n].kind /\ [heap[n] EXCEPT !.parts = {}].of = heap[n].of
      /\ [heap[n] EXCEPT !.parts = {}].parts = {}
  BY <1>1 DEF Record
<1>3. \A p \in P : p \in DOMAIN heap => heap[p].kind \in {"formContext", "stream"}
  BY DEF IsHeap, PartsFit, HasPart, Deletable, Lent
<1>4. n \notin P BY <1>3
<1>5. h = [f EXCEPT ![n].parts = {}] BY DEF IsWithout
<1> HIDE DEF P
<1>6. DOMAIN f = DOMAIN heap \ P /\ \A m \in DOMAIN heap \ P : f[m] = heap[m] BY FreedIs
<1> HIDE DEF f
<1>7. /\ DOMAIN h = DOMAIN heap \ P /\ n \in DOMAIN h
      /\ \A m \in DOMAIN h : m # n => h[m] = heap[m]
      /\ h[n].kind = heap[n].kind /\ h[n].of = heap[n].of /\ h[n].parts = {}
  BY <1>2, <1>4, <1>5, <1>6
<1>8. KeepsParts(heap, h)
  <2>1. ASSUME NEW m \in DOMAIN heap, m \in DOMAIN h
        PROVE  h[m].kind = heap[m].kind /\ heap[m].parts \cap DOMAIN h \subseteq h[m].parts /\ h[m].of = heap[m].of
    <3>1. CASE m = n BY <1>7, <3>1 DEF P
    <3>2. CASE m # n BY <1>7, <2>1, <3>2
    <3> QED BY <3>1, <3>2
  <2>2. \A m \in DOMAIN heap : m \notin DOMAIN h => heap[m].kind # "pageContext" BY <1>3, <1>7
  <2> QED BY <2>1, <2>2 DEF KeepsParts
<1>9. ObjectsStay(heap, h) BY <1>8, KeepingStays
<1>10. \A m \in DOMAIN h : h[m].of \in {heap[m].of, None} /\ h[m].parts \subseteq heap[m].parts BY <1>7
<1> QED BY <1>7, <1>9, <1>10

LEMMA ModifiedAccounts ==
    ASSUME DInv, DInv', OInv, LInv, ~thrown, NEW w \in Of("PDFPageModifier"), EndContext(w) \/ WriteModifiedPage(w)
    PROVE  LInv'
<1> DEFINE n == w.native
<1>1. busy \subseteq {n} /\ event = NoEvent BY DEF EndContext, WriteModifiedPage, IsFree
<1>2. CASE busy = {}
  <2>1. heap' = heap /\ Quiet BY <1>2 DEF EndContext, WriteModifiedPage, Quiet
  <2>2. OwnersRemain BY <1>2 DEF EndContext, WriteModifiedPage, OwnersRemain
  <2> QED BY <2>1, <2>2, QuietAccounts, NothingChanges
<1>3. CASE busy # {}
  <2>1. Ends(w, "write") \/ Ends(w, "modify") BY <1>3 DEF EndContext, WriteModifiedPage
  <2> DEFINE h == [Freed(heap, heap[n].parts) EXCEPT ![n].parts = {}]
  <2>2. /\ n \in busy /\ Room(1) /\ heap' = Created(h, Dictionaries(1))
        /\ out' = Begun(StreamEnded(out, PartOf(n, "stream")), 1, 1)
        /\ wrappers' = (wrappers \ About(heap[n].parts)) \cup {Handed(New(1))}
    BY <1>1, <1>3, <2>1 DEF Ends
  <2>3. n \in DOMAIN heap /\ heap[n].kind = "modifier" /\ IsHeap(heap) BY ModifierIs DEF DInv
  <2>4. IsWithout(h, n) BY DEF IsWithout
  <2> HIDE DEF h
  <2>5. /\ ObjectsStay(heap, h) /\ DOMAIN h \subseteq DOMAIN heap /\ n \in DOMAIN h /\ h[n].parts = {}
        /\ \A m \in DOMAIN h : h[m].of \in {heap[m].of, None} /\ h[m].parts \subseteq heap[m].parts
    <3> HIDE DEF n
    <3>1. /\ IsHeap(heap) /\ n \in DOMAIN heap /\ heap[n].kind = "modifier"
          /\ IsWithout(h, n)
      BY <2>3, <2>4
    <3> QED BY ONLY <3>1, WithoutPartsStays
  <2>6. OwnersRemain BY <2>2, AboutAreLent DEF OwnersRemain
  <2> QED BY <1>1, <2>2, <2>3, <2>5, <2>6, EndingAccounts
<1> QED BY <1>2, <1>3

LEMMA StartingAccounts ==
    ASSUME DInv, DInv', OInv, LInv, ~thrown, NEW w \in Of("PDFPageModifier"), StartContext(w)
    PROVE  LInv'
<1> DEFINE n == w.native
<1>1. wrappers' = wrappers /\ event' = event /\ busy \subseteq {n}
  BY DEF StartContext
<1>2. OwnersRemain BY <1>1 DEF OwnersRemain
<1>3. CASE UNCHANGED <<heap, out, busy>>
  <2>1. heap' = heap /\ Quiet BY <1>3 DEF StartContext, Quiet
  <2> QED BY <1>2, <2>1, QuietAccounts, NothingChanges
<1>4. CASE ~UNCHANGED <<heap, out, busy>>
  <2> DEFINE a == Native("formContext", n, {})
             b == Native("stream", n, {})
             rs == <<a, b>>
             Q == {New(1), New(2)}
  <2>1. Room(2) /\ busy = {} /\ event = NoEvent /\ busy' = {n} /\ heap' = GivenParts(heap, rs, n, Q)
    BY <1>4 DEF StartContext, GivenParts, IsFree
  <2>2. n \in DOMAIN heap /\ heap[n].kind = "modifier" BY ModifierIs
  <2>3. w.owns /\ w \in wrappers'
    <3>1. w \in wrappers /\ w.class = "PDFPageModifier" /\ (~w.owns => BorrowerFits(heap, wrappers, w))
      BY Used DEF Of
    <3>2. w.owns BY <3>1 DEF BorrowerFits, BorrowerOf
    <3> QED BY <1>1, <3>1, <3>2
  <2>4. heap[n].parts = {} BY <2>1, <2>2 DEF LInv, Accounted, Ended
  <2>5. /\ DOMAIN rs = 1 .. 2 /\ rs[1] = a /\ rs[2] = b /\ 2 \in 1 .. 3 /\ 1 \in 1 .. 2 /\ 2 \in 1 .. 2
        /\ a.kind = "formContext" /\ a.of = n /\ b.kind = "stream" /\ b.of = n
        /\ New(1) \in Q /\ New(2) \in Q
    BY DEF Native
  <2> HIDE DEF a, b, rs, Q, n
  <2>6. GivenOn(heap', heap, rs, 2, n, Q) /\ ObjectsStay(heap, heap')
    BY <2>1, <2>2, <2>4, <2>5, GivenKeeps
  <2>7. /\ DOMAIN heap' = DOMAIN heap \cup NewOnes(2)
        /\ \A m \in DOMAIN heap : m # n => heap'[m] = heap[m]
        /\ heap'[n].parts = Q /\ n \in DOMAIN heap'
        /\ heap'[New(1)] = a /\ New(1) # None /\ New(1) \in DOMAIN heap'
        /\ heap'[New(2)] = b /\ New(2) # None /\ New(2) \in DOMAIN heap'
    BY <2>5, <2>6 DEF GivenOn
  <2>8. IsDeleted(heap', wrappers', New(1))
    <3>1. /\ w \in wrappers' /\ w.owns /\ w.native \in DOMAIN heap' /\ New(1) \in DOMAIN heap'
          /\ New(1) \in heap'[w.native].parts /\ heap'[New(1)].of = w.native /\ New(1) # None
      BY <2>3, <2>5, <2>7 DEF n
    <3> QED BY ONLY <3>1, PartDeleted
  <2>9. IsDeleted(heap', wrappers', New(2))
    <3>1. /\ w \in wrappers' /\ w.owns /\ w.native \in DOMAIN heap' /\ New(2) \in DOMAIN heap'
          /\ New(2) \in heap'[w.native].parts /\ heap'[New(2)].of = w.native /\ New(2) # None
      BY <2>3, <2>5, <2>7 DEF n
    <3> QED BY ONLY <3>1, PartDeleted
  <2>10. NewAccounted(heap, heap', wrappers', event', out', busy')
    <3> SUFFICES ASSUME NEW m \in DOMAIN heap', m \notin DOMAIN heap
                 PROVE  IsDeleted(heap', wrappers', m) /\ heap'[m].kind # "modifier"
      BY DEF NewAccounted, IsKept
    <3>1. PICK i \in 1 .. 2 : m = New(i) BY <2>6, OnGiven
    <3>2. i = 1 \/ i = 2 OBVIOUS
    <3> QED BY <2>5, <2>7, <2>8, <2>9, <3>1, <3>2
  <2>11. OwnersStay(heap, wrappers, heap', wrappers') BY <1>2, OwnersRemaining
  <2>12. OpenStay(heap, out, heap', out') BY <2>1, NothingOpen, NoneOpen, OpenStays
  <2>13. DueStay(event, heap', wrappers', event') BY <1>1 DEF DueStay
  <2>14. EndedStay(heap, busy, heap', busy') BY <2>1, <2>7 DEF EndedStay
  <2> QED BY <2>6, <2>10, <2>11, <2>12, <2>13, <2>14, StepAccounts DEF StepStays
<1> QED BY <1>3, <1>4

\* Objects that the library writes, with the native that the call keeps.
LEMMA WholeAccounts ==
    ASSUME DInv, DInv', OInv, LInv, ~thrown, NEW kind \in {"form", "page"}, NEW k \in 1 .. 2,
           NEW gives, gives = {} \/ \E c : gives = {c}, WritesWhole(kind, k, gives)
    PROVE  LInv'
<1> SUFFICES ASSUME ~thrown' PROVE LInv' BY DEF LInv
<1> DEFINE r == Native(kind, None, {})
           rs == <<r>> \o Dictionaries(k)
           e == Called(IF kind = "page" THEN "page" ELSE "write", Left(2, k),
                       IF gives = {} THEN {New(1)} ELSE {},
                       {Wrap(class, New(1), TRUE, None) : class \in gives})
<1>1. /\ busy = {} /\ event = NoEvent /\ Room(1 + k) /\ heap' = Created(heap, rs)
      /\ out' = Begun(WholeObject(out), 2, k) /\ event' = e
      /\ wrappers' = wrappers \cup {Handed(New(1 + k))}
  BY DEF WritesWhole, IsFree, Throws
<1>2. New(1) \in Due(event')
  <2>1. e.frees = (IF gives = {} THEN {New(1)} ELSE {})
        /\ e.gives = {Wrap(class, New(1), TRUE, None) : class \in gives} /\ e.call \in {"write", "page"}
    BY DEF Called
  <2>2. CASE gives = {} BY <1>1, <2>1, <2>2 DEF Due
  <2>3. CASE \E c : gives = {c}
    <3>1. PICK c : gives = {c} BY <2>3
    <3>2. Wrap(c, New(1), TRUE, None) \in e.gives BY <2>1, <3>1
    <3>3. Wrap(c, New(1), TRUE, None).native = New(1) BY DEF Wrap
    <3> QED BY <1>1, <2>1, <3>2, <3>3 DEF Due
  <2> QED BY <2>2, <2>3
<1> HIDE DEF e
<1>3. OwnersRemain BY <1>1 DEF OwnersRemain
<1>4. IsOutput(out) /\ out.open = <<>> BY <1>1, NothingOpen
<1>5. WholeObject(out) = out BY <1>4, WholeIs
<1>6. out' = Begun(out, 2, k) BY <1>1, <1>5
<1>7. 1 + k \in 1 .. 3 /\ 1 \in 1 .. (1 + k) /\ 2 \in 1 .. (1 + k) /\ (k = 2 => 3 \in 1 .. (1 + k)) OBVIOUS
<1>8. \A i \in 1 .. (1 + k) : New(i) \in Nat
  <2>1. \A i \in 1 .. (1 + k) : New(i) \in Unused BY <1>1, <1>7, NewAddresses
  <2> QED BY <2>1, UnusedIsFinite
<1>9. New(2) \in Nat /\ (k = 2 => New(2 + 1) \in Nat) BY <1>7, <1>8
<1>10. \A i \in 1 .. k : IsOpen(out', New(2 + i - 1)) BY <1>4, <1>6, <1>9, BeganOpen
<1>11. \A i \in 1 .. k : IsOpen(out', New(1 + i))
  <2>1. \A i \in 1 .. k : 2 + i - 1 = 1 + i OBVIOUS
  <2> QED BY <1>10, <2>1
<1>12. /\ DOMAIN rs = 1 .. (1 + k) /\ rs[1] = r
       /\ \A i \in 1 .. k : rs[1 + i].kind = "dictionary"
  <2>1. /\ Dictionaries(k) \in [1 .. k -> Record] /\ \A i \in 1 .. k : Dictionaries(k)[i].kind = "dictionary"
    BY DictionariesAre
  <2>2. r \in Record
    <3>1. None \in Nat /\ kind \in Kinds BY DEF None, Kinds
    <3> QED BY <3>1, NativeIs
  <2>3. k \in Nat OBVIOUS
  <2> DEFINE ds == Dictionaries(k)
  <2> HIDE DEF r, ds
  <2>4. DOMAIN (<<r>> \o ds) = 1 .. (1 + k) /\ (<<r>> \o ds)[1] = r
        /\ \A i \in 1 .. k : (<<r>> \o ds)[1 + i] = ds[i]
    BY <2>1, <2>2, <2>3, Joined DEF ds
  <2> QED BY <2>1, <2>4 DEF ds
<1>13. r.kind # "modifier" BY DEF Native
<1> HIDE DEF r, rs
<1>14. MadeOf(heap', rs, 1 + k) /\ ObjectsStay(heap, heap') /\ ModifiersStay BY <1>1, <1>7, <1>12, MadeIs
<1>15. NewAccounted(heap, heap', wrappers', event', out', busy')
  <2> SUFFICES ASSUME NEW n \in DOMAIN heap', n \notin DOMAIN heap
               PROVE  IsKept(heap', wrappers', event', out', n) /\ heap'[n].kind # "modifier"
    BY DEF NewAccounted
  <2>1. PICK i \in 1 .. (1 + k) : n = New(i) BY <1>14, OfMade
  <2>2. heap'[n] = rs[i] BY <1>14, <2>1 DEF MadeOf
  <2>3. CASE i = 1 BY <1>2, <1>12, <1>13, <2>1, <2>2, <2>3 DEF IsKept
  <2>4. CASE i # 1
    <3>1. i - 1 \in 1 .. k /\ 1 + (i - 1) = i BY <2>4
    <3>2. rs[i].kind = "dictionary" /\ IsOpen(out', New(i)) BY <1>11, <1>12, <3>1
    <3> QED BY <2>1, <2>2, <3>2 DEF IsKept
  <2> QED BY <2>3, <2>4
<1>16. OwnersStay(heap, wrappers, heap', wrappers') BY <1>3, OwnersRemaining
<1>17. \A n : ~IsOpen(out, n) BY <1>4, NoneOpen
<1>18. EndedStay(heap, busy, heap', busy') BY <1>1, <1>14 DEF EndedStay, ModifiersStay
<1> QED BY <1>1, <1>14, <1>15, <1>16, <1>17, <1>18, CallingAccounts

\* A page's context goes with its stream.
LEMMA PartedStays ==
    ASSUME DInv, NEW w \in Of("PDFPage"), w.owns
    PROVE  /\ ObjectsStay(heap, Parted(w)) /\ DOMAIN Parted(w) \subseteq DOMAIN heap
           /\ w.also \notin DOMAIN Parted(w)
           /\ \A m \in DOMAIN Parted(w) : /\ Parted(w)[m].kind = heap[m].kind
                                          /\ Parted(w)[m].parts = heap[m].parts
                                          /\ Parted(w)[m].of \in {heap[m].of, None}
<1> DEFINE c == w.also
           E == EndedWith(w)
           k == Parting(w)
           h == Parted(w)
<1>1. CASE c = None
  <2>1. h = heap BY <1>1, NothingEnds
  <2>2. None \notin DOMAIN heap BY NativesAssumption DEF DInv, IsHeap, None
  <2>3. ObjectsStay(heap, heap) BY SameStay
  <2> HIDE DEF h
  <2> QED BY <1>1, <2>1, <2>2, <2>3 DEF h
<1>2. CASE c # None
  <2>1. /\ heap[w.native].kind = "page" /\ c \in DOMAIN heap /\ heap[c].kind = "pageContext"
        /\ \A n \in DOMAIN heap : heap[n].of = c => n = w.native
        /\ \A p \in heap[c].parts : heap[p].kind = "stream"
    BY <1>2, PageContextIs
  <2>2. E = {c} \cup heap[c].parts BY <1>2, <2>1 DEF EndedWith, StreamsOf, Live
  <2>3. ASSUME NEW m \in DOMAIN heap
        PROVE  /\ k[m].kind = heap[m].kind /\ k[m].parts = heap[m].parts /\ k[m].of \in {heap[m].of, None}
               /\ heap[m].kind # "page" => k[m].of = heap[m].of
    <3>1. heap[m] \in Record BY DEF DInv, IsHeap
    <3>2. /\ [heap[m] EXCEPT !.of = None].kind = heap[m].kind
          /\ [heap[m] EXCEPT !.of = None].parts = heap[m].parts
          /\ [heap[m] EXCEPT !.of = None].of = None
      BY <3>1 DEF Record
    <3>3. k[m] = IF heap[m].of = c THEN [heap[m] EXCEPT !.of = None] ELSE heap[m]
      BY <1>2 DEF Parting, Live
    <3>4. heap[m].kind # "page" => heap[m].of # c BY <2>1
    <3> HIDE DEF k
    <3> QED BY <3>2, <3>3, <3>4
  <2>4. DOMAIN k = DOMAIN heap BY DEF Parting, Live
  <2>5. h = Freed(k, E) BY DEF Parted
  <2> HIDE DEF k, E, h
  <2>6. DOMAIN Freed(k, E) = DOMAIN k \ E /\ \A m \in DOMAIN k \ E : Freed(k, E)[m] = k[m] BY FreedIs
  <2>7. /\ DOMAIN h = DOMAIN heap \ E
        /\ \A m \in DOMAIN h : /\ h[m].kind = heap[m].kind /\ h[m].parts = heap[m].parts
                               /\ h[m].of \in {heap[m].of, None}
                               /\ heap[m].kind # "page" => h[m].of = heap[m].of
    BY <2>3, <2>4, <2>5, <2>6
  <2>8. \A m \in DOMAIN heap : m \notin DOMAIN h /\ heap[m].kind = "pageContext" =>
           heap[m].parts \cap DOMAIN h = {}
    BY <2>1, <2>2, <2>7
  <2>9. KeepsParts(heap, h) BY <2>7, <2>8 DEF KeepsParts
  <2>10. IsHeap(heap) BY DEF DInv
  <2>11. ObjectsStay(heap, h) BY <2>9, <2>10, KeepingStays
  <2>12. c \notin DOMAIN h /\ DOMAIN h \subseteq DOMAIN heap BY <2>2, <2>7
  <2> QED BY <2>7, <2>11, <2>12 DEF h
<1> QED BY <1>1, <1>2

LEMMA WritingPageAccounts ==
    ASSUME OwnersOnly, DInv, DInv', OInv, LInv, ~thrown, NEW w \in Of("PDFPage"), WritePageAndReturnID(w)
    PROVE  LInv'
<1> DEFINE n == w.native
           c == w.also
           h == Parted(w)
           o == Finalized(out, c)
           rs == Dictionaries(2)
           u == Written(w)
<1>1. /\ w.owns /\ Room(2) /\ busy' = {Listening} /\ event = NoEvent /\ out' = Begun(o, 1, 2)
      /\ \A b \in busy : b \in DOMAIN heap /\ heap[b].of = n /\ heap[b].kind = "pageContext"
  BY DEF WritePageAndReturnID, IsFree, OwnersOnly, EndedIn, Live
<1>2. heap' = Created(h, rs) BY DEF WritePageAndReturnID, Parted, Parting, EndedWith
<1>3. wrappers' = (wrappers \ (About(EndedWith(w)) \cup {w})) \cup {u, Handed(New(2))}
  BY DEF WritePageAndReturnID, EndedWith
<1>4. /\ n \in DOMAIN heap /\ heap[n].kind = "page" /\ c = heap[n].of /\ w \in Wrapper /\ w \in wrappers
      /\ w.class = "PDFPage"
  BY <1>1, Used DEF OwnerFits, OwnerOf
<1>5. c \in Nat /\ (c \in DOMAIN heap => heap[c].kind = "pageContext") BY <1>4, PageOf
<1>6. busy \subseteq {c}
  <2>1. ASSUME NEW b \in busy PROVE b = c
    <3>1. b \in DOMAIN heap /\ heap[b].of = n /\ heap[b].kind = "pageContext" /\ OfFits(heap, b)
      BY <1>1, <2>1 DEF DInv, IsHeap
    <3> QED BY <1>4, <3>1 DEF OfFits
  <2> QED BY <2>1
<1>7. /\ ObjectsStay(heap, h) /\ DOMAIN h \subseteq DOMAIN heap /\ c \notin DOMAIN h
      /\ \A m \in DOMAIN h : /\ h[m].kind = heap[m].kind /\ h[m].parts = heap[m].parts
                             /\ h[m].of \in {heap[m].of, None}
  BY <1>1, PartedStays
<1>8. u.owns /\ u.native = n /\ u.class = "PDFPage" /\ u.held = w.held
  BY <1>1, <1>4 DEF Written, Wrapper
<1>9. (\A m : ~IsOpen(out, m)) /\ \A m \in busy : m \in DOMAIN heap => heap[m].kind = "pageContext"
  <2> HIDE DEF c
  <2> QED BY <1>5, <1>6, DrawnAlone
<1>10. IsOutput(o) /\ o.open = <<>>
  <2> HIDE DEF c
  <2> QED BY <1>5, <1>6, FinalizedIs
<1>11. DOMAIN rs = 1 .. 2 /\ 2 \in 1 .. 3 /\ 2 \in 1 .. 2 BY DictionariesAre
<1> HIDE DEF h, o, rs, u
<1>12. \A m \in DOMAIN h : h[m].of \in {heap[m].of, None} /\ h[m].parts \subseteq heap[m].parts BY <1>7
<1>13. MadeOn(heap', h, rs, 2) /\ ObjectsStay(heap, heap') BY <1>1, <1>2, <1>7, <1>11, <1>12, MadeAfter
<1>14. NewAccounted(heap, heap', wrappers', event', out', busy')
  BY <1>1, <1>7, <1>10, <1>11, <1>13, DictionariesAccounted DEF rs
<1>15. \A m \in DOMAIN heap : m \in DOMAIN heap' => m \in DOMAIN h /\ heap'[m] = h[m]
  BY <1>13 DEF MadeOn, NewOnes
<1>16. c \notin DOMAIN heap'
  <2>1. c \in DOMAIN heap \/ c = None
    <3>1. c # None => c \in DOMAIN heap BY <1>1, PageContextIs
    <3> QED BY <3>1
  <2>2. None \notin DOMAIN heap' BY NativesAssumption DEF DInv, IsHeap, None
  <2> QED BY <1>7, <1>15, <2>1, <2>2
<1>17. OwnersStay(heap, wrappers, heap', wrappers')
  <2> SUFFICES ASSUME NEW v \in wrappers, v.owns
               PROVE  v.native \in DOMAIN heap /\ \E y \in wrappers' : Follows(heap', v, y)
    BY DEF OwnersStay
  <2>1. CASE v # w
    <3>1. v \notin About(EndedWith(w)) BY AboutAreLent
    <3>2. v \in wrappers' BY <1>3, <2>1, <3>1
    <3> QED BY <3>2, FollowsSame
  <2>2. CASE v = w
    <3>1. u \in wrappers' BY <1>3
    <3>2. n \in DOMAIN heap' BY <1>8, <3>1 DEF DInv, IsWrapped, OwnerFits
    <3>3. Follows(heap', w, u) BY <1>4, <1>8, <1>16, <3>2 DEF Follows, WithProxy
    <3> QED BY <1>4, <2>2, <3>1, <3>3
  <2> QED BY <2>1, <2>2
<1>18. EndedStay(heap, busy, heap', busy')
  <2> SUFFICES ASSUME NEW m \in DOMAIN heap, m \in DOMAIN heap', heap[m].kind = "modifier"
               PROVE  m \notin busy /\ heap'[m].parts \subseteq heap[m].parts
    BY DEF EndedStay
  <2>1. m \notin busy BY <1>9
  <2>2. heap'[m].parts = heap[m].parts BY <1>7, <1>15
  <2> QED BY <2>1, <2>2
<1> QED BY <1>1, <1>9, <1>13, <1>14, <1>17, <1>18, CallingAccounts

LEMMA WholesAccount ==
    ASSUME DInv, DInv', OInv, LInv, ~thrown, WritesObjectsWhole
    PROVE  LInv'
<1>1. PICK kind \in {"form", "page"}, k \in 1 .. 2, gives \in {{}, {"FormXObject"}} :
         WritesWhole(kind, k, gives)
  <2>1. CASE CreateFormXObjectFromJPG \/ CreateFormXObjectFromPNG \/ CreateFormXObjectFromTIFF
    <3>1. WritesWhole("form", 1, {"FormXObject"})
      BY <2>1 DEF CreateFormXObjectFromJPG, CreateFormXObjectFromPNG, CreateFormXObjectFromTIFF
    <3> QED BY <3>1
  <2>2. CASE CreateFormXObjectsFromPDF
    <3>1. WritesWhole("form", 1, {}) BY <2>2 DEF CreateFormXObjectsFromPDF
    <3> QED BY <3>1
  <2>3. CASE AppendPDFPagesFromPDF
    <3>1. WritesWhole("page", 2, {}) BY <2>3 DEF AppendPDFPagesFromPDF
    <3> QED BY <3>1
  <2>4. ASSUME NEW x \in Of("DocumentCopyingContext"),
               CreateFormXObjectFromPDFPage(x) \/ AppendPDFPageFromPDF(x)
        PROVE  WritesWhole("form", 1, {}) \/ WritesWhole("page", 2, {})
    BY <2>4 DEF CreateFormXObjectFromPDFPage, AppendPDFPageFromPDF
  <2> QED BY <2>1, <2>2, <2>3, <2>4 DEF WritesObjectsWhole
<1>2. gives = {} \/ \E c : gives = {c} OBVIOUS
<1> QED BY <1>1, <1>2, WholeAccounts

\* The wrapper of a new writer deletes it, with its proxies.
LEMMA StartsAccounts ==
    ASSUME DInv, DInv', OInv, LInv, ~thrown, NEW modifies \in BOOLEAN, NEW k \in 0 .. 2, Starts(modifies, k)
    PROVE  LInv'
<1> DEFINE a == Native("writer", None, Proxies(k))
           p == Native("proxy", New(1), {})
           N == {New(1)} \cup Proxies(k)
<1>1. /\ session.writer = None /\ Room(1 + k) /\ heap' = Created(heap, <<a>> \o [i \in 1 .. k |-> p])
      /\ UNCHANGED <<busy, event>>
  BY DEF Starts, Proxies
<1>2. PICK works \in Outcomes :
         wrappers' = wrappers \cup {[Wrap("PDFWriter", New(1), TRUE, None) EXCEPT !.held = works]}
  BY DEF Starts
<1> DEFINE v == [Wrap("PDFWriter", New(1), TRUE, None) EXCEPT !.held = works]
<1>3. v.owns /\ v.native = New(1) /\ v \in wrappers' /\ OwnersRemain
  BY <1>2 DEF Wrap, OwnersRemain
<1>4. ~WriterHeld(wrappers)
  <2>1. ASSUME NEW y \in wrappers, y.class = "PDFWriter" PROVE FALSE
    <3>1. y.owns /\ y.native = None BY <1>1, <2>1 DEF DInv, IsSession
    <3>2. y.native \in DOMAIN heap BY <3>1 DEF DInv, IsWrapped, OwnerFits
    <3> QED BY <3>1, <3>2 DEF DInv, IsHeap, None
  <2> QED BY <2>1 DEF WriterHeld
<1>5. busy = {} /\ event = NoEvent /\ out.open = <<>> BY <1>4, WithoutWriter
<1>6. New(1) \in Nat \ {None} /\ Proxies(k) \in SUBSET (Nat \ {None}) /\ None \in Nat
  BY <1>1, ProxiesAre DEF None
<1>7. a \in Record /\ a.kind = "writer" /\ a.parts = Proxies(k) /\ p \in Record /\ p.kind = "proxy" /\ p.of = New(1)
  BY <1>6, NativeIs, NativeHas DEF Kinds
<1> HIDE DEF a, p, v
<1>8. IsMadeWith(heap', a, p, k) BY <1>1, <1>7, MadeWith
<1>9. /\ Grows(heap, heap', N) /\ IsFresh(heap, wrappers, N)
      /\ heap'[New(1)] = a /\ \A q \in Proxies(k) : heap'[q] = p
      /\ New(1) # None /\ New(1) \in DOMAIN heap' /\ None \notin DOMAIN heap'
  BY <1>8 DEF IsMadeWith
<1>10. IsDeleted(heap', wrappers', New(1)) BY <1>3, <1>9, OwnerDeletes
<1>11. ASSUME NEW q \in Proxies(k) PROVE IsDeleted(heap', wrappers', q)
  <2>1. q \in DOMAIN heap' BY <1>9 DEF Grows
  <2>2. q # None BY <1>9, <2>1
  <2>3. /\ v \in wrappers' /\ v.owns /\ v.native \in DOMAIN heap' /\ q \in DOMAIN heap'
        /\ q \in heap'[v.native].parts /\ heap'[q].of = v.native /\ q # None
    BY <1>3, <1>7, <1>9, <1>11, <2>1, <2>2
  <2> QED BY ONLY <2>3, PartDeleted
<1>12. NewAccounted(heap, heap', wrappers', event', out', busy')
  <2> SUFFICES ASSUME NEW n \in DOMAIN heap', n \notin DOMAIN heap
               PROVE  IsKept(heap', wrappers', event', out', n) /\ heap'[n].kind # "modifier"
    BY DEF NewAccounted
  <2>1. n = New(1) \/ n \in Proxies(k) BY <1>9 DEF Grows
  <2> QED BY <1>7, <1>9, <1>10, <1>11, <2>1 DEF IsKept
<1>13. ObjectsStay(heap, heap')
  <2> HIDE DEF N
  <2> QED BY <1>9, GrowsStay
<1>14. EndedStay(heap, busy, heap', busy')
  <2>1. \A n \in DOMAIN heap : heap'[n] = heap[n] BY <1>9 DEF Grows
  <2> QED BY <1>1, <1>5, <2>1 DEF EndedStay
<1>15. OwnersStay(heap, wrappers, heap', wrappers') BY <1>3, OwnersRemaining
<1>16. \A n : ~IsOpen(out, n) BY <1>5, NoneOpen
<1> QED BY <1>5, <1>12, <1>13, <1>14, <1>15, <1>16, CallingAccounts

LEMMA WritersAccount ==
    ASSUME DInv, DInv', OInv, LInv, ~thrown, CreateWriter \/ CreateWriterToContinue \/ CreateWriterToModify
    PROVE  LInv'
<1>1. PICK modifies \in BOOLEAN : \E k \in 0 .. 2 : Starts(modifies, k)
  <2>1. {0, 1} \subseteq 0 .. 2 /\ {0, 2} \subseteq 0 .. 2 OBVIOUS
  <2>2. CASE CreateWriter BY <2>1, <2>2 DEF CreateWriter
  <2>3. CASE CreateWriterToContinue BY <2>1, <2>3 DEF CreateWriterToContinue
  <2>4. CASE CreateWriterToModify BY <2>1, <2>4 DEF CreateWriterToModify
  <2> QED BY <2>2, <2>3, <2>4
<1>2. PICK k \in 0 .. 2 : Starts(modifies, k) BY <1>1
<1> QED BY <1>2, StartsAccounts

LEMMA ShutdownAccounts ==
    ASSUME DInv, DInv', OInv, LInv, ~thrown, Shutdown
    PROVE  LInv'
<1>1. UNCHANGED <<heap, wrappers, event>> /\ busy \subseteq busy' \cup Special /\ out' = out BY DEF Shutdown
<1>2. OpenStay(heap, out, heap', out') BY <1>1 DEF OpenStay
<1> QED BY <1>1, <1>2, TokensAccount

\* The dictionary of the catalog is open.
LEMMA EndAccounts ==
    ASSUME DInv, DInv', OInv, LInv, ~thrown, End
    PROVE  LInv'
<1>1. busy = {} /\ event = NoEvent BY DEF End, IsFree
<1>2. IsOutput(out) /\ out.open = <<>> BY <1>1, NothingOpen
<1>3. \A n : ~IsOpen(out, n) BY <1>2, NoneOpen
<1>4. OwnersRemain BY DEF End, OwnersRemain
<1>5. OwnersStay(heap, wrappers, heap', wrappers') BY <1>4, OwnersRemaining
<1>6. CASE /\ Room(1) /\ heap' = Created(heap, <<Native("dictionary", None, {})>>)
           /\ out' = DictionaryStarted(ObjectStarted(out), New(1))
  <2> DEFINE x == Native("dictionary", None, {})
             rs == <<x>>
  <2>1. x.kind = "dictionary" /\ DOMAIN rs = 1 .. 1 /\ rs[1] = x /\ 1 \in 1 .. 3 BY NativeHas
  <2>2. heap' = Created(heap, rs) BY <1>6
  <2>3. out' = Begun(out, 1, 1) BY <1>6 DEF Begun
  <2> HIDE DEF x, rs
  <2>4. MadeOf(heap', rs, 1) /\ ObjectsStay(heap, heap') /\ ModifiersStay
    BY <1>6, <2>1, <2>2, MadeIs
  <2>5. New(1) \in Nat BY <1>6, NewIsAddress
  <2>6. IsOpen(out', New(1))
    <3>1. 1 \in 1 .. 2 /\ 1 \in Nat /\ 1 \in 1 .. 1 /\ 1 + 1 - 1 = 1 OBVIOUS
    <3>2. \A i \in 1 .. 1 : IsOpen(Begun(out, 1, 1), New(1 + i - 1)) BY <1>2, <2>5, <3>1, BeganOpen
    <3> QED BY <2>3, <3>1, <3>2
  <2>7. NewAccounted(heap, heap', wrappers', event', out', busy')
    <3> SUFFICES ASSUME NEW n \in DOMAIN heap', n \notin DOMAIN heap
                 PROVE  IsKept(heap', wrappers', event', out', n) /\ heap'[n].kind # "modifier"
      BY DEF NewAccounted
    <3>1. PICK i \in 1 .. 1 : n = New(i) BY <2>4, OfMade
    <3>2. n = New(1) /\ heap'[n] = x BY <2>1, <2>4, <3>1 DEF MadeOf
    <3> QED BY <2>1, <2>6, <3>2 DEF IsKept
  <2>8. EndedStay(heap, busy, heap', busy') BY <1>1, <2>4 DEF EndedStay, ModifiersStay
  <2> QED BY <1>1, <1>3, <1>5, <2>4, <2>7, <2>8, CallingAccounts
<1>7. CASE UNCHANGED <<heap, wrappers, out>>
  <2>1. ObjectsStay(heap, heap') BY <1>7, SameStay
  <2>2. NewAccounted(heap, heap', wrappers', event', out', busy') BY <1>7 DEF NewAccounted
  <2>3. EndedStay(heap, busy, heap', busy') BY <1>1, <1>7 DEF EndedStay
  <2> QED BY <1>1, <1>3, <1>5, <2>1, <2>2, <2>3, CallingAccounts
<1> QED BY <1>6, <1>7 DEF End

\* The object of the form ends, and nothing is due.
LEMMA FollowingAccounts ==
    ASSUME DInv, DInv', OInv, LInv, ~thrown, PageFollows
    PROVE  LInv'
<1>1. event.call = "modify" /\ event.left = <<>> /\ UNCHANGED <<heap, wrappers>> BY DEF PageFollows
<1>2. out.open = <<Object>> BY <1>1, WaitingIs
<1>3. event # NoEvent BY <1>1 DEF NoEvent
<1>4. busy \in {{Listening}, {Waiting}} BY <1>3 DEF DInv, IsBusy
<1>5. ObjectsStay(heap, heap') BY <1>1, SameStay
<1>6. ModifiersStay BY <1>1 DEF ModifiersStay
<1>7. OpenStay(heap, out, heap', out') BY <1>2, NoneOpen, OpenStays
<1>8. DueStay(event, heap', wrappers', event') BY <1>1 DEF DueStay, Due
<1>9. EndedStay(heap, busy, heap', busy') BY <1>4, <1>6, BusyEnds DEF Special
<1>10. OwnersRemain BY <1>1 DEF OwnersRemain
<1>11. OwnersStay(heap, wrappers, heap', wrappers') BY <1>10, OwnersRemaining
<1>12. NewAccounted(heap, heap', wrappers', event', out', busy') BY <1>1 DEF NewAccounted
<1> QED BY <1>5, <1>7, <1>8, <1>9, <1>11, <1>12, StepAccounts DEF StepStays

\* The dictionary that ends is the innermost one, and goes; the others stay open.
LEMMA ListenerAccounts ==
    ASSUME DInv, DInv', OInv, LInv, ~thrown, ListenerIsDone, ListenerReturns
    PROVE  LInv'
<1> SUFFICES ASSUME ~thrown' PROVE LInv' BY DEF LInv
<1> DEFINE left == event.left
           d == Head(left)
           rest == Tail(left)
           e == [event EXCEPT !.left = rest]
           more == IF rest = <<>> THEN {} ELSE {Handed(Head(rest))}
<1>1. /\ left # <<>> /\ Top(out)[1] = "dictionary" /\ InnermostDictionary(out) = d
      /\ heap' = Freed(heap, {d}) /\ out' = Closed(out, Dictionary(d)) /\ event' = e
      /\ wrappers' = (wrappers \ About({d})) \cup more
  BY DEF ListenerReturns, ListenerIsDone
<1>2. event \in [call : {"none", "write", "page", "modify", "end"}, left : Seq(Nat), frees : SUBSET Nat, gives : SUBSET Wrapper]
  BY DEF DInv, IsEvent
<1>3. e.call = event.call /\ e.frees = event.frees /\ e.gives = event.gives BY <1>2
<1>4. event # NoEvent BY <1>1 DEF NoEvent
<1>5. busy \in {{Listening}, {Waiting}} /\ Nests(heap, out, busy, event)
  BY <1>4 DEF OInv, DInv, IsBusy
<1>6. IsOutput(out) BY <1>5 DEF Nests
<1>7. out.open # <<>> /\ Top(out) = Dictionary(d) BY <1>1, <1>6, InnermostIs
<1>8. d \in DOMAIN heap /\ heap[d].kind = "dictionary"
  <2>1. left \in Seq(Nat) /\ left # <<>> BY <1>1, <1>2
  <2> HIDE DEF left
  <2>2. 1 \in DOMAIN left /\ d = left[1] BY <2>1
  <2> QED BY <2>2 DEF left, DInv, IsEvent
<1>9. OwnersRemain BY <1>1, AboutAreLent DEF OwnersRemain
<1> HIDE DEF d, e, more, rest, left
<1>10. IsHeap(heap) /\ DOMAIN heap' = DOMAIN heap \ {d} /\ \A m \in DOMAIN heap' : heap'[m] = heap[m]
  <2> DEFINE F == {d}
              g == Freed(heap, F)
  <2> HIDE DEF F
  <2>1. DOMAIN g = DOMAIN heap \ F /\ \A m \in DOMAIN heap \ F : g[m] = heap[m] BY FreedIs
  <2>2. heap' = g BY <1>1 DEF F
  <2> HIDE DEF g
  <2> QED BY <2>1, <2>2 DEF F, DInv
<1>11. ObjectsStay(heap, heap') BY <1>1, <1>8, <1>10, FreedStays
<1>12. ModifiersStay BY <1>10 DEF ModifiersStay
<1>13. OpenStay(heap, out, heap', out')
  <2> SUFFICES ASSUME NEW m \in DOMAIN heap, m \in DOMAIN heap', IsOpen(out, m)
               PROVE  IsOpen(out', m)
    BY DEF OpenStay
  <2> DEFINE y == Dictionary(d)
  <2>1. y # Dictionary(m) BY <1>10, ThingsAre
  <2>2. Top(out) = y /\ out' = Closed(out, y) BY <1>1, <1>7
  <2> HIDE DEF y
  <2> QED BY <1>6, <1>7, <2>1, <2>2, RestStaysOpen
<1>14. DueStay(event, heap', wrappers', event') BY <1>1, <1>3 DEF DueStay, Due
<1>15. EndedStay(heap, busy, heap', busy') BY <1>5, <1>12, BusyEnds DEF Special
<1>16. OwnersStay(heap, wrappers, heap', wrappers') BY <1>9, OwnersRemaining
<1>17. NewAccounted(heap, heap', wrappers', event', out', busy') BY <1>10 DEF NewAccounted
<1> QED BY <1>11, <1>13, <1>14, <1>15, <1>16, <1>17, StepAccounts DEF StepStays

\* What the call kept goes, or belongs to the wrapper that it returns.
LEMMA ReturningAccounts ==
    ASSUME DInv, DInv', OInv, LInv, ~thrown, CallReturns
    PROVE  LInv'
<1> DEFINE F == event.frees
<1>1. /\ event.call \in {"write", "page"} /\ event.left = <<>> /\ event' = NoEvent
      /\ heap' = Freed(heap, F) /\ wrappers' = wrappers \cup event.gives
  BY DEF CallReturns
<1>2. out.open = <<Object>> BY <1>1, WaitingIs
<1>3. event # NoEvent BY <1>1 DEF NoEvent
<1>4. busy \in {{Listening}, {Waiting}} BY <1>3 DEF DInv, IsBusy
<1>5. \A n \in F : n \in DOMAIN heap /\ heap[n].kind \in {"page", "form"} BY DEF DInv, IsEvent
<1>6. \A x \in event.gives : x = Wrap("FormXObject", x.native, TRUE, None) BY DEF DInv, IsEvent
<1>7. \A x \in event.gives : x.owns BY <1>6 DEF Wrap
<1> HIDE DEF F
<1>8. IsHeap(heap) /\ DOMAIN heap' = DOMAIN heap \ F /\ \A m \in DOMAIN heap' : heap'[m] = heap[m]
  <2>1. DOMAIN Freed(heap, F) = DOMAIN heap \ F /\ \A m \in DOMAIN heap \ F : Freed(heap, F)[m] = heap[m]
    BY FreedIs
  <2> QED BY <1>1, <2>1 DEF DInv
<1>9. ObjectsStay(heap, heap') BY <1>1, <1>5, <1>8, FreedStays
<1>10. ModifiersStay BY <1>8 DEF ModifiersStay
<1>11. OpenStay(heap, out, heap', out') BY <1>2, NoneOpen, OpenStays
<1>12. DueStay(event, heap', wrappers', event')
  <2> SUFFICES ASSUME NEW n \in Due(event), n \in DOMAIN heap' PROVE IsDeleted(heap', wrappers', n)
    BY DEF DueStay
  <2>1. n \in F \/ \E x \in event.gives : n = x.native BY <1>1 DEF Due, F
  <2>2. PICK x \in event.gives : n = x.native BY <1>8, <2>1
  <2>3. n # None BY NativesAssumption DEF DInv, IsHeap, None
  <2> QED BY <1>1, <1>7, <2>2, <2>3, OwnerDeletes
<1>13. EndedStay(heap, busy, heap', busy') BY <1>4, <1>10, BusyEnds DEF Special
<1>14. OwnersRemain BY <1>1 DEF OwnersRemain
<1>15. OwnersStay(heap, wrappers, heap', wrappers') BY <1>14, OwnersRemaining
<1>16. NewAccounted(heap, heap', wrappers', event', out', busy') BY <1>8 DEF NewAccounted
<1> QED BY <1>9, <1>11, <1>12, <1>13, <1>15, <1>16, StepAccounts DEF StepStays

\* The fonts and the proxies go: the writer has no parts left.
LEMMA EndOverAccounts ==
    ASSUME DInv, DInv', OInv, LInv, ~thrown, FinishEnd
    PROVE  LInv'
<1> SUFFICES ASSUME ~thrown' PROVE LInv' BY DEF LInv
<1> DEFINE a == session.writer
           k == CleanedUp(heap)
           P == heap[a].parts \ Fonts
           f == Freed(k, P)
           g == [f EXCEPT ![a].parts = {}]
<1>1. /\ event.call = "end" /\ event.left = <<>> /\ event' = NoEvent
      /\ heap' = g /\ wrappers' = wrappers \ Of("UsedFont")
  BY DEF FinishEnd, Throws
<1>2. out.open = <<Object>> \/ out.open = <<>> BY <1>1, WaitingIs
<1>3. event # NoEvent BY <1>1 DEF NoEvent
<1>4. busy \in {{Listening}, {Waiting}} BY <1>3 DEF DInv, IsBusy
<1>5. WriterHeld(wrappers) BY <1>3, WhenRunning
<1>6. Remains(g) BY <1>5, RemainsOf
<1>7. DOMAIN k = DOMAIN heap \ Fonts /\ \A n \in DOMAIN heap \ Fonts : Cleaned(n) BY CleanedIs
<1>8. DOMAIN f = DOMAIN k \ P /\ \A n \in DOMAIN k \ P : f[n] = k[n]
  <2> HIDE DEF k, P
  <2> QED BY FreedIs
<1>9. DOMAIN g = DOMAIN f /\ \A n \in DOMAIN f : n # a => g[n] = f[n]
  <2> HIDE DEF f
  <2> QED OBVIOUS
<1>10. \A n \in DOMAIN g : n \in DOMAIN heap \ Fonts /\ n \notin P BY <1>7, <1>8, <1>9
<1>11. ASSUME NEW n \in DOMAIN g PROVE heap[n].parts \cap DOMAIN g \subseteq g[n].parts
  <2>1. CASE n = a BY <1>10, <2>1
  <2>2. CASE n # a
    <3>1. g[n] = k[n] /\ n \in DOMAIN heap \ Fonts BY <1>8, <1>9, <1>10, <2>2
    <3>2. heap[n].parts \ Fonts \subseteq k[n].parts BY <1>7, <3>1 DEF Cleaned
    <3> HIDE DEF k, g
    <3> QED BY <1>10, <3>1, <3>2
  <2> QED BY <2>1, <2>2
<1> HIDE DEF g, f, k, P, a
<1>12. IsHeap(heap) /\ \A n \in registered : heap[n].kind = "copying" BY DEF DInv, IsSession
<1>13. KeepsParts(heap, g)
  <2>1. \A n \in DOMAIN g : g[n].kind = heap[n].kind /\ (heap[n].kind # "copying" => g[n].of = heap[n].of)
    BY <1>6, <1>12 DEF Remains
  <2>2. \A n \in DOMAIN heap : n \notin DOMAIN g => heap[n].kind # "pageContext" BY <1>6 DEF Remains
  <2> QED BY <1>11, <2>1, <2>2 DEF KeepsParts
<1>14. ObjectsStay(heap, heap') BY <1>1, <1>12, <1>13, KeepingStays
<1>15. ModifiersStay BY <1>1, <1>6 DEF ModifiersStay, Remains
<1>16. OwnersRemain
  <2>1. \A w \in wrappers : w.owns => w.class # "UsedFont" BY DEF DInv, IsWrapped, OwnerFits, OwnerOf
  <2> QED BY <1>1, <2>1 DEF OwnersRemain, Of
<1>17. OwnersStay(heap, wrappers, heap', wrappers') BY <1>16, OwnersRemaining
<1>18. DueStay(event, heap', wrappers', event') BY <1>1 DEF DueStay, Due
<1>19. OpenStay(heap, out, heap', out') BY <1>2, NoneOpen, OpenStays
<1>20. EndedStay(heap, busy, heap', busy') BY <1>4, <1>15, BusyEnds DEF Special
<1>21. NewAccounted(heap, heap', wrappers', event', out', busy') BY <1>1, <1>6 DEF NewAccounted, Remains
<1> QED BY <1>14, <1>17, <1>18, <1>19, <1>20, <1>21, StepAccounts DEF StepStays

-----------------------------------------------------------------------------
(***************************************************************************)
(* What the collector takes, with its wrapper.                             *)
(***************************************************************************)
LEMMA TakenAccounts ==
    ASSUME DInv, DInv', LInv, NEW w \in wrappers, ~w.held, wrappers' = wrappers \ {w}, thrown' = thrown,
           UNCHANGED <<out, busy, event>>, DOMAIN heap' \subseteq DOMAIN heap \ DeletesIn(heap, w),
           KeepsParts(heap, heap'), ModifiersStay
    PROVE  LInv'
<1>1. CASE thrown BY <1>1 DEF LInv
<1>2. CASE ~thrown
  <2>1. IsHeap(heap) BY DEF DInv
  <2>2. ObjectsStay(heap, heap') BY <2>1, KeepingStays
  <2>3. OwnersStay(heap, wrappers, heap', wrappers')
    <3> SUFFICES ASSUME NEW v \in wrappers, v.owns
                 PROVE  /\ v.native \in DOMAIN heap
                        /\ \/ \E y \in wrappers' : Follows(heap', v, y)
                           \/ DeletesIn(heap, v) \cap DOMAIN heap' = {} /\ ~v.held
      BY DEF OwnersStay
    <3>1. CASE v # w
      <4>1. v \in wrappers' BY <3>1
      <4> QED BY <4>1, FollowsSame
    <3>2. CASE v = w
      <4>1. v.native \in DOMAIN heap BY DEF DInv, IsWrapped, OwnerFits
      <4> QED BY <3>2, <4>1
    <3> QED BY <3>1, <3>2
  <2>4. DueStay(event, heap', wrappers', event') BY DEF DueStay
  <2>5. OpenStay(heap, out, heap', out') BY DEF OpenStay
  <2>6. EndedStay(heap, busy, heap', busy') BY DEF EndedStay, ModifiersStay
  <2>7. NewAccounted(heap, heap', wrappers', event', out', busy') BY DEF NewAccounted
  <2> QED BY <1>2, <2>2, <2>3, <2>4, <2>5, <2>6, <2>7, StepAccounts DEF StepStays
<1> QED BY <1>1, <1>2

LEMMA CollectingAccounts ==
    ASSUME DInv, DInv', LInv, NEW w \in wrappers, CollectCopyingContext(w) \/ CollectOther(w),
           UNCHANGED <<out, busy, event>>
    PROVE  LInv'
<1> DEFINE D == DeletesIn(heap, w)
<1>1. /\ thrown' = thrown /\ ~w.held /\ wrappers' = wrappers \ {w} /\ heap' = Freed(heap, D)
  BY Destroys DEF CollectCopyingContext, CollectOther
<1>2. w.owns /\ IsHeap(heap) /\ IsWrapped(heap, wrappers) BY <1>1 DEF DInv, IsWrapped, BorrowerFits
<1>3. \A p \in D : heap[p].kind # "pageContext" BY <1>2, DeletedKinds
<1> HIDE DEF D
<1>4. DOMAIN heap' = DOMAIN heap \ D /\ \A n \in DOMAIN heap' : heap'[n] = heap[n]
  <2>1. DOMAIN Freed(heap, D) = DOMAIN heap \ D /\ \A n \in DOMAIN heap \ D : Freed(heap, D)[n] = heap[n]
    BY FreedIs
  <2> QED BY <1>1, <2>1
<1>5. KeepsParts(heap, heap') BY <1>3, <1>4 DEF KeepsParts
<1>6. ModifiersStay BY <1>4 DEF ModifiersStay
<1> QED BY <1>1, <1>4, <1>5, <1>6, TakenAccounts DEF D

\* The document context is cleaned up as well.
LEMMA CollectingWriterAccounts ==
    ASSUME DInv, DInv', LInv, NEW w \in wrappers, CollectWriter(w), UNCHANGED <<out, busy, event>>
    PROVE  LInv'
<1> DEFINE D == DeletesIn(heap, w)
           k == CleanedUp(heap)
<1>1. /\ thrown' = thrown /\ ~w.held /\ wrappers' = wrappers \ {w} /\ heap' = Freed(k, D)
  BY Destroys DEF CollectWriter
<1>2. w.owns /\ IsHeap(heap) /\ IsWrapped(heap, wrappers) BY <1>1 DEF DInv, IsWrapped, BorrowerFits
<1>3. \A p \in D : heap[p].kind # "pageContext" BY <1>2, DeletedKinds
<1>4. DOMAIN k = DOMAIN heap \ Fonts /\ \A n \in DOMAIN heap \ Fonts : Cleaned(n) BY CleanedIs
<1>5. \A n \in DOMAIN heap \ Fonts : /\ k[n].kind = heap[n].kind
                                     /\ heap[n].parts \ Fonts \subseteq k[n].parts /\ k[n].parts \subseteq heap[n].parts
                                     /\ n \notin registered => k[n].of = heap[n].of
  BY <1>4 DEF Cleaned
<1>6. \A n \in registered : heap[n].kind = "copying" BY DEF DInv, IsSession
<1>7. \A n \in Fonts : heap[n].kind = "font" BY DEF Fonts
<1> HIDE DEF D, k
<1>8. DOMAIN heap' = DOMAIN k \ D /\ \A n \in DOMAIN heap' : heap'[n] = k[n]
  <2>1. DOMAIN Freed(k, D) = DOMAIN k \ D /\ \A n \in DOMAIN k \ D : Freed(k, D)[n] = k[n] BY FreedIs
  <2> QED BY <1>1, <2>1
<1>9. DOMAIN heap' = (DOMAIN heap \ Fonts) \ D BY <1>4, <1>8
<1>10. KeepsParts(heap, heap')
  <2>1. ASSUME NEW n \in DOMAIN heap'
        PROVE  /\ heap'[n].kind = heap[n].kind /\ heap[n].parts \cap DOMAIN heap' \subseteq heap'[n].parts
               /\ heap[n].kind # "copying" => heap'[n].of = heap[n].of
    <3>1. n \in DOMAIN heap \ Fonts /\ heap'[n] = k[n] BY <1>8, <1>9
    <3>2. heap[n].parts \cap DOMAIN heap' \subseteq heap[n].parts \ Fonts BY <1>9
    <3>3. k[n].kind = heap[n].kind /\ heap[n].parts \ Fonts \subseteq k[n].parts
          /\ (n \notin registered => k[n].of = heap[n].of)
      BY <1>5, <3>1
    <3> QED BY <1>6, <3>1, <3>2, <3>3
  <2>2. \A n \in DOMAIN heap : n \notin DOMAIN heap' => heap[n].kind # "pageContext" BY <1>3, <1>7, <1>9
  <2> QED BY <2>1, <2>2 DEF KeepsParts
<1>11. ModifiersStay BY <1>5, <1>8, <1>9 DEF ModifiersStay
<1> QED BY <1>1, <1>9, <1>10, <1>11, TakenAccounts DEF D

-----------------------------------------------------------------------------
(***************************************************************************)
(* All steps.                                                              *)
(***************************************************************************)
LEMMA PagesAccount ==
    ASSUME OwnersOnly, DInv, DInv', OInv, LInv, ~thrown, DrawsPages
    PROVE  LInv'
<1>1. CASE CreatePage BY <1>1, PageAccounts
<1>2. ASSUME NEW w \in Of("PDFPage"),
             \/ UsePage(w) \/ StartPageContentContext(w)
             \/ WritePageAndReturnID(w) \/ MergePDFPagesToPage(w)
      PROVE  LInv'
  <2>1. CASE UsePage(w) BY <2>1, LookingAccounts DEF Uses
  <2>2. CASE StartPageContentContext(w) BY <2>2, ContextAccounts
  <2>3. CASE WritePageAndReturnID(w) BY <2>3, WritingPageAccounts
  <2>4. CASE MergePDFPagesToPage(w) BY <2>4, ContextsPause DEF MergePDFPagesToPage
  <2> QED BY <1>2, <2>1, <2>2, <2>3, <2>4
<1>3. ASSUME NEW x \in Of("PageContentContext"),
             \/ GetAssociatedPage(x) \/ DrawOnPage(x)
             \/ GetCurrentPageContentStream(x) \/ PausePageContentContext(x)
      PROVE  LInv'
  <2>1. CASE GetAssociatedPage(x) BY <2>1, LookingAccounts DEF Gets
  <2>2. CASE DrawOnPage(x) \/ GetCurrentPageContentStream(x) BY <2>2, DrawingAccounts
  <2>3. CASE PausePageContentContext(x) BY <2>3, ContextsPause
  <2> QED BY <1>3, <2>1, <2>2, <2>3
<1>4. CASE AppendPDFPagesFromPDF BY <1>4, WholesAccount DEF WritesObjectsWhole
<1>5. CASE AttachURLLinktoCurrentPage BY <1>5, LookingAccounts DEF Looks
<1> QED BY <1>1, <1>2, <1>3, <1>4, <1>5 DEF DrawsPages

LEMMA FormsAccount ==
    ASSUME DInv, DInv', OInv, LInv, ~thrown, DrawsForms
    PROVE  LInv'
<1>1. CASE CreateFormXObject BY <1>1, FormAccounts
<1>2. ASSUME NEW w \in Of("FormXObject"),
             UseForm(w) \/ GetContentContext(w) \/ GetContentStream(w) \/ EndFormXObject(w)
      PROVE  LInv'
  <2>1. CASE UseForm(w) BY <2>1, LookingAccounts DEF Uses
  <2>2. CASE GetContentContext(w) \/ GetContentStream(w) BY <2>2, LookingAccounts DEF Gets
  <2>3. CASE EndFormXObject(w) BY <2>3, FormEndAccounts
  <2> QED BY <1>2, <2>1, <2>2, <2>3
<1>3. CASE \E x \in Of("XObjectContentContext") : DrawOnForm(x) BY <1>3, LookingAccounts DEF Gets
<1>4. CASE CreateFormXObjectsFromPDF BY <1>4, WholesAccount DEF WritesObjectsWhole
<1> QED BY <1>1, <1>2, <1>3, <1>4 DEF DrawsForms

LEMMA ImagesAccount ==
    ASSUME DInv, DInv', OInv, LInv, ~thrown, UsesImages
    PROVE  LInv'
<1>1. CASE CreateFormXObjectFromJPG \/ CreateFormXObjectFromPNG \/ CreateFormXObjectFromTIFF
  BY <1>1, WholesAccount DEF WritesObjectsWhole
<1>2. CASE CreateImageXObjectFromJPG BY <1>2, ImageAccounts
<1>3. CASE \/ \E w \in Of("ImageXObject") : UseImage(w)
           \/ \E x \in Of("UsedFont") : UseFont(x)
  BY <1>3, LookingAccounts DEF Uses
<1>4. CASE GetFontForFile BY <1>4, FontAccounts
<1> QED BY <1>1, <1>2, <1>3, <1>4 DEF UsesImages

LEMMA FilesAccount ==
    ASSUME OwnersOnly, DInv, DInv', OInv, LInv, ~thrown, UsesFiles
    PROVE  LInv'
<1>1. CASE \E class \in {"InputFile", "OutputFile"} : NewFile(class) BY <1>1, FileAccounts
<1>2. ASSUME NEW w \in Of("InputFile") \cup Of("OutputFile"), OpenFile(w) \/ CloseFile(w)
      PROVE  LInv'
  BY <1>2, OpeningAccounts, ClosingAccounts
<1>3. CASE \/ \E w \in Of("InputFile") \cup Of("OutputFile") : GetFileStream(w)
           \/ \E class \in {"InputFile", "OutputFile"} : GetMember(class)
  <2>1. Gets BY <1>3 DEF Gets
  <2> QED BY <2>1, LookingAccounts
<1>4. CASE \E x \in Of("ByteReaderWithPosition") \cup Of("ByteWriterWithPosition") : UseFileStream(x)
  BY <1>4, LookingAccounts DEF Uses
<1> QED BY <1>1, <1>2, <1>3, <1>4 DEF UsesFiles

LEMMA ReadsAccount ==
    ASSUME DInv, DInv', OInv, LInv, ~thrown, Reads \/ Parses
    PROVE  LInv'
<1>1. CASE CreateReader BY <1>1, ReaderAccounts
<1>2. CASE GetMember("PDFReader") \/ \E w \in Of("PDFReader") : GetParserStream(w)
  <2>1. Gets BY <1>2 DEF Gets
  <2> QED BY <2>1, LookingAccounts
<1>3. CASE \/ \E w \in Of("PDFReader") : ParseObjects(w) \/ QueryReader(w)
           \/ \E w \in Of("PDFPageInput") : UsePageInput(w)
           \/ \E w \in Of("ByteReader") : ReadDecoded(w)
  BY <1>3, LookingAccounts DEF Uses
<1>4. ASSUME NEW w \in Of("PDFReader"), ParsePage(w) \/ StartReadingFromStream(w)
      PROVE  LInv'
  BY <1>4, DerivedAccounts DEF ParsePage, StartReadingFromStream
<1> QED BY <1>1, <1>2, <1>3, <1>4 DEF Reads, Parses

LEMMA CopiesAllAccount ==
    ASSUME DInv, DInv', OInv, LInv, ~thrown, CopiesObjects
    PROVE  LInv'
<1>1. CASE CreatePDFCopyingContext \/ CreatePDFCopyingContextForModifiedFile BY <1>1, CopyingAccounts
<1>2. ASSUME NEW x \in Of("DocumentCopyingContext"),
             \/ CreateFormXObjectFromPDFPage(x) \/ AppendPDFPageFromPDF(x)
             \/ \E w \in Of("PDFPage") : MergePDFPageToPage(x, w)
             \/ \E f \in Of("FormXObject") : MergePDFPageToFormXObject(x, f)
             \/ GetSourceDocumentParser(x) \/ GetSourceDocumentStream(x)
             \/ CopyObject(x) \/ CopyNewObjectsForDirectObject(x)
             \/ CopyDirectObject(x) \/ UseCopiedObjects(x)
      PROVE  LInv'
  <2>1. CASE CreateFormXObjectFromPDFPage(x) \/ AppendPDFPageFromPDF(x)
    BY <2>1, WholesAccount DEF WritesObjectsWhole
  <2>2. ASSUME NEW w \in Of("PDFPage"), MergePDFPageToPage(x, w) PROVE LInv'
    BY <2>2, ContextsPause DEF MergePDFPageToPage
  <2>3. ASSUME NEW f \in Of("FormXObject"), MergePDFPageToFormXObject(x, f) PROVE LInv'
    BY <2>3, MergedAccounts
  <2>4. CASE GetSourceDocumentParser(x) \/ GetSourceDocumentStream(x) BY <2>4, LookingAccounts DEF Gets
  <2>5. CASE CopyObject(x) \/ CopyNewObjectsForDirectObject(x) \/ CopyDirectObject(x)
    BY <2>5, LookingAccounts DEF Looks
  <2>6. CASE UseCopiedObjects(x) BY <2>6, LookingAccounts DEF Uses
  <2> QED BY <1>2, <2>1, <2>2, <2>3, <2>4, <2>5, <2>6
<1> QED BY <1>1, <1>2 DEF CopiesObjects

LEMMA ModifiesAccount ==
    ASSUME DInv, DInv', OInv, LInv, ~thrown, ModifiesPages
    PROVE  LInv'
<1>1. CASE NewModifier BY <1>1, ModifierAccounts
<1>2. ASSUME NEW w \in Of("PDFPageModifier"), StartContext(w) \/ EndContext(w) \/ WriteModifiedPage(w)
      PROVE  LInv'
  BY <1>2, StartingAccounts, ModifiedAccounts
<1>3. CASE \/ \E w \in Of("PDFPageModifier") : GetContext(w)
           \/ \E x \in Of("XObjectContentContext") : DrawOnForm(x)
  BY <1>3, LookingAccounts DEF Gets
<1>4. CASE \E w \in Of("PDFPageModifier") : AttachURLLinkToModifiedPage(w) BY <1>4, LookingAccounts DEF Looks
<1> QED BY <1>1, <1>2, <1>3, <1>4 DEF ModifiesPages

LEMMA CallsAccount ==
    ASSUME OwnersOnly, DInv, DInv', OInv, LInv, ~thrown, program.nests, Calls
    PROVE  LInv'
<1>1. CASE CreateWriter \/ CreateWriterToContinue \/ CreateWriterToModify BY <1>1, WritersAccount
<1>2. CASE Shutdown \/ End \/ FinishEnd \/ CallReturns \/ PageFollows
  BY <1>2, ShutdownAccounts, EndAccounts, EndOverAccounts, ReturningAccounts, FollowingAccounts
<1>a. CASE ListenerIsDone /\ ListenerReturns BY <1>a, ListenerAccounts
<1>3. CASE WritesObjects BY <1>3, ObjectsAccount
<1>4. CASE DrawsPages BY <1>4, PagesAccount
<1>5. CASE DrawsForms BY <1>5, FormsAccount
<1>6. CASE UsesImages BY <1>6, ImagesAccount
<1>7. CASE UsesFiles BY <1>7, FilesAccount
<1>8. CASE Reads \/ Parses BY <1>8, ReadsAccount
<1>9. CASE CopiesObjects BY <1>9, CopiesAllAccount
<1>10. CASE ModifiesPages BY <1>10, ModifiesAccount
<1> QED BY <1>1, <1>2, <1>a, <1>3, <1>4, <1>5, <1>6, <1>7, <1>8, <1>9, <1>10 DEF Calls

LEMMA StepsAccount ==
    ASSUME OwnersOnly, DInv, OInv, LInv, program.nests, [Next]_vars
    PROVE  LInv'
<1>1. DInv' BY StepsKeep
<1>2. CASE UNCHANGED vars BY <1>2 DEF vars, LInv
<1>3. CASE ~thrown /\ Calls BY <1>1, <1>3, CallsAccount
<1>4. ASSUME NEW w \in wrappers, LetGoOf(w) PROVE LInv' BY <1>1, <1>4, LettingGoAccounts
<1>5. ASSUME NEW w \in wrappers, Collect(w) PROVE LInv'
  <2>1. UNCHANGED <<out, busy, event>> BY <1>5 DEF Collect
  <2> QED BY <1>1, <1>5, <2>1, CollectingWriterAccounts, CollectingAccounts DEF Collect
<1> QED BY <1>2, <1>3, <1>4, <1>5 DEF Next

LEMMA InitAccounts == Init => LInv
<1> SUFFICES ASSUME Init PROVE LInv OBVIOUS
<1>1. DOMAIN heap = {} BY DEF Init
<1> QED BY <1>1 DEF LInv, Accounted, Ended

\* The part that concerns programs that nest what they write.
AInv == program.nests => OInv /\ LInv

\* Without wrappers there is no writer, so that nothing is open and no call waits: what is
\* left could only be the context of a page, or its stream.
LEMMA AccountedImplies ==
    ASSUME DInv, AInv
    PROVE  NothingLeaks
<1> SUFFICES ASSUME program.nests, wrappers = {}, ~thrown, NEW n \in DOMAIN heap PROVE FALSE
  BY DEF NothingLeaks, Live
<1>0. OInv /\ LInv BY DEF AInv
<1>1. ~WriterHeld(wrappers) BY DEF WriterHeld
<1>2. event = NoEvent /\ out.open = <<>> BY <1>0, <1>1, WithoutWriter
<1>3. Due(event) = {} BY <1>2 DEF Due, NoEvent
<1>4. \A m : ~IsOpen(out, m) BY <1>2, NoneOpen
<1>5. \A m : ~IsDeleted(heap, wrappers, m) /\ ~HasPage(wrappers, m) BY DEF IsDeleted, HasPage
<1>6. \A m \in DOMAIN heap : IsDrawn(heap, m) BY <1>0, <1>3, <1>4, <1>5 DEF LInv, Accounted, IsKept
<1>7. PICK c \in DOMAIN heap : heap[c].kind = "pageContext" BY <1>6 DEF IsDrawn
<1>8. PICK d \in DOMAIN heap : heap[d].kind = "pageContext" /\ c \in heap[d].parts BY <1>6 DEF IsDrawn
<1>9. HasPart("pageContext", "pageContext") BY <1>7, <1>8 DEF DInv, IsHeap, PartsFit
<1> QED BY <1>9 DEF HasPart, Deletable, Lent

\* When the collector has taken the last wrapper, every object is deleted, unless a call
\* failed: for any programs that end what they start in the dictionaries they are handed,
\* any bounds and any order of the collector, as long as pages are written, and files
\* opened, by the wrappers that own them.
THEOREM EverythingIsDeleted ==
    ASSUME OwnersOnly
    PROVE  Spec => []NothingLeaks
<1>1. Init => DInv /\ AInv BY InitSound, InitNests, InitAccounts DEF AInv
<1>2. DInv /\ AInv /\ [Next]_vars => (DInv /\ AInv)'
  BY StepsKeep, StepsNest, StepsAccount, SameProgram DEF AInv
<1>3. DInv /\ AInv => NothingLeaks BY AccountedImplies
<1> QED BY <1>1, <1>2, <1>3, PTL DEF Spec
=============================================================================
