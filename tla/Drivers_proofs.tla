--------------------------- MODULE Drivers_proofs ---------------------------
(***************************************************************************)
(* No call of a program that writes pages, and opens files, by the         *)
(* wrappers that own them, and no destructor that the collector runs, uses *)
(* an object that does not exist any more. The invariant, DInv:            *)
(*                                                                         *)
(*   IsHeap     which objects have which parts, and who points back at     *)
(*              whom, kind by kind                                         *)
(*   IsWrapped  what a wrapper owns is there and has no other owner, and   *)
(*              what a wrapper that the program holds may use is there and *)
(*              in the hands of no wrapper that waits for the collector    *)
(*   IsSession  there is one writer, its fonts are its parts, and the      *)
(*              copying contexts that registered with it are known         *)
(*   IsEvent    what a call that waits for the listener will free or give  *)
(*              is nobody's yet                                            *)
(*   IsBusy     what the program is in the middle of has an owner that the *)
(*              program holds, unless a call failed                        *)
(*                                                                         *)
(* First lemmas about new addresses, then what is made, borrowed, let go   *)
(* and freed does to these parts, then the calls one by one.               *)
(***************************************************************************)
EXTENDS Drivers, FiniteSetTheorems, NaturalsInduction, WellFoundedInduction, TLAPS

(***************************************************************************)
(* What exists, for any objects h and wrappers ws.                         *)
(***************************************************************************)
Kinds == {"writer", "proxy", "dictionary", "stream", "page", "pageContext", "form", "formContext",
          "image", "font", "file", "fileStream", "parser", "derived", "copying", "modifier"}
Classes == {"PDFWriter", "DictionaryContext", "PDFStream", "PDFPage", "PageContentContext",
            "FormXObject", "XObjectContentContext", "ImageXObject", "UsedFont", "InputFile",
            "OutputFile", "ByteReaderWithPosition", "ByteWriterWithPosition", "PDFReader",
            "PDFPageInput", "ByteReader", "DocumentCopyingContext", "PDFPageModifier"}

Record == [kind : Kinds, of : Nat, parts : SUBSET (Nat \ {None})]
Wrapper == [class : Classes, native : Nat, owns : BOOLEAN, also : Nat, held : BOOLEAN]

\* What may be a part of what, and what of it points back.
Deletable(a, b) ==
    \/ a = "writer" /\ b \in {"proxy", "font"}
    \/ a \in {"form", "modifier"} /\ b \in {"formContext", "stream"}
    \/ a = "file" /\ b = "fileStream"
Lent(a, b) ==
    \/ a = "pageContext" /\ b = "stream"
    \/ a = "parser" /\ b = "proxy"
HasPart(a, b) ==
    \/ Deletable(a, b) \/ Lent(a, b)
    \/ a = "form" /\ b = "copying"
    \/ a \in {"derived", "copying"} /\ b \in {"parser", "writer"}
PointsBack(a, b) ==
    \/ a = "page" /\ b = "pageContext"
    \/ a = "pageContext" /\ b = "page"
    \/ a \in {"formContext", "stream"} /\ b \in {"form", "modifier"}
    \/ a \in {"font", "proxy", "copying", "modifier"} /\ b = "writer"
    \/ a = "fileStream" /\ b = "file"
    \/ a = "parser" /\ b = "copying"
Childless == {"proxy", "dictionary", "stream", "page", "formContext", "image", "font", "fileStream"}
Rootless == {"writer", "dictionary", "form", "image", "file", "derived"}

PartsFit(h, n) ==
    /\ h[n].kind \in Childless => h[n].parts = {}
    /\ \A p \in h[n].parts : p \in DOMAIN h =>
          /\ HasPart(h[n].kind, h[p].kind)
          /\ Deletable(h[n].kind, h[p].kind) => h[p].of = n
          /\ Lent(h[n].kind, h[p].kind) => h[p].of = None
OfFits(h, n) ==
    /\ h[n].kind \in Rootless => h[n].of = None
    /\ h[n].kind = "pageContext" => h[n].of # None
    /\ h[n].of \in DOMAIN h =>
          /\ PointsBack(h[n].kind, h[h[n].of].kind)
          /\ h[n].kind \in {"page", "pageContext"} => h[h[n].of].of = n
ContextFits(h, n) ==
    h[n].kind = "pageContext" =>
        /\ h[n].parts \subseteq DOMAIN h
        /\ \A m \in DOMAIN h : m # n => h[m].parts \cap h[n].parts = {}
IsHeap(h) ==
    /\ DOMAIN h \subseteq 1 .. MaxNatives
    /\ h \in [DOMAIN h -> Record]
    /\ \A n \in DOMAIN h : PartsFit(h, n) /\ OfFits(h, n) /\ ContextFits(h, n)

ReachIn(h, n) ==
    IF n \notin DOMAIN h THEN {n} \ {None}
    ELSE ({n, h[n].of} \cup h[n].parts
            \cup UNION {h[p].parts : p \in h[n].parts \cap DOMAIN h}) \ {None}
WithProxy == {"PDFReader", "DocumentCopyingContext"}
OwnedIn(h, n) ==
    {n} \cup (IF n \in DOMAIN h THEN {p \in h[n].parts \cap DOMAIN h : h[p].of = n} ELSE {})
DeletesIn(h, w) ==
    IF w.owns
    THEN (OwnedIn(h, w.native) \cup (IF w.class \in WithProxy THEN {w.also} ELSE {})) \ {None}
    ELSE {}

OwnerOf(c, k) ==
    \/ c = "PDFWriter" /\ k = "writer"
    \/ c = "PDFStream" /\ k = "stream"
    \/ c = "PDFPage" /\ k = "page"
    \/ c = "FormXObject" /\ k = "form"
    \/ c = "ImageXObject" /\ k = "image"
    \/ c \in {"InputFile", "OutputFile"} /\ k = "file"
    \/ c = "PDFReader" /\ k = "parser"
    \/ c \in {"PDFPageInput", "ByteReader"} /\ k = "derived"
    \/ c = "DocumentCopyingContext" /\ k = "copying"
    \/ c = "PDFPageModifier" /\ k = "modifier"
BorrowerOf(c, k) ==
    \/ c = "DictionaryContext" /\ k = "dictionary"
    \/ c = "PageContentContext" /\ k = "pageContext"
    \/ c = "PDFPage" /\ k = "page"
    \/ c = "PDFStream" /\ k = "stream"
    \/ c = "XObjectContentContext" /\ k = "formContext"
    \/ c = "UsedFont" /\ k = "font"
    \/ c = "PDFReader" /\ k \in {"parser", "writer"}
    \/ c \in {"InputFile", "OutputFile"} /\ k = "writer"
    \/ c \in {"ByteReaderWithPosition", "ByteWriterWithPosition"} /\ k \in {"fileStream", "parser", "writer"}

OwnerFits(h, w) ==
    /\ w.native \in DOMAIN h /\ OwnerOf(w.class, h[w.native].kind)
    /\ w.class \in {"PDFStream", "PDFReader"} => h[w.native].of = None
    /\ w.class = "PDFStream" => \A n \in DOMAIN h : w.native \notin h[n].parts
    /\ w.class \in WithProxy /\ w.also # None =>
          w.also \in DOMAIN h /\ h[w.also].kind = "proxy" /\ h[w.also].of = None
    /\ w.class = "PDFPage" => w.also = h[w.native].of
BorrowerFits(h, ws, w) ==
    /\ w.held
    /\ w.native \in DOMAIN h /\ BorrowerOf(w.class, h[w.native].kind)
    /\ w.class = "XObjectContentContext" => \E v \in ws : v.owns /\ v.native = h[w.native].of
OwnersDiffer(ws) ==
    \A v, w \in ws : v.owns /\ w.owns =>
       /\ v.native = w.native => v = w
       /\ v.class \in WithProxy /\ w.class \in WithProxy /\ v.also # None /\ v.also = w.also => v = w
OneDictionary(ws) ==
    \A v, w \in ws : v.class = "DictionaryContext" /\ w.class = "DictionaryContext"
          /\ v.native = w.native => v = w
ParsersOwned(h, ws) ==
    \A p \in DOMAIN h : h[p].kind = "parser" => \E w \in ws : w.owns /\ p \in DeletesIn(h, w)

\* What may be used: it exists, and waits for no collector.
Safe(h, ws, n) ==
    /\ n \in DOMAIN h
    /\ ReachIn(h, n) \subseteq DOMAIN h
    /\ \A w \in ws : ~w.held => ReachIn(h, n) \cap DeletesIn(h, w) = {}

IsWrapped(h, ws) ==
    /\ ws \subseteq Wrapper
    /\ \A w \in ws : w.owns => OwnerFits(h, w)
    /\ \A w \in ws : ~w.owns => BorrowerFits(h, ws, w)
    /\ OwnersDiffer(ws) /\ OneDictionary(ws)
    /\ ParsersOwned(h, ws)
    /\ \A w \in ws : w.held => Safe(h, ws, w.native)

States == {"none", "on", "failed", "over"}
IsSession(h, ws, s, reg) ==
    /\ s \in [writer : Nat, state : States, modifies : BOOLEAN]
    /\ s.writer # None => \E w \in ws : w.class = "PDFWriter" /\ w.native = s.writer
    /\ \A w \in ws : w.class = "PDFWriter" => w.owns /\ w.native = s.writer
    /\ \A n \in DOMAIN h : h[n].kind = "writer" => n = s.writer
    /\ \A n \in DOMAIN h : h[n].kind = "font" =>
          h[n].of = s.writer /\ s.writer \in DOMAIN h /\ n \in h[s.writer].parts
    /\ reg = {n \in DOMAIN h : h[n].kind = "copying" /\ h[n].of # None}
    /\ \A n \in reg : h[n].of = s.writer

WriterHeld(ws) == \E w \in ws : w.class = "PDFWriter" /\ w.held

IsEvent(h, ws, e) ==
    /\ e \in [call : {"none", "write", "page", "modify", "end"}, left : Seq(Nat), frees : SUBSET Nat,
              gives : SUBSET Wrapper]
    /\ \A i \in DOMAIN e.left : e.left[i] \in DOMAIN h /\ h[e.left[i]].kind = "dictionary"
    /\ \A i, j \in DOMAIN e.left : e.left[i] = e.left[j] => i = j
    /\ \A w \in ws : \A i \in DOMAIN e.left : w.native = e.left[i] => w = Handed(w.native)
    /\ \A n \in e.frees \cup {g.native : g \in e.gives} :
          /\ n \in DOMAIN h /\ h[n].kind \in {"page", "form"}
          /\ h[n].of = None /\ h[n].parts = {}
          /\ \A w \in ws : w.native # n
          /\ \A m \in DOMAIN h : h[m].of # n
    /\ \A g1, g2 \in e.gives : g1 = g2
    /\ \A g \in e.gives : g = Wrap("FormXObject", g.native, TRUE, None) /\ h[g.native].kind = "form"
    /\ e.frees \cap {g.native : g \in e.gives} = {}

HasForm(h, ws, n) ==
    /\ \E w \in ws : w.owns /\ w.held /\ w.native = n
    /\ \E p \in h[n].parts : p \in DOMAIN h /\ h[p].kind = "formContext"
    /\ \E p \in h[n].parts : p \in DOMAIN h /\ h[p].kind = "stream"
IsBusy(h, ws, e, b) ==
    /\ e # NoEvent => b \in {{Listening}, {Waiting}}
    /\ b # {} \/ e # NoEvent => WriterHeld(ws)
    /\ \A m, n \in b : m = n
    /\ \A n \in b : n \notin {Own, Listening, Waiting} =>
          /\ n \in DOMAIN h /\ h[n].kind \in {"pageContext", "form", "modifier"}
          /\ h[n].kind \in {"form", "modifier"} => HasForm(h, ws, n)

DInv ==
    /\ ~dangling /\ thrown \in BOOLEAN
    /\ IsHeap(heap) /\ IsWrapped(heap, wrappers)
    /\ IsSession(heap, wrappers, session, registered)
    /\ IsEvent(heap, wrappers, event)
    /\ ~thrown => IsBusy(heap, wrappers, event, busy)

-----------------------------------------------------------------------------
(***************************************************************************)
(* New addresses.                                                          *)
(***************************************************************************)

LEMMA LeastAddress ==
    ASSUME NEW S, S \subseteq Nat, S # {}
    PROVE  \E x \in S : \A y \in S : ~(y < x)
<1>1. DEFINE R == {ss \in Nat \X Nat : ss[1] < ss[2]}
<1>2. IsWellFoundedOn(R, Nat)
  BY NatLessThanWellFounded DEF OpToRel
<1>. HIDE DEF R
<1>3. PICK x \in S : \A y \in S : <<y, x>> \notin R
  BY <1>2, WFMin
<1>. QED  BY <1>3 DEF R

Below(S, n) == {m \in S : m < n}

\* Of three addresses of a set the i-th has i - 1 below it.
LEMMA Addresses ==
    ASSUME NEW S, S \subseteq Nat, IsFiniteSet(S), NEW k \in 1 .. 3, Cardinality(S) >= k
    PROVE  \A i \in 1 .. k : \E n \in S : Cardinality(Below(S, n)) = i - 1
<1>1. S # {}
  BY FS_EmptySet
<1>2. PICK a \in S : \A y \in S : ~(y < a)
  BY <1>1, LeastAddress
<1>3. Below(S, a) = {} /\ Cardinality({}) = 0
  BY <1>2, FS_EmptySet DEF Below
<1>4. ASSUME k >= 2
      PROVE  \E n \in S : Cardinality(Below(S, n)) = 1
  <2>1. Cardinality({a}) = 1
    BY FS_Singleton
  <2>2. S \ {a} # {}
    BY <1>4, <2>1
  <2>3. PICK b \in S \ {a} : \A y \in S \ {a} : ~(y < b)
    BY <2>2, LeastAddress
  <2>4. Below(S, b) = {a}
    <3>1. b \in Nat /\ a \in Nat /\ a < b
      BY <1>2
    <3>2. \A m \in S : m < b <=> m = a
      BY <1>2, <2>3, <3>1
    <3>. QED  BY <3>2 DEF Below
  <2>. QED  BY <2>1, <2>4
<1>5. ASSUME k = 3
      PROVE  \E n \in S : Cardinality(Below(S, n)) = 2
  <2>1. Cardinality({a}) = 1
    BY FS_Singleton
  <2>2. S \ {a} # {}
    BY <1>5, <2>1
  <2>3. PICK b \in S \ {a} : \A y \in S \ {a} : ~(y < b)
    BY <2>2, LeastAddress
  <2>4. Cardinality({a, b}) = 2
    <3>1. IsFiniteSet({a}) /\ {a} \cup {b} = {a, b} /\ b \notin {a}
      BY FS_Singleton
    <3>2. Cardinality({a} \cup {b}) = Cardinality({a}) + 1
      BY <3>1, FS_AddElement
    <3>. QED  BY <2>1, <3>1, <3>2
  <2>5. S \ {a, b} # {}
    BY <1>5, <2>4
  <2>6. PICK c \in S \ {a, b} : \A y \in S \ {a, b} : ~(y < c)
    BY <2>5, LeastAddress
  <2>7. Below(S, c) = {a, b}
    <3>1. c \in Nat /\ b \in Nat /\ a \in Nat /\ a < c /\ b < c
      BY <1>2, <2>3
    <3>2. \A m \in S : m < c <=> m \in {a, b}
      BY <1>2, <2>3, <2>6, <3>1
    <3>. QED  BY <3>2 DEF Below
  <2>. QED  BY <2>4, <2>7
<1>. QED  BY <1>2, <1>3, <1>4, <1>5

LEMMA UnusedIsFinite == IsFiniteSet(Unused) /\ Unused \subseteq Nat
<1>1. Unused \subseteq 1 .. MaxNatives
  BY DEF Unused
<1>2. IsFiniteSet(1 .. MaxNatives) /\ 1 .. MaxNatives \subseteq Nat
  BY NativesAssumption, FS_Interval
<1>3. Unused \in SUBSET (1 .. MaxNatives)
  BY <1>1
<1>4. IsFiniteSet(Unused)
  BY <1>2, <1>3, FS_Subset
<1>. QED  BY <1>1, <1>2, <1>4

LEMMA NewAddresses ==
    ASSUME NEW k \in 1 .. 3, Room(k)
    PROVE  /\ \A i \in 1 .. k : New(i) \in Unused
           /\ \A i, j \in 1 .. k : New(i) = New(j) => i = j
<1>3. \A i \in 1 .. k : \E n \in Unused : Cardinality(Below(Unused, n)) = i - 1
  BY UnusedIsFinite, Addresses DEF Room
<1>4. ASSUME NEW i \in 1 .. k
      PROVE  New(i) \in Unused /\ Cardinality(Below(Unused, New(i))) = i - 1
  <2>. DEFINE P(n) == Cardinality(Below(Unused, n)) = i - 1
  <2>1. New(i) = CHOOSE n \in Unused : P(n)
    BY DEF New, Below
  <2>2. \E n \in Unused : P(n)
    BY <1>3
  <2>. QED  BY <2>1, <2>2
<1>. QED  BY <1>4

NewOnes(k) == {New(i) : i \in 1 .. k}
IsMade(h, g, rs, k) ==
    /\ g = [n \in DOMAIN g |-> g[n]]
    /\ DOMAIN g = DOMAIN h \cup NewOnes(k)
    /\ \A n \in DOMAIN h : g[n] = h[n]
    /\ \A i \in 1 .. k : g[New(i)] = rs[i]

\* Created keeps what there is and gives the new addresses their records.
LEMMA CreatedIs ==
    ASSUME NEW k \in 1 .. 3, Room(k), NEW h, DOMAIN h \subseteq Live,
           NEW rs, DOMAIN rs = 1 .. k
    PROVE  IsMade(h, Created(h, rs), rs, k)
<1>1. \A i \in 1 .. k : New(i) \notin DOMAIN h
  BY NewAddresses DEF Unused
<1>2. ASSUME NEW i \in 1 .. k
      PROVE  Created(h, rs)[New(i)] = rs[i]
  <2>1. (CHOOSE j \in 1 .. k : New(j) = New(i)) = i
    BY NewAddresses
  <2>2. New(i) \in DOMAIN h \cup {New(j) : j \in 1 .. k} /\ New(i) \notin DOMAIN h
    BY <1>1
  <2>. QED  BY <2>1, <2>2 DEF Created
<1>. DEFINE D == DOMAIN h \cup {New(i) : i \in 1 .. k}
            F(n) == IF n \in DOMAIN h THEN h[n] ELSE rs[CHOOSE i \in 1 .. k : New(i) = n]
<1>3. Created(h, rs) = [n \in D |-> F(n)]
  BY DEF Created
<1>4. \A n \in DOMAIN h : F(n) = h[n]
  OBVIOUS
<1>. HIDE DEF D, F
<1>5. /\ Created(h, rs) = [n \in DOMAIN Created(h, rs) |-> Created(h, rs)[n]]
      /\ DOMAIN Created(h, rs) = D
      /\ \A n \in D : Created(h, rs)[n] = F(n)
  BY <1>3
<1>. QED  BY <1>2, <1>4, <1>5 DEF D, IsMade, NewOnes

\* Nothing points to these addresses.
IsFresh(h, ws, N) ==
    /\ N \subseteq 1 .. MaxNatives
    /\ \A n \in DOMAIN h : n \notin N /\ h[n].of \notin N /\ h[n].parts \cap N = {}
    /\ \A w \in ws : w.native \notin N /\ w.also \notin N

LEMMA NewAreFresh ==
    ASSUME NEW k \in 1 .. 3, Room(k)
    PROVE  IsFresh(heap, wrappers, {New(i) : i \in 1 .. k})
<1>1. \A i \in 1 .. k : New(i) \in Unused
  BY NewAddresses
<1>2. \A n \in Unused : /\ n \in 1 .. MaxNatives /\ n \notin Live
                        /\ \A m \in Live : n # heap[m].of /\ n \notin heap[m].parts
                        /\ \A w \in wrappers : n # w.native /\ n # w.also
  <2>. SUFFICES ASSUME NEW n \in Unused
                PROVE  /\ n \in 1 .. MaxNatives /\ n \notin Live
                       /\ \A m \in Live : n # heap[m].of /\ n \notin heap[m].parts
                       /\ \A w \in wrappers : n # w.native /\ n # w.also
    OBVIOUS
  <2>1. /\ n \in 1 .. MaxNatives /\ n \notin Live
        /\ n \notin UNION {{heap[m].of} \cup heap[m].parts : m \in Live}
        /\ n \notin UNION {{w.native, w.also} : w \in wrappers}
    BY DEF Unused
  <2>2. ASSUME NEW m \in Live
        PROVE  n \notin {heap[m].of} \cup heap[m].parts
    BY <2>1
  <2>3. ASSUME NEW w \in wrappers
        PROVE  n \notin {w.native, w.also}
    BY <2>1
  <2>. QED  BY <2>1, <2>2, <2>3
<1>. QED  BY <1>1, <1>2 DEF IsFresh, Live

-----------------------------------------------------------------------------
(***************************************************************************)
(* More objects.                                                           *)
(***************************************************************************)
Grows(h, g, N) ==
    /\ DOMAIN g = DOMAIN h \cup N
    /\ g \in [DOMAIN g -> Record]
    /\ \A n \in DOMAIN h : g[n] = h[n]

LEMMA GrowsHeap ==
    ASSUME NEW h, NEW g, NEW ws, NEW N, IsHeap(h), IsFresh(h, ws, N), Grows(h, g, N),
           \A n \in N : /\ PartsFit(g, n) /\ OfFits(g, n)
                        /\ g[n].kind = "pageContext" => g[n].parts = {}
    PROVE  IsHeap(g)
<1>1. DOMAIN g \subseteq 1 .. MaxNatives
  BY DEF IsHeap, IsFresh, Grows
<1>2. ASSUME NEW n \in DOMAIN h
      PROVE  PartsFit(g, n) /\ OfFits(g, n)
  <2>1. PartsFit(h, n) /\ OfFits(h, n) /\ g[n] = h[n]
    BY DEF IsHeap, Grows
  <2>2. \A p \in h[n].parts : p \in DOMAIN g => p \in DOMAIN h /\ g[p] = h[p]
    BY DEF IsFresh, Grows
  <2>3. h[n].of \in DOMAIN g => h[n].of \in DOMAIN h /\ g[h[n].of] = h[h[n].of]
    BY DEF IsFresh, Grows
  <2>4. PartsFit(g, n)
    BY <2>1, <2>2 DEF PartsFit
  <2>5. OfFits(g, n)
    BY <2>1, <2>3 DEF OfFits
  <2>. QED  BY <2>4, <2>5
<1>3. ASSUME NEW n \in DOMAIN h, h[n].kind = "pageContext"
      PROVE  ContextFits(g, n)
  <2>1. ContextFits(h, n) /\ PartsFit(h, n) /\ g[n] = h[n]
    BY DEF IsHeap, Grows
  <2>2. h[n].parts \subseteq DOMAIN g /\ h[n].parts \subseteq DOMAIN h
    BY <1>3, <2>1 DEF ContextFits, Grows
  <2>3. ASSUME NEW m \in DOMAIN g, m # n, NEW p, p \in g[m].parts, p \in h[n].parts
        PROVE  FALSE
    <3>1. CASE m \in DOMAIN h
      BY <1>3, <2>1, <2>3, <3>1 DEF ContextFits, Grows
    <3>2. CASE m \in N
      <4>1. g[p] = h[p] /\ p \in DOMAIN g /\ p \in DOMAIN h
        BY <2>2, <2>3 DEF Grows
      <4>2. h[p].kind = "stream" /\ h[p].of = None
        BY <1>3, <2>1, <2>3, <4>1 DEF PartsFit, HasPart, Deletable, Lent
      <4>3. HasPart(g[m].kind, g[p].kind) /\ (Deletable(g[m].kind, g[p].kind) => g[p].of = m)
        BY <2>3, <3>2, <4>1 DEF PartsFit
      <4>4. m # None
        BY <3>2 DEF IsFresh, None
      <4>5. g[m].kind = "pageContext"
        BY <4>1, <4>2, <4>3, <4>4 DEF HasPart, Deletable, Lent
      <4>. QED  BY <2>3, <3>2, <4>5
    <3>. QED  BY <2>3, <3>1, <3>2 DEF Grows
  <2>. QED  BY <2>1, <2>2, <2>3 DEF ContextFits
<1>4. \A n \in DOMAIN h : ContextFits(g, n)
  <2>1. \A n \in DOMAIN h : h[n].kind # "pageContext" => ContextFits(g, n)
    BY DEF ContextFits, Grows
  <2>. QED  BY <1>3, <2>1
<1>5. \A n \in N : ContextFits(g, n)
  BY DEF ContextFits
<1>. QED  BY <1>1, <1>2, <1>4, <1>5 DEF IsHeap, Grows

LEMMA GrowsReach ==
    ASSUME NEW h, NEW g, NEW ws, NEW N, IsFresh(h, ws, N), Grows(h, g, N), NEW n \in DOMAIN h
    PROVE  ReachIn(g, n) = ReachIn(h, n) /\ OwnedIn(g, n) = OwnedIn(h, n)
<1>1. n \in DOMAIN g /\ g[n] = h[n] /\ h[n].parts \cap DOMAIN g = h[n].parts \cap DOMAIN h
  BY DEF IsFresh, Grows
<1>2. \A p \in h[n].parts \cap DOMAIN h : g[p] = h[p]
  BY DEF Grows
<1>. DEFINE A == h[n].parts \cap DOMAIN h
<1>3. UNION {g[p].parts : p \in A} = UNION {h[p].parts : p \in A}
  BY <1>2
<1>4. {p \in A : g[p].of = n} = {p \in A : h[p].of = n}
  BY <1>2
<1>. QED  BY <1>1, <1>3, <1>4 DEF ReachIn, OwnedIn

LEMMA GrowsDeletes ==
    ASSUME NEW h, NEW g, NEW ws, NEW N, IsFresh(h, ws, N), Grows(h, g, N), NEW w,
           w.owns => w.native \in DOMAIN h
    PROVE  DeletesIn(g, w) = DeletesIn(h, w)
BY GrowsReach DEF DeletesIn

LEMMA GrowsWrapped ==
    ASSUME NEW h, NEW g, NEW ws, NEW N, IsWrapped(h, ws), IsFresh(h, ws, N), Grows(h, g, N),
           \A n \in N : /\ g[n].kind # "parser"
                        /\ \A w \in ws : w.owns /\ w.class = "PDFStream" => w.native \notin g[n].parts
    PROVE  IsWrapped(g, ws) /\ \A n \in DOMAIN h : Safe(h, ws, n) => Safe(g, ws, n)
<1>1. \A w \in ws : w.native \in DOMAIN h
  BY DEF IsWrapped, OwnerFits, BorrowerFits
<1>2. \A w \in ws : DeletesIn(g, w) = DeletesIn(h, w)
  BY <1>1, GrowsDeletes
<1>3. \A n \in DOMAIN h : n \in DOMAIN g /\ g[n] = h[n] /\ ReachIn(g, n) = ReachIn(h, n)
  BY GrowsReach DEF Grows
<1>4. ASSUME NEW w \in ws, w.owns
      PROVE  OwnerFits(g, w)
  <2>1. OwnerFits(h, w) /\ w.native \in DOMAIN h /\ g[w.native] = h[w.native]
    BY <1>1, <1>3, <1>4 DEF IsWrapped
  <2>2. w.class = "PDFStream" => \A n \in DOMAIN g : w.native \notin g[n].parts
    BY <1>3, <1>4, <2>1 DEF OwnerFits, Grows
  <2>3. w.also \in DOMAIN h => w.also \in DOMAIN g /\ g[w.also] = h[w.also]
    BY <1>3
  <2>. QED  BY <2>1, <2>2, <2>3 DEF OwnerFits, Grows
<1>5. \A w \in ws : ~w.owns => BorrowerFits(g, ws, w)
  BY <1>1, <1>3 DEF IsWrapped, BorrowerFits
<1>6. ParsersOwned(g, ws)
  BY <1>2, <1>3 DEF IsWrapped, ParsersOwned, Grows
<1>7. \A n \in DOMAIN h : Safe(h, ws, n) => Safe(g, ws, n)
  BY <1>2, <1>3 DEF Safe, Grows
<1>. QED  BY <1>1, <1>4, <1>5, <1>6, <1>7 DEF IsWrapped

-----------------------------------------------------------------------------
(***************************************************************************)
(* More and fewer wrappers.                                                *)
(***************************************************************************)

\* A new object is given to the program in a wrapper that owns it.
LEMMA AddsOwner ==
    ASSUME NEW h, NEW ws, NEW x \in Wrapper, IsWrapped(h, ws), x.owns, x.held,
           OwnerFits(h, x), Safe(h, ws, x.native),
           \A w \in ws : w.native # x.native /\ (x.also # None => w.also # x.also)
    PROVE  IsWrapped(h, ws \cup {x}) /\ \A n : Safe(h, ws, n) => Safe(h, ws \cup {x}, n)
<1>1. \A w \in ws \cup {x} : w.owns => OwnerFits(h, w)
  BY DEF IsWrapped
<1>2. \A w \in ws \cup {x} : ~w.owns => BorrowerFits(h, ws \cup {x}, w)
  BY DEF IsWrapped, BorrowerFits
<1>3. OwnersDiffer(ws \cup {x})
  BY DEF IsWrapped, OwnersDiffer
<1>4. OneDictionary(ws \cup {x})
  BY DEF IsWrapped, OneDictionary
<1>5. ParsersOwned(h, ws \cup {x})
  BY DEF IsWrapped, ParsersOwned
<1>6. \A n : Safe(h, ws, n) => Safe(h, ws \cup {x}, n)
  BY DEF Safe
<1>7. \A w \in ws \cup {x} : w.held => Safe(h, ws \cup {x}, w.native)
  BY <1>6 DEF IsWrapped
<1>8. ws \cup {x} \subseteq Wrapper
  BY DEF IsWrapped
<1>. QED  BY <1>1, <1>2, <1>3, <1>4, <1>5, <1>6, <1>7, <1>8 DEF IsWrapped

\* A wrapper that the program is not given.
LEMMA AddsWaiting ==
    ASSUME NEW h, NEW ws, NEW x \in Wrapper, IsWrapped(h, ws), x.owns, ~x.held,
           OwnerFits(h, x),
           \A w \in ws : w.native # x.native /\ (x.also # None => w.also # x.also),
           \A w \in ws : w.held => ReachIn(h, w.native) \cap DeletesIn(h, x) = {}
    PROVE  IsWrapped(h, ws \cup {x})
<1>1. \A w \in ws \cup {x} : w.owns => OwnerFits(h, w)
  BY DEF IsWrapped
<1>2. \A w \in ws \cup {x} : ~w.owns => BorrowerFits(h, ws \cup {x}, w)
  BY DEF IsWrapped, BorrowerFits
<1>3. OwnersDiffer(ws \cup {x})
  BY DEF IsWrapped, OwnersDiffer
<1>4. OneDictionary(ws \cup {x})
  BY DEF IsWrapped, OneDictionary, OwnerFits, OwnerOf
<1>5. ParsersOwned(h, ws \cup {x})
  BY DEF IsWrapped, ParsersOwned
<1>6. \A w \in ws \cup {x} : w.held => Safe(h, ws \cup {x}, w.native)
  BY DEF IsWrapped, Safe
<1>7. ws \cup {x} \subseteq Wrapper
  BY DEF IsWrapped
<1>. QED  BY <1>1, <1>2, <1>3, <1>4, <1>5, <1>6, <1>7 DEF IsWrapped

\* What is safe is lent to the program.
LEMMA AddsBorrowers ==
    ASSUME NEW h, NEW ws, NEW X \in SUBSET Wrapper, IsWrapped(h, ws),
           \A x \in X : /\ ~x.owns /\ BorrowerFits(h, ws, x) /\ Safe(h, ws, x.native)
                        /\ x.class = "DictionaryContext" =>
                              /\ \A w \in X : w = x
                              /\ \A w \in ws : w.native # x.native
    PROVE  IsWrapped(h, ws \cup X) /\ \A n : Safe(h, ws, n) => Safe(h, ws \cup X, n)
<1>1. \A w \in ws \cup X : w.owns => OwnerFits(h, w)
  BY DEF IsWrapped
<1>2. \A w \in ws \cup X : ~w.owns => BorrowerFits(h, ws \cup X, w)
  BY DEF IsWrapped, BorrowerFits
<1>3. OwnersDiffer(ws \cup X)
  BY DEF IsWrapped, OwnersDiffer
<1>4. OneDictionary(ws \cup X)
  BY DEF IsWrapped, OneDictionary
<1>5. ParsersOwned(h, ws \cup X)
  BY DEF IsWrapped, ParsersOwned
<1>6. \A n : Safe(h, ws, n) => Safe(h, ws \cup X, n)
  BY DEF Safe, BorrowerFits
<1>7. \A w \in ws \cup X : w.held => Safe(h, ws \cup X, w.native)
  BY <1>6 DEF IsWrapped
<1>8. ws \cup X \subseteq Wrapper
  BY DEF IsWrapped
<1>. QED  BY <1>1, <1>2, <1>3, <1>4, <1>5, <1>6, <1>7, <1>8 DEF IsWrapped

\* The program lets go of wrappers that own nothing.
LEMMA Forgets ==
    ASSUME NEW h, NEW ws, NEW S, IsWrapped(h, ws), \A x \in S : x \in ws => ~x.owns
    PROVE  IsWrapped(h, ws \ S) /\ \A n : Safe(h, ws, n) => Safe(h, ws \ S, n)
<1>1. \A w \in ws \ S : w.owns => OwnerFits(h, w)
  BY DEF IsWrapped
<1>2. \A w \in ws \ S : ~w.owns => BorrowerFits(h, ws \ S, w)
  BY DEF IsWrapped, BorrowerFits
<1>3. OwnersDiffer(ws \ S)
  BY DEF IsWrapped, OwnersDiffer
<1>4. OneDictionary(ws \ S)
  BY DEF IsWrapped, OneDictionary
<1>5. ParsersOwned(h, ws \ S)
  BY DEF IsWrapped, ParsersOwned
<1>6. \A n : Safe(h, ws, n) => Safe(h, ws \ S, n)
  BY DEF Safe
<1>7. \A w \in ws \ S : w.held => Safe(h, ws \ S, w.native)
  BY <1>6 DEF IsWrapped
<1>8. ws \ S \subseteq Wrapper
  BY DEF IsWrapped
<1>. QED  BY <1>1, <1>2, <1>3, <1>4, <1>5, <1>6, <1>7, <1>8 DEF IsWrapped

-----------------------------------------------------------------------------
(***************************************************************************)
(* Fewer objects.                                                          *)
(***************************************************************************)
Shrinks(h, g) ==
    /\ DOMAIN g \subseteq DOMAIN h
    /\ g \in [DOMAIN g -> Record]
    /\ \A n \in DOMAIN g :
          /\ g[n].kind = h[n].kind /\ g[n].parts \subseteq h[n].parts
          /\ \/ g[n].of = h[n].of
             \/ g[n].of = None /\ g[n].kind = "copying"
             \/ g[n].of = None /\ g[n].kind = "page" /\ h[n].of \notin DOMAIN g
          /\ g[n].kind = "pageContext" => g[n].parts \subseteq DOMAIN g

LEMMA ShrinksHeap ==
    ASSUME NEW h, NEW g, IsHeap(h), Shrinks(h, g)
    PROVE  IsHeap(g)
<1>1. None \notin DOMAIN h
  BY DEF IsHeap, None
<1>2. ASSUME NEW n \in DOMAIN g
      PROVE  PartsFit(g, n)
  <2>1. PartsFit(h, n) /\ n \in DOMAIN h
    BY DEF IsHeap, Shrinks
  <2>2. g[n].kind = h[n].kind /\ g[n].parts \subseteq h[n].parts
    BY DEF Shrinks
  <2>3. ASSUME NEW p \in g[n].parts, p \in DOMAIN g
        PROVE  /\ HasPart(g[n].kind, g[p].kind)
               /\ Deletable(g[n].kind, g[p].kind) => g[p].of = n
               /\ Lent(g[n].kind, g[p].kind) => g[p].of = None
    <3>1. /\ HasPart(h[n].kind, h[p].kind)
          /\ Deletable(h[n].kind, h[p].kind) => h[p].of = n
          /\ Lent(h[n].kind, h[p].kind) => h[p].of = None
      BY <2>1, <2>2, <2>3 DEF PartsFit, Shrinks
    <3>2. g[p].kind = h[p].kind /\ (g[p].of = h[p].of \/ g[p].of = None)
      BY <2>3 DEF Shrinks
    <3>3. Deletable(g[n].kind, g[p].kind) => g[p].kind \notin {"copying", "page"}
      BY DEF Deletable
    <3>4. Deletable(g[n].kind, g[p].kind) => g[p].of = h[p].of
      BY <2>3, <3>3 DEF Shrinks
    <3>. QED  BY <2>2, <3>1, <3>2, <3>4
  <2>. QED  BY <2>1, <2>2, <2>3 DEF PartsFit
<1>3. ASSUME NEW n \in DOMAIN g
      PROVE  OfFits(g, n)
  <2>1. OfFits(h, n) /\ n \in DOMAIN h /\ g[n].kind = h[n].kind
    BY DEF IsHeap, Shrinks
  <2>2. CASE g[n].of = None
    BY <1>1, <2>1, <2>2 DEF OfFits, Shrinks
  <2>3. CASE g[n].of = h[n].of /\ h[n].of # None
    <3>1. CASE h[n].of \in DOMAIN g
      <4>1. h[n].of \in DOMAIN h /\ g[h[n].of].kind = h[h[n].of].kind
        BY <3>1 DEF Shrinks
      <4>2. PointsBack(g[n].kind, g[g[n].of].kind)
        BY <2>1, <2>3, <4>1 DEF OfFits
      <4>3. ASSUME g[n].kind \in {"page", "pageContext"}
            PROVE  g[g[n].of].of = n
        <5>1. h[h[n].of].of = n
          BY <2>1, <2>3, <4>1, <4>3 DEF OfFits
        <5>2. g[h[n].of].kind \in {"page", "pageContext"}
          BY <2>3, <4>2, <4>3 DEF PointsBack
        <5>3. g[h[n].of].of = h[h[n].of].of
          BY <3>1, <5>1, <5>2 DEF Shrinks
        <5>. QED  BY <2>3, <5>1, <5>3
      <4>. QED  BY <2>1, <2>3, <4>2, <4>3 DEF OfFits
    <3>2. CASE h[n].of \notin DOMAIN g
      BY <2>1, <2>3, <3>2 DEF OfFits
    <3>. QED  BY <3>1, <3>2
  <2>. QED  BY <2>2, <2>3 DEF Shrinks
<1>4. ASSUME NEW n \in DOMAIN g
      PROVE  ContextFits(g, n)
  <2>1. ContextFits(h, n)
    BY DEF IsHeap, Shrinks
  <2>. QED  BY <2>1 DEF ContextFits, Shrinks
<1>. QED  BY <1>2, <1>3, <1>4 DEF IsHeap, Shrinks

LEMMA ShrinksReachOf ==
    ASSUME NEW h, NEW g, None \notin DOMAIN h, Shrinks(h, g), NEW n \in DOMAIN g
    PROVE  ReachIn(g, n) \subseteq ReachIn(h, n) /\ OwnedIn(g, n) \subseteq OwnedIn(h, n)
<1>1. n \in DOMAIN h /\ g[n].parts \subseteq h[n].parts /\ g[n].of \in {h[n].of, None}
  BY DEF Shrinks
<1>2. \A p \in g[n].parts \cap DOMAIN g : /\ p \in h[n].parts \cap DOMAIN h
                                        /\ g[p].parts \subseteq h[p].parts
                                        /\ g[p].of \in {h[p].of, None}
  BY <1>1 DEF Shrinks
<1>3. UNION {g[p].parts : p \in g[n].parts \cap DOMAIN g}
        \subseteq UNION {h[p].parts : p \in h[n].parts \cap DOMAIN h}
  BY <1>2
<1>4. OwnedIn(g, n) \subseteq OwnedIn(h, n)
  <2>1. n # None
    BY <1>1
  <2>2. ASSUME NEW p \in g[n].parts \cap DOMAIN g, g[p].of = n
        PROVE  h[p].of = n
    BY <1>2, <2>1, <2>2
  <2>. QED  BY <1>1, <1>2, <2>2 DEF OwnedIn
<1>. QED  BY <1>1, <1>3, <1>4 DEF ReachIn

LEMMA ShrinksReach ==
    ASSUME NEW h, NEW g, IsHeap(h), Shrinks(h, g), NEW n \in DOMAIN g
    PROVE  ReachIn(g, n) \subseteq ReachIn(h, n) /\ OwnedIn(g, n) \subseteq OwnedIn(h, n)
<1>1. None \notin DOMAIN h
  BY DEF IsHeap, None
<1>. QED  BY <1>1, ShrinksReachOf

LEMMA ShrinksWrappers ==
    ASSUME NEW h, NEW g, NEW ws, NEW vs, None \notin DOMAIN h, IsWrapped(h, ws), Shrinks(h, g),
           vs \subseteq ws, ParsersOwned(g, vs),
           \A w \in ws : w.owns /\ w.native \in DOMAIN g => w \in vs,
           \A w \in vs :
              /\ w.native \in DOMAIN g
              /\ w.owns /\ w.class \in WithProxy /\ w.also # None => w.also \in DOMAIN g
              /\ w.owns /\ w.class = "PDFPage" => w.also = g[w.native].of
              /\ w.held => ReachIn(g, w.native) \subseteq DOMAIN g
    PROVE  IsWrapped(g, vs)
<1>1. \A n \in DOMAIN g : n \in DOMAIN h /\ g[n].kind = h[n].kind
  BY DEF Shrinks
<1>2. ASSUME NEW w \in vs, w.owns
      PROVE  OwnerFits(g, w)
  <2>1. OwnerFits(h, w) /\ w.native \in DOMAIN g
    BY <1>2 DEF IsWrapped
  <2>2. w.class \in {"PDFStream", "PDFReader"} => g[w.native].of = None
    BY <2>1 DEF OwnerFits, Shrinks
  <2>3. w.class = "PDFStream" => \A n \in DOMAIN g : w.native \notin g[n].parts
    BY <2>1 DEF OwnerFits, Shrinks
  <2>4. w.class \in WithProxy /\ w.also # None =>
          w.also \in DOMAIN g /\ g[w.also].kind = "proxy" /\ g[w.also].of = None
    BY <1>2, <2>1 DEF OwnerFits, Shrinks
  <2>. QED  BY <1>1, <1>2, <2>1, <2>2, <2>3, <2>4 DEF OwnerFits
<1>3. ASSUME NEW w \in vs, ~w.owns
      PROVE  BorrowerFits(g, vs, w)
  <2>1. BorrowerFits(h, ws, w) /\ w.native \in DOMAIN g
    BY <1>3 DEF IsWrapped
  <2>2. ASSUME w.class = "XObjectContentContext"
        PROVE  \E v \in vs : v.owns /\ v.native = g[w.native].of
    <3>1. PICK v \in ws : v.owns /\ v.native = h[w.native].of
      BY <2>1, <2>2 DEF BorrowerFits
    <3>2. g[w.native].kind = "formContext" /\ v.native \in DOMAIN h
      BY <1>1, <2>1, <2>2, <3>1 DEF BorrowerFits, BorrowerOf, IsWrapped, OwnerFits
    <3>3. g[w.native].of = v.native /\ v.native # None
      BY <2>1, <3>1, <3>2 DEF Shrinks
    <3>4. v.native \in DOMAIN g
      BY <2>1, <3>3 DEF ReachIn, BorrowerFits
    <3>. QED  BY <3>1, <3>3, <3>4
  <2>. QED  BY <1>1, <2>1, <2>2 DEF BorrowerFits
<1>4. OwnersDiffer(vs) /\ OneDictionary(vs) /\ vs \subseteq Wrapper
  BY DEF IsWrapped, OwnersDiffer, OneDictionary
<1>5. ASSUME NEW w \in vs
      PROVE  DeletesIn(g, w) \subseteq DeletesIn(h, w)
  BY ShrinksReachOf DEF DeletesIn
<1>6. ASSUME NEW w \in vs, w.held
      PROVE  Safe(g, vs, w.native)
  <2>1. ReachIn(g, w.native) \subseteq ReachIn(h, w.native) /\ Safe(h, ws, w.native)
    BY <1>6, ShrinksReachOf DEF IsWrapped
  <2>. QED  BY <1>5, <1>6, <2>1 DEF Safe
<1>. QED  BY <1>2, <1>3, <1>4, <1>6 DEF IsWrapped

LEMMA ShrinksWrapped ==
    ASSUME NEW h, NEW g, NEW ws, NEW vs, IsHeap(h), IsWrapped(h, ws), Shrinks(h, g),
           vs \subseteq ws, ParsersOwned(g, vs),
           \A w \in ws : w.owns /\ w.native \in DOMAIN g => w \in vs,
           \A w \in vs :
              /\ w.native \in DOMAIN g
              /\ w.owns /\ w.class \in WithProxy /\ w.also # None => w.also \in DOMAIN g
              /\ w.owns /\ w.class = "PDFPage" => w.also = g[w.native].of
              /\ w.held => ReachIn(g, w.native) \subseteq DOMAIN g
    PROVE  IsWrapped(g, vs)
<1>1. None \notin DOMAIN h
  BY DEF IsHeap, None
<1>. QED  BY <1>1, ShrinksWrappers

\* The parsers stay if nothing that they belong to goes.
LEMMA ParsersStay ==
    ASSUME NEW h, NEW g, NEW ws, NEW vs, IsHeap(h), IsWrapped(h, ws), Shrinks(h, g),
           \A w \in ws : w.owns /\ w.native \in DOMAIN g => w \in vs,
           \A n \in DOMAIN h : h[n].kind = "copying" => n \in DOMAIN g /\ g[n].parts = h[n].parts
    PROVE  ParsersOwned(g, vs)
<1>. SUFFICES ASSUME NEW p \in DOMAIN g, g[p].kind = "parser"
              PROVE  \E w \in vs : w.owns /\ p \in DeletesIn(g, w)
  BY DEF ParsersOwned
<1>1. h[p].kind = "parser" /\ p \in DOMAIN h /\ g[p].of = h[p].of /\ p # None
  BY DEF Shrinks, IsHeap, None
<1>2. PICK w \in ws : w.owns /\ p \in DeletesIn(h, w)
  BY <1>1 DEF IsWrapped, ParsersOwned
<1>3. OwnerFits(h, w) /\ w.native \in DOMAIN h
  BY <1>2 DEF IsWrapped, OwnerFits
<1>4. CASE p = w.native
  <2>1. p \in DeletesIn(g, w)
    BY <1>1, <1>2, <1>4 DEF DeletesIn, OwnedIn
  <2>. QED  BY <1>2, <1>4, <2>1
<1>5. CASE p # w.native
  <2>1. p # w.also \/ w.class \notin WithProxy
    BY <1>1, <1>2, <1>3 DEF OwnerFits
  <2>2. p \in h[w.native].parts /\ h[p].of = w.native
    BY <1>2, <1>3, <1>5, <2>1 DEF DeletesIn, OwnedIn
  <2>3. HasPart(h[w.native].kind, "parser") /\ OfFits(h, p)
    BY <1>1, <1>3, <2>2 DEF IsHeap, PartsFit
  <2>4. h[w.native].kind = "copying"
    BY <1>1, <1>3, <2>2, <2>3 DEF OfFits, PointsBack
  <2>5. w.native \in DOMAIN g /\ p \in g[w.native].parts
    BY <1>3, <2>2, <2>4
  <2>6. p \in DeletesIn(g, w)
    BY <1>1, <1>2, <2>2, <2>5 DEF DeletesIn, OwnedIn
  <2>. QED  BY <1>2, <2>5, <2>6
<1>. QED  BY <1>4, <1>5

\* Freeing some objects.
LEMMA FreedIs ==
    ASSUME NEW h, NEW F
    PROVE  /\ Freed(h, F) = [n \in DOMAIN Freed(h, F) |-> Freed(h, F)[n]]
           /\ DOMAIN Freed(h, F) = DOMAIN h \ F
           /\ \A n \in DOMAIN h \ F : Freed(h, F)[n] = h[n]
BY DEF Freed, Restrict

LEMMA FreedShrinks ==
    ASSUME NEW h, NEW F, IsHeap(h),
           \A n \in DOMAIN h \ F : h[n].kind = "pageContext" => h[n].parts \cap F = {}
    PROVE  Shrinks(h, Freed(h, F))
<1>. DEFINE g == Freed(h, F)
<1>1. /\ g = [n \in DOMAIN g |-> g[n]] /\ DOMAIN g = DOMAIN h \ F
      /\ \A n \in DOMAIN h \ F : g[n] = h[n]
  BY DEF Freed, Restrict
<1>. HIDE DEF g
<1>2. \A n \in DOMAIN g : n \in DOMAIN h /\ h[n] \in Record /\ g[n] = h[n]
  BY <1>1 DEF IsHeap
<1>3. g \in [DOMAIN g -> Record]
  BY <1>1, <1>2
<1>4. \A n \in DOMAIN h : h[n].kind = "pageContext" => h[n].parts \subseteq DOMAIN h
  BY DEF IsHeap, ContextFits
<1>5. Shrinks(h, g)
  BY <1>1, <1>2, <1>3, <1>4 DEF Shrinks
<1>. QED  BY <1>5 DEF g

-----------------------------------------------------------------------------
(***************************************************************************)
(* The session, the event and what the program is busy with, when other    *)
(* things change.                                                          *)
(***************************************************************************)
SameWriters(ws, vs) == \A w : w.class = "PDFWriter" => (w \in ws <=> w \in vs)

LEMMA SessionStays ==
    ASSUME NEW h, NEW g, NEW ws, NEW vs, NEW s, NEW reg, IsSession(h, ws, s, reg),
           SameWriters(ws, vs),
           \A n \in DOMAIN h : h[n].kind \in {"writer", "copying"} =>
                                 n \in DOMAIN g /\ g[n].kind = h[n].kind /\ g[n].of = h[n].of,
           s.writer \in DOMAIN h => h[s.writer].parts \subseteq g[s.writer].parts,
           \A n \in DOMAIN g : g[n].kind \in {"writer", "font", "copying"} =>
                                 n \in DOMAIN h /\ g[n].kind = h[n].kind /\ g[n].of = h[n].of,
           s.writer \in DOMAIN h => s.writer \in DOMAIN g
    PROVE  IsSession(g, vs, s, reg)
<1>1. reg = {n \in DOMAIN g : g[n].kind = "copying" /\ g[n].of # None}
  BY DEF IsSession
<1>2. \A n \in reg : g[n].of = s.writer
  BY DEF IsSession
<1>3. s.writer # None => \E w \in vs : w.class = "PDFWriter" /\ w.native = s.writer
  BY DEF IsSession, SameWriters
<1>4. \A w \in vs : w.class = "PDFWriter" => w.owns /\ w.native = s.writer
  BY DEF IsSession, SameWriters
<1>5. \A n \in DOMAIN g : g[n].kind = "font" =>
          g[n].of = s.writer /\ s.writer \in DOMAIN g /\ n \in g[s.writer].parts
  BY DEF IsSession
<1>6. \A n \in DOMAIN g : g[n].kind = "writer" => n = s.writer
  BY DEF IsSession
<1>. QED  BY <1>1, <1>2, <1>3, <1>4, <1>5, <1>6 DEF IsSession

\* The natives that a call still has to do with.
Pending(e) == {e.left[i] : i \in DOMAIN e.left} \cup e.frees \cup {g.native : g \in e.gives}

LEMMA NothingPending ==
    ASSUME NEW h, NEW ws
    PROVE  IsEvent(h, ws, NoEvent)
<1>1. NoEvent \in [call : {"none", "write", "page", "modify", "end"}, left : Seq(Nat), frees : SUBSET Nat,
                   gives : SUBSET Wrapper]
  BY DEF NoEvent
<1>. QED  BY <1>1 DEF IsEvent, NoEvent

LEMMA EventStays ==
    ASSUME NEW h, NEW g, NEW ws, NEW vs, NEW e, IsEvent(h, ws, e),
           \A n \in Pending(e) : n \in DOMAIN h => n \in DOMAIN g /\ g[n] = h[n],
           \A w \in vs : w \in ws \/ w.native \notin Pending(e),
           \A m \in DOMAIN g : g[m].of \in Pending(e) => m \in DOMAIN h /\ g[m].of = h[m].of
    PROVE  IsEvent(g, vs, e)
<1>1. \A i \in DOMAIN e.left : e.left[i] \in DOMAIN g /\ g[e.left[i]].kind = "dictionary"
  BY DEF IsEvent, Pending
<1>2. \A w \in vs : \A i \in DOMAIN e.left : w.native = e.left[i] => w = Handed(w.native)
  BY DEF IsEvent, Pending
<1>3. \A n \in e.frees \cup {x.native : x \in e.gives} :
          /\ n \in DOMAIN g /\ g[n].kind \in {"page", "form"}
          /\ g[n].of = None /\ g[n].parts = {}
          /\ \A w \in vs : w.native # n
          /\ \A m \in DOMAIN g : g[m].of # n
  BY DEF IsEvent, Pending
<1>4. \A x \in e.gives : x = Wrap("FormXObject", x.native, TRUE, None) /\ g[x.native].kind = "form"
  <2>. SUFFICES ASSUME NEW x \in e.gives
                PROVE  x = Wrap("FormXObject", x.native, TRUE, None) /\ g[x.native].kind = "form"
    OBVIOUS
  <2>1. x = Wrap("FormXObject", x.native, TRUE, None) /\ h[x.native].kind = "form"
    BY DEF IsEvent
  <2>2. x.native \in e.frees \cup {y.native : y \in e.gives}
    OBVIOUS
  <2>3. x.native \in DOMAIN h /\ x.native \in Pending(e)
    BY <2>2 DEF IsEvent, Pending
  <2>. QED  BY <2>1, <2>3
<1>. QED  BY <1>1, <1>2, <1>3, <1>4 DEF IsEvent

LEMMA BusyStays ==
    ASSUME NEW h, NEW g, NEW ws, NEW vs, NEW e, NEW b, IsBusy(h, ws, e, b),
           \A w \in ws : w.class = "PDFWriter" => w \in vs,
           \A n \in b : n \in DOMAIN h =>
              /\ n \in DOMAIN g /\ g[n].kind = h[n].kind
              /\ \A p \in h[n].parts : p \in DOMAIN h /\ h[p].kind \in {"formContext", "stream"} =>
                    p \in g[n].parts /\ p \in DOMAIN g /\ g[p].kind = h[p].kind
              /\ \A w \in ws : w.owns /\ w.held /\ w.native = n => w \in vs
    PROVE  IsBusy(g, vs, e, b)
<1>1. ASSUME NEW n \in b, n \notin {Own, Listening, Waiting}
      PROVE  /\ n \in DOMAIN g /\ g[n].kind \in {"pageContext", "form", "modifier"}
             /\ g[n].kind \in {"form", "modifier"} => HasForm(g, vs, n)
  <2>1. /\ n \in DOMAIN h /\ h[n].kind \in {"pageContext", "form", "modifier"}
        /\ h[n].kind \in {"form", "modifier"} => HasForm(h, ws, n)
    BY <1>1 DEF IsBusy
  <2>2. g[n].kind = h[n].kind /\ n \in DOMAIN g
    BY <2>1
  <2>3. HasForm(h, ws, n) => HasForm(g, vs, n)
    BY <2>1 DEF HasForm
  <2>. QED  BY <2>1, <2>2, <2>3
<1>2. b # {} \/ e # NoEvent => WriterHeld(vs)
  BY DEF IsBusy, WriterHeld
<1>. QED  BY <1>1, <1>2 DEF IsBusy

LEMMA OwnersOfOne ==
    ASSUME NEW h, NEW ws, NEW vs, NEW S, IsWrapped(h, ws), vs = ws \ S, \A x \in S : x \in ws => ~x.owns,
           NEW s, NEW reg, IsSession(h, ws, s, reg)
    PROVE  SameWriters(ws, vs)
BY DEF SameWriters, IsSession

-----------------------------------------------------------------------------
(***************************************************************************)
(* What the program uses.                                                  *)
(***************************************************************************)
LEMMA Reaches == \A n : Reach(n) = ReachIn(heap, n) /\ Owned(n) = OwnedIn(heap, n)
BY DEF Reach, ReachIn, Owned, OwnedIn, Live

LEMMA Destroys == \A w : Deletes(w) = DeletesIn(heap, w)
BY Reaches DEF Deletes, DeletesIn, WithProxy

LEMMA Used ==
    ASSUME DInv, NEW c, NEW x \in Of(c)
    PROVE  /\ x \in wrappers /\ x.held /\ x.class = c /\ x \in Wrapper
           /\ Safe(heap, wrappers, x.native)
           /\ x.native \in Live /\ x.native # None /\ Reach(x.native) \subseteq Live
           /\ x.owns => OwnerFits(heap, x)
           /\ ~x.owns => BorrowerFits(heap, wrappers, x)
<1>1. x \in wrappers /\ x.held /\ x.class = c
  BY DEF Of
<1>2. Safe(heap, wrappers, x.native) /\ x \in Wrapper
  BY <1>1 DEF DInv, IsWrapped
<1>3. x.native \in Live /\ Reach(x.native) \subseteq Live
  BY <1>2, Reaches DEF Safe, Live
<1>4. x.native # None
  BY <1>3 DEF DInv, IsHeap, Live, None
<1>. QED  BY <1>1, <1>2, <1>3, <1>4 DEF DInv, IsWrapped

LEMMA HeldIsOf == WriterHeld(wrappers) <=> Of("PDFWriter") # {}
BY DEF WriterHeld, Of

LEMMA WriterIsSafe ==
    ASSUME DInv, WriterHeld(wrappers)
    PROVE  /\ Safe(heap, wrappers, session.writer) /\ Writer \subseteq Live
           /\ session.writer \in Live /\ session.writer # None
           /\ heap[session.writer].kind = "writer"
<1>1. PICK w \in wrappers : w.class = "PDFWriter" /\ w.held
  BY DEF WriterHeld
<1>2. w \in Of("PDFWriter") /\ w.owns /\ w.native = session.writer
  BY <1>1 DEF DInv, IsSession, Of
<1>3. OwnerFits(heap, w)
  BY <1>2, Used
<1>. QED  BY <1>2, <1>3, Used DEF Writer, OwnerFits, OwnerOf

\* The writer is there when it is called, and when it calls the program.
LEMMA WhenRunning ==
    ASSUME DInv, IsRunning \/ (~thrown /\ (event # NoEvent \/ busy # {}))
    PROVE  WriterHeld(wrappers)
BY HeldIsOf DEF DInv, IsRunning, IsBusy

LEMMA BusyWith ==
    ASSUME NEW h, NEW ws
    PROVE  /\ IsBusy(h, ws, NoEvent, {})
           /\ WriterHeld(ws) => /\ IsBusy(h, ws, NoEvent, {Own})
                                /\ \A e : IsBusy(h, ws, e, {Listening}) /\ IsBusy(h, ws, e, {Waiting})
BY DEF IsBusy

\* While the program writes an object of its own or nothing, no call waits.
LEMMA NotCalledBack ==
    ASSUME DInv, ~thrown, busy = {} \/ busy = {Own}
    PROVE  event = NoEvent
<1>1. -1 \notin {-2} /\ -1 \notin {-3}
  OBVIOUS
<1>2. {Own} # {Listening} /\ {Own} # {Waiting}
  BY <1>1, Own \in {Own} DEF Own, Listening, Waiting
<1>3. {} # {Listening} /\ {} # {Waiting}
  OBVIOUS
<1>. QED  BY <1>2, <1>3 DEF DInv, IsBusy

\* In most calls objects and wrappers stay as they are.
Stays(used) ==
    /\ UNCHANGED <<heap, wrappers, registered, event>>
    /\ session' \in [writer : {session.writer}, state : States, modifies : BOOLEAN]
    /\ Touches(used) /\ used \subseteq Live
    /\ thrown' \in BOOLEAN /\ ~thrown
    /\ busy' = busy \/ IsBusy(heap, wrappers, event, busy')

LEMMA StaysWhole ==
    ASSUME DInv, NEW used, Stays(used)
    PROVE  DInv'
<1>1. ~dangling'
  BY DEF Stays, Touches, DInv
<1>2. session'.writer = session.writer /\ session' \in [writer : Nat, state : States, modifies : BOOLEAN]
  BY DEF Stays, DInv, IsSession
<1>3. IsSession(heap, wrappers, session', registered)
  BY <1>2 DEF DInv, IsSession
<1>4. IsBusy(heap, wrappers, event, busy')
  BY DEF DInv, Stays
<1>. QED  BY <1>1, <1>3, <1>4 DEF DInv, Stays

LEMMA SessionIs ==
    ASSUME DInv
    PROVE  session \in [writer : {session.writer}, state : States, modifies : BOOLEAN]
BY DEF DInv, IsSession

LEMMA ObjectsWritten ==
    ASSUME DInv, ~thrown,
           \/ StartNewIndirectObject \/ EndIndirectObject \/ StartArray \/ EndArray \/ WriteToken
           \/ \E x \in Of("DictionaryContext") : WriteInDictionary(x)
           \/ \E x \in Of("PDFStream") : WriteInStream(x) \/ EndPDFStream(x),
           UNCHANGED event
    PROVE  DInv'
<1>1. WriterHeld(wrappers)
  BY WhenRunning DEF StartNewIndirectObject, EndIndirectObject, StartArray, EndArray, WriteToken,
     WriteInDictionary, WriteInStream, EndPDFStream, IsWriting
<1>2. Writer \subseteq Live
  BY <1>1, WriterIsSafe
<1>3. busy = {Own} \/ busy = {} => event = NoEvent
  BY NotCalledBack
<1>4. CASE StartNewIndirectObject
  <2>1. IsBusy(heap, wrappers, event, {Own})
    BY <1>1, <1>3, <1>4, BusyWith DEF StartNewIndirectObject
  <2>2. Stays(Writer)
    BY <1>2, <1>4, <2>1, SessionIs DEF StartNewIndirectObject, Stays, DInv
  <2>. QED  BY <2>2, StaysWhole
<1>5. CASE EndIndirectObject
  <2>1. IsBusy(heap, wrappers, event, {})
    BY <1>1, <1>3, <1>5, BusyWith DEF EndIndirectObject
  <2>2. Stays(Writer)
    BY <1>2, <1>5, <2>1, SessionIs DEF EndIndirectObject, Stays, DInv
  <2>. QED  BY <2>2, StaysWhole
<1>6. CASE StartArray \/ EndArray \/ WriteToken
  <2>1. Stays(Writer)
    BY <1>2, <1>6, SessionIs DEF StartArray, EndArray, WriteToken, Stays, DInv
  <2>. QED  BY <2>1, StaysWhole
<1>7. CASE \E x \in Of("DictionaryContext") : WriteInDictionary(x)
  <2>1. PICK x \in Of("DictionaryContext") : WriteInDictionary(x)
    BY <1>7
  <2>2. x.native \in Live
    BY Used
  <2>3. Stays({x.native} \cup Writer)
    BY <1>2, <2>1, <2>2, SessionIs DEF WriteInDictionary, Stays, DInv
  <2>. QED  BY <2>3, StaysWhole
<1>8. CASE \E x \in Of("PDFStream") : WriteInStream(x) \/ EndPDFStream(x)
  <2>1. PICK x \in Of("PDFStream") : WriteInStream(x) \/ EndPDFStream(x)
    BY <1>8
  <2>2. x.native \in Live
    BY Used
  <2>3. EndPDFStream(x) => IsBusy(heap, wrappers, event, {})
    BY <1>3, BusyWith DEF EndPDFStream
  <2>4. Stays({x.native} \cup Writer)
    BY <1>2, <2>1, <2>2, <2>3, SessionIs DEF WriteInStream, EndPDFStream, Stays, DInv
  <2>. QED  BY <2>4, StaysWhole
<1>. QED  BY <1>4, <1>5, <1>6, <1>7, <1>8

Uses ==
    \/ \E w \in Of("PDFPage") : UsePage(w)
    \/ \E w \in Of("FormXObject") : UseForm(w)
    \/ \E w \in Of("ImageXObject") : UseImage(w)
    \/ \E x \in Of("UsedFont") : UseFont(x)
    \/ \E x \in Of("ByteReaderWithPosition") \cup Of("ByteWriterWithPosition") : UseFileStream(x)
    \/ \E w \in Of("PDFReader") : ParseObjects(w) \/ QueryReader(w)
    \/ \E w \in Of("PDFPageInput") : UsePageInput(w)
    \/ \E w \in Of("ByteReader") : ReadDecoded(w)
    \/ \E x \in Of("DocumentCopyingContext") : UseCopiedObjects(x)

LEMMA UsesKeep ==
    ASSUME DInv, ~thrown, Uses
    PROVE  DInv'
<1>1. PICK x : (\E c : x \in Of(c)) /\ (Touches({x.native}) \/ Touches(Reach(x.native)))
  BY DEF Uses, UsePage, UseForm, UseImage, UseFont, UseFileStream, ParseObjects, QueryReader,
     UsePageInput, ReadDecoded, UseCopiedObjects
<1>2. UNCHANGED <<heap, wrappers, registered, session, thrown, busy, event>>
  BY DEF Uses, UsePage, UseForm, UseImage, UseFont, UseFileStream, ParseObjects, QueryReader,
     UsePageInput, ReadDecoded, UseCopiedObjects
<1>3. {x.native} \subseteq Live /\ Reach(x.native) \subseteq Live
  <2>1. PICK c : x \in Of(c)
    BY <1>1
  <2>. QED  BY <2>1, Used
<1>4. Stays({x.native}) \/ Stays(Reach(x.native))
  BY <1>1, <1>2, <1>3, SessionIs DEF Stays, DInv
<1>. QED  BY <1>4, StaysWhole

WritesMore ==
    \/ AttachURLLinktoCurrentPage \/ Shutdown
    \/ \E x \in Of("DocumentCopyingContext") :
          CopyObject(x) \/ CopyNewObjectsForDirectObject(x) \/ CopyDirectObject(x)
    \/ \E w \in Of("PDFPageModifier") : AttachURLLinkToModifiedPage(w)

LEMMA OutcomesAreBoolean == \A works \in Outcomes : works \in BOOLEAN
BY DEF Outcomes

LEMMA WritesMoreKeep ==
    ASSUME DInv, ~thrown, WritesMore
    PROVE  DInv'
<1>1. WriterHeld(wrappers) /\ Writer \subseteq Live
  BY WhenRunning, WriterIsSafe DEF WritesMore, AttachURLLinktoCurrentPage, Shutdown, CopyObject,
     CopyNewObjectsForDirectObject, CopyDirectObject, AttachURLLinkToModifiedPage, IsFree, IsWriting
<1>2. CASE AttachURLLinktoCurrentPage
  <2>1. Stays(Writer)
    BY <1>1, <1>2, SessionIs, OutcomesAreBoolean DEF AttachURLLinktoCurrentPage, Stays, Throws, DInv
  <2>. QED  BY <2>1, StaysWhole
<1>3. CASE Shutdown
  <2>1. PICK works \in Outcomes :
          /\ session' = [session EXCEPT !.state = IF works THEN "over" ELSE "failed"]
          /\ Throws(~works)
    BY <1>3 DEF Shutdown
  <2>2. session' \in [writer : {session.writer}, state : States, modifies : BOOLEAN]
    BY <2>1, SessionIs DEF States
  <2>3. Stays(Writer)
    BY <1>1, <1>3, <2>1, <2>2, OutcomesAreBoolean DEF Shutdown, Stays, Throws, DInv
  <2>. QED  BY <2>3, StaysWhole
<1>4. CASE \E x \in Of("DocumentCopyingContext") :
             CopyObject(x) \/ CopyNewObjectsForDirectObject(x) \/ CopyDirectObject(x)
  <2>1. PICK x \in Of("DocumentCopyingContext") : CopyObject(x) \/ CopyDirectObject(x)
    BY <1>4 DEF CopyNewObjectsForDirectObject
  <2>2. Reach(x.native) \cup Writer \subseteq Live
    BY <1>1, Used
  <2>3. Stays(Reach(x.native) \cup Writer)
    BY <2>1, <2>2, SessionIs, OutcomesAreBoolean
    DEF CopyObject, CopyDirectObject, Copying, Stays, Throws, DInv
  <2>. QED  BY <2>3, StaysWhole
<1>5. CASE \E w \in Of("PDFPageModifier") : AttachURLLinkToModifiedPage(w)
  <2>1. PICK w \in Of("PDFPageModifier") : AttachURLLinkToModifiedPage(w)
    BY <1>5
  <2>2. Reach(w.native) \cup Writer \subseteq Live
    BY <1>1, Used
  <2>3. Stays(Reach(w.native) \cup Writer)
    BY <2>1, <2>2, SessionIs, OutcomesAreBoolean
    DEF AttachURLLinkToModifiedPage, Stays, Throws, DInv
  <2>. QED  BY <2>3, StaysWhole
<1>. QED  BY <1>2, <1>3, <1>4, <1>5 DEF WritesMore

\* A form's context is drawn on while its form exists, and its wrapper is kept.
LEMMA DrawingOnForm ==
    ASSUME DInv, ~thrown, NEW x \in Of("XObjectContentContext"), DrawOnForm(x)
    PROVE  DInv'
<1>1. WriterHeld(wrappers) /\ Writer \subseteq Live
  BY WhenRunning, WriterIsSafe DEF DrawOnForm, IsFree
<1>2. ~x.owns /\ BorrowerFits(heap, wrappers, x)
  <2>1. x.owns => OwnerFits(heap, x) /\ x.class = "XObjectContentContext"
    BY Used
  <2>. QED  BY <2>1, Used DEF OwnerFits, OwnerOf
<1>3. PICK v \in wrappers : v.owns /\ v.native = heap[x.native].of
  BY <1>2, Used DEF BorrowerFits
<1>4. v.native \in Live /\ v.native # None
  BY <1>3 DEF DInv, IsWrapped, OwnerFits, Live, IsHeap, None
<1>5. v.native \in ReachIn(heap, x.native)
  BY <1>3, <1>4, Used DEF ReachIn, Live
<1>6. v.native \in DeletesIn(heap, v)
  BY <1>3, <1>4 DEF DeletesIn, OwnedIn
<1>7. v.held
  BY <1>5, <1>6, Used DEF Safe
<1>8. Reach(v.native) \subseteq Live
  BY <1>7, Reaches DEF DInv, IsWrapped, Safe, Live
<1>9. Stays(Reach(x.native) \cup Reach(heap[x.native].of) \cup Writer)
  BY <1>1, <1>3, <1>8, Used, SessionIs DEF DrawOnForm, Stays, DInv
<1>. QED  BY <1>9, StaysWhole

-----------------------------------------------------------------------------
(***************************************************************************)
(* What the program is lent.                                               *)
(***************************************************************************)
Lends(X) ==
    /\ UNCHANGED <<heap, registered, session, thrown, busy, event>>
    /\ wrappers' = wrappers \cup X
    /\ dangling' = FALSE
    /\ \A x \in X :
          /\ x \in Wrapper /\ ~x.owns /\ x.class \notin {"PDFWriter", "DictionaryContext"}
          /\ BorrowerFits(heap, wrappers, x) /\ Safe(heap, wrappers, x.native)
          /\ event = NoEvent \/ heap[x.native].kind \notin {"dictionary", "page", "form"}

LEMMA PendingKinds ==
    ASSUME NEW h, NEW ws, NEW e, IsEvent(h, ws, e), NEW n \in Pending(e)
    PROVE  n \in DOMAIN h /\ h[n].kind \in {"dictionary", "page", "form"}
<1>1. n \in {e.left[i] : i \in DOMAIN e.left} \/ n \in e.frees \cup {g.native : g \in e.gives}
  BY DEF Pending
<1>2. CASE n \in {e.left[i] : i \in DOMAIN e.left}
  BY <1>2 DEF IsEvent
<1>3. CASE n \in e.frees \cup {g.native : g \in e.gives}
  BY <1>3 DEF IsEvent
<1>. QED  BY <1>1, <1>2, <1>3

LEMMA NonePending == Pending(NoEvent) = {}
BY DEF Pending, NoEvent

LEMMA LendsKeep ==
    ASSUME DInv, NEW X, Lends(X)
    PROVE  DInv'
<1>1. X \in SUBSET Wrapper
  BY DEF Lends
<1>2. IsWrapped(heap, wrappers \cup X)
  BY <1>1, AddsBorrowers DEF Lends, DInv
<1>3. SameWriters(wrappers, wrappers \cup X)
  BY DEF SameWriters, Lends
<1>4. IsSession(heap, wrappers \cup X, session, registered)
  BY <1>3, SessionStays DEF DInv
<1>5. \A x \in X : x.native \notin Pending(event)
  BY PendingKinds, NonePending DEF Lends, DInv
<1>6. IsEvent(heap, wrappers \cup X, event)
  BY <1>5, EventStays DEF DInv
<1>7. ~thrown => IsBusy(heap, wrappers \cup X, event, busy)
  BY BusyStays DEF DInv
<1>. QED  BY <1>2, <1>4, <1>6, <1>7 DEF DInv, Lends

\* A part that points back to what is safe, or nowhere, is safe.
LEMMA PartIsSafe ==
    ASSUME NEW h, NEW ws, IsHeap(h), NEW n, Safe(h, ws, n), NEW p \in h[n].parts,
           p \in DOMAIN h => h[p].kind \in Childless /\ h[p].of \in {n, None}
    PROVE  Safe(h, ws, p) /\ p \in DOMAIN h
<1>1. n \in DOMAIN h /\ p # None /\ p \in ReachIn(h, n)
  BY DEF Safe, IsHeap, Record, ReachIn
<1>2. p \in DOMAIN h
  BY <1>1 DEF Safe
<1>3. h[p].parts = {}
  BY <1>2 DEF IsHeap, PartsFit
<1>4. ReachIn(h, p) \subseteq ReachIn(h, n)
  BY <1>1, <1>2, <1>3 DEF ReachIn
<1>. QED  BY <1>2, <1>4 DEF Safe

\* What is deleted with a wrapper: its object, a part of that, or the proxy of a stream.
LEMMA DeletedIs ==
    ASSUME NEW h, NEW ws, IsHeap(h), IsWrapped(h, ws), NEW w \in ws, w.owns, NEW p \in DeletesIn(h, w)
    PROVE  /\ p \in DOMAIN h /\ p # None /\ w.native \in DOMAIN h /\ w.native # None
           /\ \/ p = w.native
              \/ p \in h[w.native].parts /\ h[p].of = w.native
              \/ p = w.also /\ w.class \in WithProxy /\ h[p].kind = "proxy" /\ h[p].of = None
<1>1. OwnerFits(h, w)
  BY DEF IsWrapped
<1>2. w.native # None
  BY <1>1 DEF OwnerFits, IsHeap, None
<1>. QED  BY <1>1, <1>2 DEF OwnerFits, DeletesIn, OwnedIn

\* No part of an object that points back to it has a wrapper of its own that owns it.
LEMMA PartsAreNotOwned ==
    ASSUME NEW h, NEW ws, IsHeap(h), IsWrapped(h, ws), NEW w \in ws, w.owns,
           NEW n \in DOMAIN h, w.native \in h[n].parts, h[w.native].of = n
    PROVE  FALSE
<1>1. OwnerFits(h, w) /\ w.native \in DOMAIN h /\ n # None
  BY DEF IsWrapped, OwnerFits, IsHeap, None
<1>2. HasPart(h[n].kind, h[w.native].kind) /\ OfFits(h, w.native)
  BY <1>1 DEF IsHeap, PartsFit
<1>3. h[w.native].kind \notin {"stream", "parser"}
  BY <1>1 DEF OwnerFits, OwnerOf
<1>. QED  BY <1>1, <1>2, <1>3
          DEF OwnerFits, OwnerOf, HasPart, Deletable, Lent, OfFits, PointsBack, Rootless

\* No two wrappers delete the same.
LEMMA DeletedOnce ==
    ASSUME NEW h, NEW ws, IsHeap(h), IsWrapped(h, ws), NEW v \in ws, NEW w \in ws, v # w,
           NEW p \in DeletesIn(h, v), p \in DeletesIn(h, w)
    PROVE  FALSE
<1>1. v.owns /\ w.owns
  BY DEF DeletesIn
<1>2. v.native # w.native
  BY <1>1 DEF IsWrapped, OwnersDiffer
<1>3. OwnerFits(h, v) /\ OwnerFits(h, w)
  BY <1>1 DEF IsWrapped
<1>4. CASE p = v.native
  <2>1. p # w.also \/ h[p].kind # "proxy"
    BY <1>3, <1>4 DEF OwnerFits, OwnerOf
  <2>. QED  BY <1>1, <1>2, <1>4, <2>1, DeletedIs, PartsAreNotOwned
<1>5. CASE p = w.native
  <2>1. p # v.also \/ h[p].kind # "proxy"
    BY <1>3, <1>5 DEF OwnerFits, OwnerOf
  <2>. QED  BY <1>1, <1>2, <1>5, <2>1, DeletedIs, PartsAreNotOwned
<1>6. CASE p # v.native /\ p # w.native
  <2>1. \/ h[p].of = v.native
        \/ p = v.also /\ v.class \in WithProxy /\ h[p].of = None
    BY <1>1, <1>6, DeletedIs
  <2>2. \/ h[p].of = w.native
        \/ p = w.also /\ w.class \in WithProxy /\ h[p].of = None
    BY <1>1, <1>6, DeletedIs
  <2>3. v.native # None /\ w.native # None /\ p # None
    BY <1>1, DeletedIs
  <2>. QED  BY <1>1, <1>2, <2>1, <2>2, <2>3 DEF IsWrapped, OwnersDiffer
<1>. QED  BY <1>4, <1>5, <1>6

\* The parser that a copying context reads from is safe while that is.
LEMMA ParserIsSafe ==
    ASSUME NEW h, NEW ws, IsHeap(h), IsWrapped(h, ws), NEW n, Safe(h, ws, n),
           h[n].kind = "copying", NEW p \in h[n].parts
    PROVE  Safe(h, ws, p) /\ p \in DOMAIN h /\ h[p].kind \in {"parser", "writer"}
<1>1. n \in DOMAIN h /\ p # None /\ p \in ReachIn(h, n)
  BY DEF Safe, IsHeap, Record, ReachIn
<1>2. p \in DOMAIN h
  BY <1>1 DEF Safe
<1>3. h[p].kind \in {"parser", "writer"}
  BY <1>1, <1>2 DEF IsHeap, PartsFit, HasPart, Deletable, Lent
<1>4. \A q \in h[p].parts : q \in ReachIn(h, n)
  BY <1>1, <1>2 DEF ReachIn, IsHeap, Record
<1>5. ASSUME NEW q \in h[p].parts \cap DOMAIN h
      PROVE  h[q].parts = {}
  <2>1. HasPart(h[p].kind, h[q].kind) /\ PartsFit(h, q)
    BY <1>2 DEF IsHeap, PartsFit
  <2>. QED  BY <1>3, <2>1 DEF HasPart, Deletable, Lent, PartsFit, Childless
<1>6. UNION {h[q].parts : q \in h[p].parts \cap DOMAIN h} = {}
  BY <1>5
<1>7. ReachIn(h, p) \subseteq ReachIn(h, n) \cup ({h[p].of} \ {None})
  BY <1>1, <1>2, <1>4, <1>6 DEF ReachIn
<1>8. CASE h[p].of = None
  BY <1>2, <1>3, <1>7, <1>8 DEF Safe
<1>9. CASE h[p].of # None
  <2>1. h[p].kind = "parser"
    BY <1>2, <1>3, <1>9 DEF IsHeap, OfFits, Rootless
  <2>2. PICK w \in ws : w.owns /\ p \in DeletesIn(h, w)
    BY <1>2, <2>1 DEF IsWrapped, ParsersOwned
  <2>3. w.held
    BY <1>1, <2>2 DEF Safe
  <2>4. OwnerFits(h, w)
    BY <2>2 DEF IsWrapped
  <2>5. p # w.native /\ h[p].kind # "proxy"
    BY <1>9, <2>1, <2>4 DEF OwnerFits, OwnerOf
  <2>6. h[p].of = w.native /\ w.native \in DOMAIN h /\ w.native # None
    BY <2>2, <2>5, DeletedIs
  <2>7. w.native \in DeletesIn(h, w)
    BY <2>2, <2>6 DEF DeletesIn, OwnedIn
  <2>8. ASSUME NEW u \in ws, ~u.held
        PROVE  w.native \notin DeletesIn(h, u)
    BY <2>3, <2>7, <2>8, DeletedOnce
  <2>. QED  BY <1>2, <1>3, <1>7, <2>6, <2>8 DEF Safe
<1>. QED  BY <1>8, <1>9

\* The page of a context, while the context has not ended.
LEMMA PageIsSafe ==
    ASSUME NEW h, NEW ws, IsHeap(h), NEW c, Safe(h, ws, c), h[c].kind = "pageContext"
    PROVE  /\ Safe(h, ws, h[c].of) /\ h[h[c].of].kind = "page" /\ h[h[c].of].of = c
           /\ h[c].of \in DOMAIN h
<1>1. c \in DOMAIN h /\ OfFits(h, c) /\ h[c].of \in ReachIn(h, c)
  BY DEF Safe, IsHeap, OfFits, ReachIn
<1>2. h[c].of \in DOMAIN h
  BY <1>1 DEF Safe
<1>3. h[h[c].of].kind = "page" /\ h[h[c].of].of = c
  BY <1>1, <1>2 DEF OfFits, PointsBack
<1>4. h[h[c].of].parts = {}
  BY <1>2, <1>3 DEF IsHeap, PartsFit, Childless
<1>5. ReachIn(h, h[c].of) \subseteq ReachIn(h, c)
  BY <1>1, <1>2, <1>3, <1>4 DEF ReachIn, IsHeap, None
<1>. QED  BY <1>2, <1>3, <1>5 DEF Safe

\* A part that a form or a modifier, or a file, deletes.
LEMMA OwnPartIsSafe ==
    ASSUME NEW h, NEW ws, IsHeap(h), NEW n, Safe(h, ws, n), NEW p \in h[n].parts,
           Deletable(h[n].kind, h[p].kind)
    PROVE  Safe(h, ws, p) /\ p \in DOMAIN h /\ h[p].of = n
<1>1. n \in DOMAIN h /\ p \in DOMAIN h
  BY DEF Safe, ReachIn, IsHeap, Record
<1>2. h[p].of = n
  BY <1>1 DEF IsHeap, PartsFit
<1>. QED  BY <1>1, <1>2, PartIsSafe DEF Deletable, Childless

LEMMA PartOfIs ==
    ASSUME DInv, NEW n \in DOMAIN heap, HasForm(heap, wrappers, n)
    PROVE  /\ PartOf(n, "formContext") \in heap[n].parts
           /\ heap[PartOf(n, "formContext")].kind = "formContext"
           /\ PartOf(n, "stream") \in heap[n].parts
           /\ heap[PartOf(n, "stream")].kind = "stream"
BY DEF HasForm, PartOf

\* What a form that the program draws on, or a modifier, has.
LEMMA DrawnForm ==
    ASSUME DInv, ~thrown, NEW c, NEW w \in Of(c), w.native \in busy,
           heap[w.native].kind \in {"form", "modifier"}
    PROVE  /\ HasForm(heap, wrappers, w.native)
           /\ \A k \in {"formContext", "stream"} :
                 /\ Safe(heap, wrappers, PartOf(w.native, k))
                 /\ PartOf(w.native, k) \in heap[w.native].parts
                 /\ heap[PartOf(w.native, k)].kind = k
                 /\ heap[PartOf(w.native, k)].of = w.native
<1>1. w.native \notin {Own, Listening, Waiting} /\ w.native \in Live
  BY Used DEF DInv, IsHeap, Own, Listening, Waiting, Live
<1>2. HasForm(heap, wrappers, w.native)
  BY <1>1 DEF DInv, IsBusy
<1>. QED  BY <1>1, <1>2, PartOfIs, OwnPartIsSafe, Used DEF Deletable, Live, DInv

BorrowedOf(class, n) == Wrap(class, n, FALSE, None)

LEMMA BorrowedIs ==
    ASSUME NEW class \in Classes, NEW n \in Nat
    PROVE  /\ BorrowedOf(class, n) \in Wrapper /\ BorrowedOf(class, n).class = class
           /\ BorrowedOf(class, n).native = n /\ ~BorrowedOf(class, n).owns
           /\ BorrowedOf(class, n).held /\ BorrowedOf(class, n).also = None
BY DEF BorrowedOf, Wrap, Wrapper, None

\* A borrowed wrapper of what is safe.
LEMMA LendsOne ==
    ASSUME DInv, NEW class \in Classes \ {"PDFWriter", "DictionaryContext", "XObjectContentContext"},
           NEW n, Safe(heap, wrappers, n), BorrowerOf(class, heap[n].kind),
           UNCHANGED <<heap, registered, session, thrown, busy, event>>, dangling' = FALSE,
           wrappers' = wrappers \cup {BorrowedOf(class, n)},
           event = NoEvent \/ heap[n].kind \notin {"dictionary", "page", "form"}
    PROVE  DInv'
<1>1. n \in Nat
  BY DEF Safe, DInv, IsHeap
<1>2. Lends({BorrowedOf(class, n)})
  BY <1>1, BorrowedIs DEF Lends, BorrowerFits, Safe
<1>. QED  BY <1>2, LendsKeep

LEMMA Untouched ==
    ASSUME DInv, NEW used, Touches(used), used \subseteq Live
    PROVE  dangling' = FALSE
BY DEF Touches, DInv

LEMMA GettingPage ==
    ASSUME DInv, ~thrown, NEW x \in Of("PageContentContext"), GetAssociatedPage(x)
    PROVE  DInv'
<1>1. ~x.owns /\ heap[x.native].kind = "pageContext"
  BY Used DEF OwnerFits, OwnerOf, BorrowerFits, BorrowerOf
<1>2. Safe(heap, wrappers, heap[x.native].of) /\ heap[heap[x.native].of].kind = "page"
  BY <1>1, Used, PageIsSafe DEF DInv
<1>3. dangling' = FALSE
  BY Used, Untouched DEF GetAssociatedPage
<1>4. wrappers' = wrappers \cup {BorrowedOf("PDFPage", heap[x.native].of)}
  BY DEF GetAssociatedPage, BorrowedOf
<1>5. /\ "PDFPage" \in Classes \ {"PDFWriter", "DictionaryContext", "XObjectContentContext"}
      /\ BorrowerOf("PDFPage", "page")
  BY DEF Classes, BorrowerOf
<1>. QED  BY <1>2, <1>3, <1>4, <1>5, LendsOne DEF GetAssociatedPage, IsFree

LEMMA GettingMember ==
    ASSUME DInv, ~thrown, NEW class \in {"InputFile", "OutputFile", "PDFReader"}, GetMember(class)
    PROVE  DInv'
<1>1. Safe(heap, wrappers, session.writer) /\ heap[session.writer].kind = "writer"
  BY WhenRunning, WriterIsSafe DEF GetMember, IsFree
<1>2. class \in Classes \ {"PDFWriter", "DictionaryContext", "XObjectContentContext"}
      /\ BorrowerOf(class, "writer")
  BY DEF Classes, BorrowerOf
<1>3. wrappers' = wrappers \cup {BorrowedOf(class, session.writer)}
  BY DEF GetMember, BorrowedOf
<1>4. dangling' = FALSE /\ event = NoEvent /\ UNCHANGED <<heap, registered, session, thrown, busy, event>>
  BY DEF GetMember, IsFree, DInv
<1>. QED  BY <1>1, <1>2, <1>3, <1>4, LendsOne

\* A form that the program draws on has the kinds of part that are asked for.
LEMMA GettingFormParts ==
    ASSUME DInv, ~thrown,
           \/ \E w \in Of("FormXObject") : GetContentContext(w) \/ GetContentStream(w)
           \/ \E w \in Of("PDFPageModifier") : GetContext(w)
    PROVE  DInv'
<1>1. PICK w : /\ w \in Of("FormXObject") \cup Of("PDFPageModifier")
               /\ GetContentContext(w) \/ GetContentStream(w) \/ GetContext(w)
  OBVIOUS
<1>2. /\ w \in wrappers /\ w.owns /\ w.native \in Live
      /\ heap[w.native].kind \in {"form", "modifier"} /\ Reach(w.native) \subseteq Live
  BY <1>1, Used DEF BorrowerFits, BorrowerOf, OwnerFits, OwnerOf
<1>3. \A k \in {"formContext", "stream"} :
         /\ Safe(heap, wrappers, PartOf(w.native, k))
         /\ heap[PartOf(w.native, k)].kind = k
         /\ heap[PartOf(w.native, k)].of = w.native
  BY <1>1, <1>2, DrawnForm DEF GetContentContext, GetContentStream, GetContext
<1>4. dangling' = FALSE
  BY <1>1, <1>2, Untouched DEF GetContentContext, GetContentStream, GetContext
<1>5. CASE GetContentContext(w) \/ GetContext(w)
  <2>. DEFINE x == BorrowedOf("XObjectContentContext", PartOf(w.native, "formContext"))
  <2>1. PartOf(w.native, "formContext") \in Nat
    BY <1>3 DEF Safe, DInv, IsHeap
  <2>2. /\ x \in Wrapper /\ x.class = "XObjectContentContext" /\ ~x.owns /\ x.held
        /\ x.native = PartOf(w.native, "formContext")
    BY <2>1, BorrowedIs DEF Classes
  <2>3. wrappers' = wrappers \cup {x}
    BY <1>5 DEF GetContentContext, GetContext, BorrowedOf
  <2>. HIDE DEF x
  <2>4. BorrowerFits(heap, wrappers, x)
    <3>1. x.native \in DOMAIN heap /\ heap[x.native].kind = "formContext" /\ heap[x.native].of = w.native
      BY <1>3, <2>2 DEF Safe
    <3>2. BorrowerOf("XObjectContentContext", "formContext")
      BY DEF BorrowerOf
    <3>. QED  BY <1>2, <2>2, <3>1, <3>2 DEF BorrowerFits
  <2>5. Lends({x})
    BY <1>3, <1>4, <1>5, <2>2, <2>3, <2>4 DEF Lends, GetContentContext, GetContext
  <2>. QED  BY <2>5, LendsKeep
<1>6. CASE GetContentStream(w)
  <2>1. wrappers' = wrappers \cup {BorrowedOf("PDFStream", PartOf(w.native, "stream"))}
    BY <1>6 DEF GetContentStream, BorrowedOf
  <2>2. /\ "PDFStream" \in Classes \ {"PDFWriter", "DictionaryContext", "XObjectContentContext"}
        /\ BorrowerOf("PDFStream", "stream")
    BY DEF Classes, BorrowerOf
  <2>. QED  BY <1>3, <1>4, <1>6, <2>1, <2>2, LendsOne DEF GetContentStream
<1>. QED  BY <1>1, <1>5, <1>6


LEMMA FileIs ==
    ASSUME DInv, NEW w \in Of("InputFile") \cup Of("OutputFile"), w.owns
    PROVE  /\ w \in wrappers /\ w.held /\ w.native \in Live /\ heap[w.native].kind = "file"
           /\ Safe(heap, wrappers, w.native) /\ Reach(w.native) \subseteq Live
           /\ heap[w.native].parts \subseteq Live
           /\ \A p \in heap[w.native].parts : heap[p].kind = "fileStream" /\ heap[p].of = w.native
<1>1. /\ w \in wrappers /\ w.held /\ w.native \in Live /\ heap[w.native].kind = "file"
      /\ Safe(heap, wrappers, w.native) /\ Reach(w.native) \subseteq Live
  BY Used DEF OwnerFits, OwnerOf
<1>2. heap[w.native].parts \subseteq Live
  BY <1>1 DEF Safe, ReachIn, Live, DInv, IsHeap, Record
<1>3. PartsFit(heap, w.native)
  BY <1>1 DEF DInv, IsHeap, Live
<1>. QED  BY <1>1, <1>2, <1>3 DEF PartsFit, HasPart, Deletable, Lent, Live

LEMMA GettingFileStream ==
    ASSUME DInv, ~thrown, NEW w \in Of("InputFile") \cup Of("OutputFile"), GetFileStream(w)
    PROVE  DInv'
<1>1. w.owns /\ heap[w.native].parts # {}
  BY Used DEF GetFileStream, StreamsOf
<1>2. StreamOf(w.native) \in heap[w.native].parts
  BY <1>1 DEF StreamOf
<1>3. Safe(heap, wrappers, StreamOf(w.native)) /\ heap[StreamOf(w.native)].kind = "fileStream"
  BY <1>1, <1>2, FileIs, OwnPartIsSafe DEF Deletable, DInv
<1>4. dangling' = FALSE
  BY Used, Untouched DEF GetFileStream
<1>5. PICK class \in {"ByteReaderWithPosition", "ByteWriterWithPosition"} :
         wrappers' = wrappers \cup {BorrowedOf(class, StreamOf(w.native))}
  BY DEF GetFileStream, BorrowedOf
<1>6. /\ class \in Classes \ {"PDFWriter", "DictionaryContext", "XObjectContentContext"}
      /\ BorrowerOf(class, "fileStream")
  BY DEF Classes, BorrowerOf
<1>. QED  BY <1>3, <1>4, <1>5, <1>6, LendsOne DEF GetFileStream

LEMMA GettingParserStream ==
    ASSUME DInv, ~thrown, NEW w \in Of("PDFReader"), GetParserStream(w)
    PROVE  DInv'
<1>1. heap[w.native].kind \in {"parser", "writer"} /\ Safe(heap, wrappers, w.native)
  BY Used DEF OwnerFits, OwnerOf, BorrowerFits, BorrowerOf
<1>2. dangling' = FALSE
  BY Used, Untouched DEF GetParserStream
<1>3. wrappers' = wrappers \cup {BorrowedOf("ByteReaderWithPosition", w.native)}
  BY DEF GetParserStream, BorrowedOf
<1>4. /\ "ByteReaderWithPosition" \in Classes \ {"PDFWriter", "DictionaryContext", "XObjectContentContext"}
      /\ \A k \in {"parser", "writer"} : BorrowerOf("ByteReaderWithPosition", k)
  BY DEF Classes, BorrowerOf
<1>. QED  BY <1>1, <1>2, <1>3, <1>4, LendsOne DEF GetParserStream

LEMMA GettingSources ==
    ASSUME DInv, ~thrown, NEW x \in Of("DocumentCopyingContext"),
           GetSourceDocumentParser(x) \/ GetSourceDocumentStream(x)
    PROVE  DInv'
<1>1. heap[x.native].kind = "copying" /\ Safe(heap, wrappers, x.native)
  BY Used DEF OwnerFits, OwnerOf, BorrowerFits, BorrowerOf
<1>2. \A p \in heap[x.native].parts : /\ Safe(heap, wrappers, p) /\ p \in Nat
                                     /\ heap[p].kind \in {"parser", "writer"}
  BY <1>1, ParserIsSafe DEF DInv, IsHeap
<1>3. dangling' = FALSE
  BY Used, Untouched DEF GetSourceDocumentParser, GetSourceDocumentStream
<1>4. PICK class \in {"PDFReader", "ByteWriterWithPosition"} :
         wrappers' = wrappers \cup {BorrowedOf(class, p) : p \in heap[x.native].parts}
  BY DEF GetSourceDocumentParser, GetSourceDocumentStream, BorrowedOf
<1>5. class \in Classes
  BY DEF Classes
<1>6. ASSUME NEW p \in heap[x.native].parts
      PROVE  /\ BorrowedOf(class, p) \in Wrapper /\ ~BorrowedOf(class, p).owns
             /\ BorrowedOf(class, p).class = class /\ BorrowedOf(class, p).native = p
             /\ BorrowerFits(heap, wrappers, BorrowedOf(class, p))
  <2>1. /\ BorrowedOf(class, p) \in Wrapper /\ ~BorrowedOf(class, p).owns
        /\ BorrowedOf(class, p).class = class /\ BorrowedOf(class, p).native = p
        /\ BorrowedOf(class, p).held
    BY <1>2, <1>5, BorrowedIs
  <2>2. \A k \in {"parser", "writer"} : BorrowerOf(class, k)
    BY DEF BorrowerOf
  <2>3. p \in DOMAIN heap
    BY <1>2 DEF Safe
  <2>. QED  BY <1>2, <2>1, <2>2, <2>3 DEF BorrowerFits
<1>. DEFINE X == {BorrowedOf(class, p) : p \in heap[x.native].parts}
<1>7. ASSUME NEW y \in X
      PROVE  /\ y \in Wrapper /\ ~y.owns /\ y.class \notin {"PDFWriter", "DictionaryContext"}
             /\ BorrowerFits(heap, wrappers, y) /\ Safe(heap, wrappers, y.native)
             /\ heap[y.native].kind \notin {"dictionary", "page", "form"}
  <2>1. PICK p \in heap[x.native].parts : y = BorrowedOf(class, p)
    OBVIOUS
  <2>. QED  BY <1>2, <1>6, <2>1
<1>. HIDE DEF X
<1>8. Lends(X)
  BY <1>3, <1>4, <1>7 DEF Lends, GetSourceDocumentParser, GetSourceDocumentStream, X
<1>. QED  BY <1>8, LendsKeep

-----------------------------------------------------------------------------
(***************************************************************************)
(* Calls that make objects.                                                *)
(***************************************************************************)
Sound(h, ws, s, reg) == IsHeap(h) /\ IsWrapped(h, ws) /\ IsSession(h, ws, s, reg)

\* What is safe, waits for the listener or is drawn on stays so.
SafeStays(h, ws, g, vs) == \A n \in DOMAIN h : Safe(h, ws, n) => Safe(g, vs, n)
BusyStill(h, ws, g, vs) == \A e, b : IsBusy(h, ws, e, b) => IsBusy(g, vs, e, b)

LEMMA GrowsSound ==
    ASSUME NEW h, NEW g, NEW ws, NEW N, NEW s, NEW reg,
           Sound(h, ws, s, reg), IsFresh(h, ws, N), Grows(h, g, N),
           \A n \in N :
              /\ PartsFit(g, n) /\ OfFits(g, n)
              /\ g[n].kind \notin {"pageContext", "parser", "writer", "font", "copying"}
              /\ g[n].of \in N \cup {None} \/ g[g[n].of].kind = "writer"
              /\ \A w \in ws : w.owns /\ w.class = "PDFStream" => w.native \notin g[n].parts
    PROVE  /\ Sound(g, ws, s, reg) /\ SafeStays(h, ws, g, ws) /\ BusyStill(h, ws, g, ws)
           /\ \A e : IsEvent(h, ws, e) => IsEvent(g, ws, e)
<1>1. IsHeap(h) /\ IsWrapped(h, ws) /\ IsSession(h, ws, s, reg)
  BY DEF Sound
<1>2. IsHeap(g)
  BY <1>1, GrowsHeap
<1>3. IsWrapped(g, ws) /\ SafeStays(h, ws, g, ws)
  BY <1>1, GrowsWrapped DEF SafeStays
<1>4. \A n \in DOMAIN h : n \in DOMAIN g /\ g[n] = h[n]
  BY DEF Grows
<1>5. \A n \in DOMAIN g : g[n].kind \in {"writer", "font", "copying"} => n \in DOMAIN h
  BY DEF Grows
<1>6. IsSession(g, ws, s, reg)
  BY <1>1, <1>4, <1>5, SessionStays DEF SameWriters
<1>7. BusyStill(h, ws, g, ws)
  BY <1>4, BusyStays DEF BusyStill
<1>8. ASSUME NEW e, IsEvent(h, ws, e)
      PROVE  IsEvent(g, ws, e)
  <2>1. \A m \in DOMAIN h : g[m].of = h[m].of
    BY <1>4
  <2>2. ASSUME NEW m \in N, g[m].of \in Pending(e)
        PROVE  FALSE
    <3>1. g[m].of \in DOMAIN h /\ h[g[m].of].kind \in {"dictionary", "page", "form"}
      BY <1>8, <2>2, PendingKinds
    <3>2. g[m].of \notin N \cup {None}
      BY <1>1, <3>1 DEF IsFresh, IsHeap, None
    <3>. QED  BY <1>4, <2>2, <3>1, <3>2
  <2>3. \A m \in DOMAIN g : g[m].of \in Pending(e) => m \in DOMAIN h /\ g[m].of = h[m].of
    BY <2>1, <2>2 DEF Grows
  <2>. QED  BY <1>4, <1>8, <2>3, EventStays
<1>. QED  BY <1>2, <1>3, <1>6, <1>7, <1>8 DEF Sound

LEMMA OwnerSound ==
    ASSUME NEW h, NEW ws, NEW s, NEW reg, NEW x \in Wrapper, Sound(h, ws, s, reg),
           x.owns, x.held, x.class # "PDFWriter",
           OwnerFits(h, x), Safe(h, ws, x.native),
           \A w \in ws : w.native # x.native /\ (x.also # None => w.also # x.also)
    PROVE  /\ Sound(h, ws \cup {x}, s, reg) /\ BusyStill(h, ws, h, ws \cup {x})
           /\ \A e : IsEvent(h, ws, e) /\ x.native \notin Pending(e) => IsEvent(h, ws \cup {x}, e)
<1>1. IsHeap(h) /\ IsWrapped(h, ws) /\ IsSession(h, ws, s, reg)
  BY DEF Sound
<1>2. IsWrapped(h, ws \cup {x})
  BY <1>1, AddsOwner
<1>3. SameWriters(ws, ws \cup {x})
  BY DEF SameWriters
<1>4. IsSession(h, ws \cup {x}, s, reg)
  BY <1>1, <1>3, SessionStays
<1>5. BusyStill(h, ws, h, ws \cup {x})
  BY BusyStays DEF BusyStill
<1>6. \A e : IsEvent(h, ws, e) /\ x.native \notin Pending(e) => IsEvent(h, ws \cup {x}, e)
  BY EventStays
<1>. QED  BY <1>1, <1>2, <1>4, <1>5, <1>6 DEF Sound

LEMMA DeletesExist ==
    ASSUME NEW h, NEW ws, IsHeap(h), IsWrapped(h, ws), NEW w \in ws
    PROVE  DeletesIn(h, w) \subseteq DOMAIN h
BY DeletedIs DEF DeletesIn

\* What only leads to new objects, and to what was safe, is safe.
LEMMA NewIsSafe ==
    ASSUME NEW h, NEW g, NEW ws, NEW N, NEW n \in DOMAIN g,
           IsHeap(h), IsWrapped(h, ws), IsFresh(h, ws, N), Grows(h, g, N),
           \A p \in ReachIn(g, n) : p \in N \/ \E m : Safe(h, ws, m) /\ p \in ReachIn(h, m)
    PROVE  Safe(g, ws, n)
<1>1. \A w \in ws : w.native \in DOMAIN h
  BY DEF IsWrapped, OwnerFits, BorrowerFits
<1>2. \A w \in ws : DeletesIn(g, w) = DeletesIn(h, w) /\ DeletesIn(h, w) \subseteq DOMAIN h
  BY <1>1, GrowsDeletes, DeletesExist
<1>3. \A w \in ws : N \cap DeletesIn(h, w) = {}
  BY <1>2 DEF IsFresh
<1>. QED  BY <1>2, <1>3 DEF Safe, Grows

LEMMA Made ==
    ASSUME DInv, NEW k \in 1 .. 3, Room(k), NEW rs, DOMAIN rs = 1 .. k,
           \A i \in 1 .. k : rs[i] \in Record
    PROVE  /\ Grows(heap, Created(heap, rs), NewOnes(k)) /\ IsFresh(heap, wrappers, NewOnes(k))
           /\ \A i \in 1 .. k : /\ New(i) \in Nat \ {None} /\ Created(heap, rs)[New(i)] = rs[i]
                                /\ New(i) \in NewOnes(k)
           /\ \A i, j \in 1 .. k : New(i) = New(j) => i = j
<1>. DEFINE g == Created(heap, rs)
<1>1. /\ g = [n \in DOMAIN g |-> g[n]] /\ DOMAIN g = DOMAIN heap \cup NewOnes(k)
      /\ \A n \in DOMAIN heap : g[n] = heap[n]
      /\ \A i \in 1 .. k : g[New(i)] = rs[i]
  <2>1. DOMAIN heap \subseteq Live
    BY DEF Live
  <2>2. IsMade(heap, g, rs, k)
    BY <2>1, CreatedIs
  <2>. QED  BY <2>2 DEF IsMade
<1>2. IsFresh(heap, wrappers, NewOnes(k))
  BY NewAreFresh DEF NewOnes
<1>3. \A i, j \in 1 .. k : New(i) = New(j) => i = j
  BY NewAddresses
<1>4. \A i \in 1 .. k : New(i) \in NewOnes(k) /\ New(i) \in Nat \ {None}
  BY <1>2 DEF NewOnes, IsFresh, None
<1>. HIDE DEF g
<1>5. \A n \in DOMAIN g : g[n] \in Record
  <2>. SUFFICES ASSUME NEW n \in DOMAIN g
                PROVE  g[n] \in Record
    OBVIOUS
  <2>1. CASE n \in DOMAIN heap
    BY <1>1, <2>1 DEF DInv, IsHeap
  <2>2. CASE n \in NewOnes(k)
    BY <1>1, <2>2 DEF NewOnes
  <2>. QED  BY <1>1, <2>1, <2>2
<1>6. Grows(heap, g, NewOnes(k))
  BY <1>1, <1>5 DEF Grows
<1>. QED  BY <1>1, <1>2, <1>3, <1>4, <1>6 DEF g

\* New objects and a wrapper that owns the first of them.
LEMMA GivesNew ==
    ASSUME DInv, ~thrown, NEW k \in 1 .. 3, Room(k), NEW rs, DOMAIN rs = 1 .. k,
           \A i \in 1 .. k : rs[i] \in Record,
           heap' = Created(heap, rs),
           \A i \in 1 .. k :
              /\ PartsFit(heap', New(i)) /\ OfFits(heap', New(i))
              /\ rs[i].kind \notin {"pageContext", "parser", "writer", "font", "copying"}
              /\ rs[i].of \in NewOnes(k) \cup {None} \/ heap'[rs[i].of].kind = "writer"
              /\ \A w \in wrappers : w.owns /\ w.class = "PDFStream" => w.native \notin rs[i].parts,
           NEW x \in Wrapper, x.owns, x.held, x.class # "PDFWriter", x.native = New(1), x.also = None,
           OwnerFits(heap', x), wrappers' = wrappers \cup {x},
           \A p \in ReachIn(heap', New(1)) :
              p \in NewOnes(k) \/ \E m : Safe(heap, wrappers, m) /\ p \in ReachIn(heap, m),
           UNCHANGED <<registered, session, event>>, dangling' = FALSE, thrown' \in BOOLEAN,
           busy' = busy \/ IsBusy(heap', wrappers', event, busy')
    PROVE  DInv'
<1>. DEFINE N == NewOnes(k)
<1>1. /\ Grows(heap, heap', N) /\ IsFresh(heap, wrappers, N)
      /\ \A i \in 1 .. k : New(i) \in N /\ heap'[New(i)] = rs[i]
  <2>1. /\ Grows(heap, Created(heap, rs), NewOnes(k)) /\ IsFresh(heap, wrappers, NewOnes(k))
        /\ \A i \in 1 .. k : /\ New(i) \in Nat \ {None} /\ Created(heap, rs)[New(i)] = rs[i]
                             /\ New(i) \in NewOnes(k)
    BY Made
  <2>. QED  BY <2>1, Zenon
<1>2. Sound(heap, wrappers, session, registered) /\ IsEvent(heap, wrappers, event)
      /\ (~thrown => IsBusy(heap, wrappers, event, busy)) /\ IsHeap(heap) /\ IsWrapped(heap, wrappers)
  BY DEF DInv, Sound
<1>3. ASSUME NEW n \in N
      PROVE  /\ PartsFit(heap', n) /\ OfFits(heap', n)
             /\ heap'[n].kind \notin {"pageContext", "parser", "writer", "font", "copying"}
             /\ heap'[n].of \in N \cup {None} \/ heap'[heap'[n].of].kind = "writer"
             /\ \A w \in wrappers : w.owns /\ w.class = "PDFStream" => w.native \notin heap'[n].parts
  <2>1. PICK i \in 1 .. k : n = New(i)
    BY DEF NewOnes
  <2>. QED  BY <1>1, <2>1
<1>. HIDE DEF N
<1>4. /\ Sound(heap', wrappers, session, registered) /\ BusyStill(heap, wrappers, heap', wrappers)
      /\ IsEvent(heap', wrappers, event)
  BY <1>1, <1>2, <1>3, GrowsSound
<1>5. New(1) \in N /\ New(1) \notin DOMAIN heap /\ New(1) \in DOMAIN heap'
  BY <1>1 DEF IsFresh, Grows
<1>6. Safe(heap', wrappers, New(1))
  BY <1>1, <1>2, <1>5, NewIsSafe DEF N
<1>7. \A w \in wrappers : w.native # x.native
  BY <1>1, <1>5 DEF IsFresh
<1>8. New(1) \notin Pending(event)
  BY <1>2, <1>5, PendingKinds
<1>9. /\ Sound(heap', wrappers', session, registered) /\ BusyStill(heap', wrappers, heap', wrappers')
      /\ IsEvent(heap', wrappers', event)
  BY <1>4, <1>6, <1>7, <1>8, OwnerSound
<1>10. ~thrown' => IsBusy(heap', wrappers', event, busy')
  BY <1>2, <1>4, <1>9 DEF BusyStill
<1>. QED  BY <1>9, <1>10 DEF DInv, Sound

OwnedBy(class, n) == Wrap(class, n, TRUE, None)

LEMMA OwnedByIs ==
    ASSUME NEW class \in Classes, NEW n \in Nat
    PROVE  /\ OwnedBy(class, n) \in Wrapper /\ OwnedBy(class, n).class = class
           /\ OwnedBy(class, n).native = n /\ OwnedBy(class, n).owns
           /\ OwnedBy(class, n).held /\ OwnedBy(class, n).also = None
BY DEF OwnedBy, Wrap, Wrapper, None

LEMMA NativeIs ==
    ASSUME NEW kind \in Kinds, NEW of \in Nat, NEW parts \in SUBSET (Nat \ {None})
    PROVE  /\ Native(kind, of, parts) \in Record /\ Native(kind, of, parts).kind = kind
           /\ Native(kind, of, parts).of = of /\ Native(kind, of, parts).parts = parts
BY DEF Native, Record

LEMMA ReachOf ==
    ASSUME NEW h, NEW n \in DOMAIN h, NEW p \in ReachIn(h, n)
    PROVE  /\ p # None
           /\ \/ p = n
              \/ p = h[n].of
              \/ p \in h[n].parts
              \/ \E q \in h[n].parts \cap DOMAIN h : p \in h[q].parts
BY DEF ReachIn

\* One object, with nothing or with a parser, or for the writer.
LEMMA GivesOne ==
    ASSUME DInv, ~thrown, Room(1),
           NEW kind \in {"page", "stream", "image", "file", "derived", "modifier"},
           NEW of \in Nat, NEW parts \in SUBSET (Nat \ {None}),
           heap' = Created(heap, <<Native(kind, of, parts)>>),
           NEW class \in Classes, class \notin {"PDFWriter"} \cup WithProxy, OwnerOf(class, kind),
           wrappers' = wrappers \cup {OwnedBy(class, New(1))},
           \/ of = None
           \/ kind = "modifier" /\ Safe(heap, wrappers, of) /\ heap[of].kind = "writer",
           \/ parts = {}
           \/ /\ kind = "derived"
              /\ \E p : parts = {p} /\ Safe(heap, wrappers, p) /\ heap[p].kind \in {"parser", "writer"},
           UNCHANGED <<registered, session, event, busy>>, dangling' = FALSE, thrown' \in BOOLEAN
    PROVE  DInv'
<1>. DEFINE rs == <<Native(kind, of, parts)>>
            x == OwnedBy(class, New(1))
            r == Native(kind, of, parts)
<1>1. r \in Record /\ r.kind = kind /\ r.of = of /\ r.parts = parts
  BY NativeIs DEF Kinds
<1>2. DOMAIN rs = 1 .. 1 /\ \A i \in 1 .. 1 : rs[i] \in Record /\ rs[i] = r /\ i = 1
  BY <1>1
<1>. HIDE DEF rs, r
<1>3. /\ Grows(heap, heap', NewOnes(1)) /\ IsFresh(heap, wrappers, NewOnes(1))
      /\ New(1) \in Nat \ {None} /\ heap'[New(1)] = r /\ New(1) \in NewOnes(1)
  <2>1. heap' = Created(heap, rs) /\ 1 \in 1 .. 3 /\ 1 \in 1 .. 1
    BY DEF rs, r
  <2>. QED  BY <1>2, <2>1, Made
<1>4. NewOnes(1) = {New(1)}
  BY DEF NewOnes
<1>5. x \in Wrapper /\ x.class = class /\ x.native = New(1) /\ x.owns /\ x.held /\ x.also = None
  BY <1>3, OwnedByIs
<1>. HIDE DEF x
<1>6. /\ New(1) \notin DOMAIN heap /\ DOMAIN heap' = DOMAIN heap \cup {New(1)}
      /\ \A n \in DOMAIN heap : heap'[n] = heap[n]
      /\ None \notin DOMAIN heap'
  <2>1. New(1) \notin DOMAIN heap
    BY <1>3 DEF IsFresh
  <2>2. DOMAIN heap' = DOMAIN heap \cup {New(1)} /\ \A n \in DOMAIN heap : heap'[n] = heap[n]
    BY <1>3, <1>4 DEF Grows
  <2>3. None \notin DOMAIN heap
    BY DEF DInv, IsHeap, None
  <2>. QED  BY <1>3, <2>1, <2>2, <2>3
<1>7. \A p \in parts : /\ Safe(heap, wrappers, p) /\ heap[p].kind \in {"parser", "writer"}
                       /\ p \in DOMAIN heap /\ kind = "derived" /\ parts = {p}
  BY DEF Safe
<1>8. PartsFit(heap', New(1))
  <2>1. kind \in Childless => parts = {}
    BY <1>7 DEF Childless
  <2>2. ASSUME NEW p \in parts
        PROVE  /\ HasPart(kind, heap'[p].kind) /\ ~Deletable(kind, heap'[p].kind)
               /\ ~Lent(kind, heap'[p].kind)
    <3>1. kind = "derived" /\ heap'[p].kind \in {"parser", "writer"}
      BY <1>6, <1>7
    <3>. QED  BY <3>1 DEF HasPart, Deletable, Lent
  <2>. QED  BY <1>1, <1>3, <2>1, <2>2 DEF PartsFit
<1>9. OfFits(heap', New(1))
  BY <1>1, <1>3, <1>6 DEF OfFits, PointsBack, Rootless, Safe
<1>10. \A w \in wrappers : w.owns /\ w.class = "PDFStream" => w.native \notin parts
  BY <1>7 DEF DInv, IsWrapped, OwnerFits, OwnerOf
<1>11. OwnerFits(heap', x)
  <2>1. class = "PDFStream" => \A n \in DOMAIN heap' : New(1) \notin heap'[n].parts
    <3>1. \A n \in DOMAIN heap : New(1) \notin heap[n].parts
      BY <1>3 DEF IsFresh
    <3>2. class = "PDFStream" => parts = {}
      BY <1>7 DEF OwnerOf
    <3>. QED  BY <1>1, <1>3, <1>6, <3>1, <3>2
  <2>2. class \in {"PDFStream", "PDFPage"} => of = None
    BY DEF OwnerOf
  <2>3. /\ x.native \in DOMAIN heap' /\ OwnerOf(x.class, heap'[x.native].kind)
        /\ heap'[x.native].of = of /\ x.native = New(1) /\ x.class = class /\ x.also = None
    BY <1>1, <1>3, <1>5, <1>6
  <2>. QED  BY <2>1, <2>2, <2>3 DEF OwnerFits, WithProxy
<1>12. ASSUME NEW p \in ReachIn(heap', New(1))
       PROVE  p \in NewOnes(1) \/ \E m : Safe(heap, wrappers, m) /\ p \in ReachIn(heap, m)
  <2>1. \/ p = New(1)
        \/ p = of /\ of # None
        \/ p \in parts
        \/ \E q \in parts : p \in heap[q].parts /\ p # None
    <3>1. \A q \in parts : heap'[q] = heap[q]
      BY <1>6, <1>7
    <3>2. New(1) \in DOMAIN heap' /\ heap'[New(1)].of = of /\ heap'[New(1)].parts = parts
      BY <1>1, <1>3, <1>6
    <3>3. p # None
      BY <3>2, ReachOf
    <3>. QED  BY <3>1, <3>2, <3>3, ReachOf
  <2>2. CASE p = of /\ of # None
    BY <2>2 DEF Safe, ReachIn
  <2>3. CASE p \in parts
    BY <1>6, <1>7, <2>3 DEF ReachIn
  <2>4. CASE \E q \in parts : p \in heap[q].parts /\ p # None
    BY <1>7, <2>4 DEF ReachIn
  <2>. QED  BY <1>3, <2>1, <2>2, <2>3, <2>4
<1>13. /\ heap' = Created(heap, rs) /\ 1 \in 1 .. 3 /\ wrappers' = wrappers \cup {x}
       /\ r.kind \notin {"pageContext", "parser", "writer", "font", "copying"}
  BY <1>1 DEF rs, r, x
<1>14. \A i \in 1 .. 1 :
          /\ PartsFit(heap', New(i)) /\ OfFits(heap', New(i))
          /\ rs[i].kind \notin {"pageContext", "parser", "writer", "font", "copying"}
          /\ rs[i].of \in NewOnes(1) \cup {None} \/ heap'[rs[i].of].kind = "writer"
          /\ \A w \in wrappers : w.owns /\ w.class = "PDFStream" => w.native \notin rs[i].parts
  <2>1. of = None \/ heap'[of].kind = "writer"
    BY <1>6 DEF Safe
  <2>. QED  BY <1>1, <1>2, <1>8, <1>9, <1>10, <1>13, <2>1
<1>. QED  BY <1>2, <1>5, <1>11, <1>12, <1>13, <1>14, GivesNew

LEMMA PageMade ==
    ASSUME DInv, ~thrown, CreatePage
    PROVE  DInv'
<1>1. "page" \in {"page", "stream", "image", "file", "derived", "modifier"}
      /\ "PDFPage" \in Classes /\ "PDFPage" \notin {"PDFWriter"} \cup WithProxy
      /\ OwnerOf("PDFPage", "page") /\ None \in Nat
  BY DEF Classes, WithProxy, OwnerOf, None
<1>2. /\ Room(1) /\ heap' = Created(heap, <<Native("page", None, {})>>)
      /\ wrappers' = wrappers \cup {OwnedBy("PDFPage", New(1))}
      /\ UNCHANGED <<registered, session, event, busy>> /\ dangling' = FALSE /\ thrown' \in BOOLEAN
  BY DEF CreatePage, OwnedBy, DInv
<1>. QED  BY <1>1, <1>2, GivesOne

LEMMA StreamMade ==
    ASSUME DInv, ~thrown, StartPDFStream, UNCHANGED event
    PROVE  DInv'
<1>1. "stream" \in {"page", "stream", "image", "file", "derived", "modifier"}
      /\ "PDFStream" \in Classes /\ "PDFStream" \notin {"PDFWriter"} \cup WithProxy
      /\ OwnerOf("PDFStream", "stream") /\ None \in Nat
  BY DEF Classes, WithProxy, OwnerOf, None
<1>2. dangling' = FALSE
  BY WhenRunning, WriterIsSafe, Untouched DEF StartPDFStream
<1>3. /\ Room(1) /\ heap' = Created(heap, <<Native("stream", None, {})>>)
      /\ wrappers' = wrappers \cup {OwnedBy("PDFStream", New(1))}
      /\ UNCHANGED <<registered, session, event, busy>> /\ thrown' \in BOOLEAN
  BY DEF StartPDFStream, OwnedBy, DInv
<1>. QED  BY <1>1, <1>2, <1>3, GivesOne

LEMMA ThrownIs ==
    ASSUME DInv, NEW works \in Outcomes, Throws(~works)
    PROVE  thrown' \in BOOLEAN
BY OutcomesAreBoolean DEF DInv, Throws

LEMMA ImageMade ==
    ASSUME DInv, ~thrown, CreateImageXObjectFromJPG
    PROVE  DInv'
<1>1. "image" \in {"page", "stream", "image", "file", "derived", "modifier"}
      /\ "ImageXObject" \in Classes /\ "ImageXObject" \notin {"PDFWriter"} \cup WithProxy
      /\ OwnerOf("ImageXObject", "image") /\ None \in Nat
  BY DEF Classes, WithProxy, OwnerOf, None
<1>2. WriterHeld(wrappers) /\ Writer \subseteq Live
  BY WhenRunning, WriterIsSafe DEF CreateImageXObjectFromJPG, IsFree
<1>3. dangling' = FALSE
  BY <1>2, Untouched DEF CreateImageXObjectFromJPG
<1>4. PICK works \in Outcomes :
          /\ Throws(~works)
          /\ IF works
             THEN /\ heap' = Created(heap, <<Native("image", None, {})>>)
                  /\ wrappers' = wrappers \cup {OwnedBy("ImageXObject", New(1))}
             ELSE UNCHANGED <<heap, wrappers>>
  BY DEF CreateImageXObjectFromJPG, OwnedBy
<1>5. thrown' \in BOOLEAN /\ Room(1) /\ UNCHANGED <<registered, session, event, busy>>
      /\ Touches(Writer)
  BY <1>4, ThrownIs DEF CreateImageXObjectFromJPG
<1>6. CASE works
  BY <1>1, <1>3, <1>4, <1>5, <1>6, GivesOne
<1>7. CASE ~works
  <2>1. Stays(Writer)
    BY <1>2, <1>4, <1>5, <1>7, SessionIs DEF Stays
  <2>. QED  BY <2>1, StaysWhole
<1>. QED  BY <1>6, <1>7

LEMMA ModifierMade ==
    ASSUME DInv, ~thrown, NewModifier
    PROVE  DInv'
<1>1. "modifier" \in {"page", "stream", "image", "file", "derived", "modifier"}
      /\ "PDFPageModifier" \in Classes /\ "PDFPageModifier" \notin {"PDFWriter"} \cup WithProxy
      /\ OwnerOf("PDFPageModifier", "modifier")
  BY DEF Classes, WithProxy, OwnerOf
<1>2. /\ Room(1) /\ heap' = Created(heap, <<Native("modifier", session.writer, {})>>)
      /\ wrappers' = wrappers \cup {OwnedBy("PDFPageModifier", New(1))}
      /\ UNCHANGED <<registered, session, event, busy>> /\ dangling' = FALSE /\ thrown' \in BOOLEAN
  BY DEF NewModifier, OwnedBy, DInv
<1>3. /\ Safe(heap, wrappers, session.writer) /\ heap[session.writer].kind = "writer"
      /\ session.writer \in Nat
  BY WhenRunning, WriterIsSafe DEF NewModifier, IsFree, DInv, IsSession
<1>. QED  BY <1>1, <1>2, <1>3, GivesOne

LEMMA DerivedMade ==
    ASSUME DInv, ~thrown, NEW w \in Of("PDFReader"), NEW class \in {"PDFPageInput", "ByteReader"},
           Derived(w, class)
    PROVE  DInv'
<1>1. "derived" \in {"page", "stream", "image", "file", "derived", "modifier"}
      /\ class \in Classes /\ class \notin {"PDFWriter"} \cup WithProxy
      /\ OwnerOf(class, "derived") /\ None \in Nat
  BY DEF Classes, WithProxy, OwnerOf, None
<1>2. dangling' = FALSE
  BY Used, Untouched DEF Derived
<1>3. /\ Room(1) /\ heap' = Created(heap, <<Native("derived", None, {w.native})>>)
      /\ wrappers' = wrappers \cup {OwnedBy(class, New(1))}
      /\ UNCHANGED <<registered, session, event, busy>> /\ thrown' \in BOOLEAN
  BY DEF Derived, OwnedBy, DInv
<1>4. /\ heap[w.native].kind \in {"parser", "writer"} /\ Safe(heap, wrappers, w.native)
      /\ {w.native} \in SUBSET (Nat \ {None})
  BY Used DEF OwnerFits, OwnerOf, BorrowerFits, BorrowerOf, Wrapper
<1>. QED  BY <1>1, <1>2, <1>3, <1>4, GivesOne

LEMMA FileMade ==
    ASSUME DInv, ~thrown, NEW class \in {"InputFile", "OutputFile"}, NewFile(class)
    PROVE  DInv'
<1>1. class \in Classes /\ class \notin {"PDFWriter"} \cup WithProxy /\ OwnerOf(class, "file")
      /\ class \notin {"PDFStream", "PDFReader", "PDFPage"}
  BY DEF Classes, WithProxy, OwnerOf
<1>2. /\ Room(2) /\ wrappers' = wrappers \cup {OwnedBy(class, New(1))}
      /\ UNCHANGED <<registered, session, event, busy>> /\ dangling' = FALSE /\ thrown' \in BOOLEAN
  BY DEF NewFile, OwnedBy, DInv
<1>3. CASE heap' = Created(heap, <<Native("file", None, {})>>)
  <2>1. "file" \in {"page", "stream", "image", "file", "derived", "modifier"} /\ None \in Nat
    BY DEF None
  <2>2. Room(1)
    <3>1. \A u \in Nat : u >= 2 => u >= 1
      OBVIOUS
    <3>2. Cardinality(Unused) \in Nat
      BY UnusedIsFinite, FS_CardinalityType
    <3>. QED  BY <1>2, <3>1, <3>2 DEF Room
  <2>. QED  BY <1>1, <1>2, <1>3, <2>1, <2>2, GivesOne
<1>4. CASE heap' = Created(heap, <<Native("file", None, {New(2)}), Native("fileStream", New(1), {})>>)
  <2>. DEFINE a == Native("file", None, {New(2)})
              b == Native("fileStream", New(1), {})
              x == OwnedBy(class, New(1))
  <2>1. New(1) \in Nat \ {None} /\ New(2) \in Nat \ {None}
    BY <1>2, NewAddresses DEF Unused, None
  <2>2. /\ a \in Record /\ a.kind = "file" /\ a.of = None /\ a.parts = {New(2)}
        /\ b \in Record /\ b.kind = "fileStream" /\ b.of = New(1) /\ b.parts = {}
    BY <2>1, NativeIs DEF Kinds, None
  <2>. HIDE DEF a, b
  <2>. DEFINE rs == <<a, b>>
  <2>3. /\ DOMAIN rs = 1 .. 2 /\ rs[1] = a /\ rs[2] = b /\ 1 \in 1 .. 2 /\ 2 \in 1 .. 2
        /\ \A i \in 1 .. 2 : i = 1 \/ i = 2
    OBVIOUS
  <2>. HIDE DEF rs
  <2>4. heap' = Created(heap, rs) /\ 2 \in 1 .. 3
    BY <1>4 DEF rs, a, b
  <2>5. \A i \in 1 .. 2 : rs[i] \in Record
    BY <2>2, <2>3
  <2>6. /\ Grows(heap, heap', NewOnes(2)) /\ IsFresh(heap, wrappers, NewOnes(2))
        /\ heap'[New(1)] = a /\ heap'[New(2)] = b
        /\ New(1) \in NewOnes(2) /\ New(2) \in NewOnes(2) /\ New(1) # New(2)
    BY <1>2, <2>3, <2>4, <2>5, Made
  <2>7. /\ New(1) \in DOMAIN heap' /\ New(2) \in DOMAIN heap' /\ None \notin DOMAIN heap'
    BY <2>1, <2>6 DEF Grows, IsFresh, DInv, IsHeap, None
  <2>8. PartsFit(heap', New(1)) /\ PartsFit(heap', New(2))
    BY <2>2, <2>6, <2>7 DEF PartsFit, HasPart, Deletable, Lent, Childless
  <2>9. OfFits(heap', New(1)) /\ OfFits(heap', New(2))
    BY <2>2, <2>6, <2>7 DEF OfFits, PointsBack, Rootless
  <2>10. \A w \in wrappers : w.native \notin {New(2)}
    BY <2>6 DEF IsFresh
  <2>11. x \in Wrapper /\ x.class = class /\ x.native = New(1) /\ x.owns /\ x.held /\ x.also = None
    BY <1>1, <2>1, OwnedByIs
  <2>. HIDE DEF x
  <2>12. OwnerFits(heap', x)
    BY <1>1, <2>2, <2>6, <2>7, <2>11 DEF OwnerFits
  <2>13. \A p \in ReachIn(heap', New(1)) : p \in NewOnes(2)
    BY <2>2, <2>6, <2>7, ReachOf
  <2>14. \A i \in 1 .. 2 :
          /\ PartsFit(heap', New(i)) /\ OfFits(heap', New(i))
          /\ rs[i].kind \notin {"pageContext", "parser", "writer", "font", "copying"}
          /\ rs[i].of \in NewOnes(2) \cup {None} \/ heap'[rs[i].of].kind = "writer"
          /\ \A w \in wrappers : w.owns /\ w.class = "PDFStream" => w.native \notin rs[i].parts
    BY <2>2, <2>3, <2>6, <2>8, <2>9, <2>10
  <2>15. wrappers' = wrappers \cup {x} /\ x.class # "PDFWriter"
    BY <1>1, <1>2, <2>11 DEF x
  <2>. QED  BY <1>2, <2>3, <2>4, <2>5, <2>11, <2>12, <2>13, <2>14, <2>15, GivesNew
<1>. QED  BY <1>3, <1>4 DEF NewFile

\* An object and then others.
LEMMA Joined ==
    ASSUME NEW a \in Record, NEW k \in Nat, NEW f \in [1 .. k -> Record]
    PROVE  /\ DOMAIN (<<a>> \o f) = 1 .. (k + 1)
           /\ (<<a>> \o f)[1] = a
           /\ \A i \in 1 .. k : (<<a>> \o f)[1 + i] = f[i]
<1>1. f \in Seq(Record) /\ Len(f) = k /\ <<a>> \in Seq(Record) /\ Len(<<a>>) = 1
  OBVIOUS
<1>2. <<a>> \o f \in Seq(Record) /\ Len(<<a>> \o f) = 1 + k
  BY <1>1
<1>3. /\ (<<a>> \o f)[1] = a
      /\ \A i \in 1 .. k : (<<a>> \o f)[1 + i] = f[i]
  BY <1>1
<1>. QED  BY <1>2, <1>3

LEMMA FormMade ==
    ASSUME DInv, ~thrown, CreateFormXObject
    PROVE  DInv'
<1>1. "FormXObject" \in Classes /\ OwnerOf("FormXObject", "form")
  BY DEF Classes, OwnerOf
<1>2. /\ Room(3) /\ wrappers' = wrappers \cup {OwnedBy("FormXObject", New(1))} /\ busy' = {New(1)}
      /\ UNCHANGED <<registered, session, event>> /\ thrown' \in BOOLEAN /\ event = NoEvent
  BY DEF CreateFormXObject, OwnedBy, DInv, IsFree
<1>3. WriterHeld(wrappers) /\ dangling' = FALSE
  BY WhenRunning, WriterIsSafe, Untouched DEF CreateFormXObject, IsFree
<1>. DEFINE a == Native("form", None, {New(2), New(3)})
            b == Native("formContext", New(1), {})
            c == Native("stream", New(1), {})
            x == OwnedBy("FormXObject", New(1))
<1>4. New(1) \in Nat \ {None} /\ New(2) \in Nat \ {None} /\ New(3) \in Nat \ {None}
  BY <1>2, NewAddresses DEF Unused, None
<1>5. /\ a \in Record /\ a.kind = "form" /\ a.of = None /\ a.parts = {New(2), New(3)}
      /\ b \in Record /\ b.kind = "formContext" /\ b.of = New(1) /\ b.parts = {}
      /\ c \in Record /\ c.kind = "stream" /\ c.of = New(1) /\ c.parts = {}
  BY <1>4, NativeIs DEF Kinds, None
<1>6. heap' = Created(heap, <<a>> \o <<b, c>>)
  BY DEF CreateFormXObject, FormParts
<1>. HIDE DEF a, b, c
<1>. DEFINE rs == <<a>> \o <<b, c>>
<1>7. heap' = Created(heap, rs)
  BY <1>6
<1>8. /\ DOMAIN rs = 1 .. 3 /\ rs[1] = a /\ rs[2] = b /\ rs[3] = c
      /\ 1 \in 1 .. 3 /\ 2 \in 1 .. 3 /\ 3 \in 1 .. 3
      /\ \A i \in 1 .. 3 : i = 1 \/ i = 2 \/ i = 3
  <2>1. /\ <<b, c>> \in [1 .. 2 -> Record] /\ <<b, c>>[1] = b /\ <<b, c>>[2] = c
        /\ 2 \in Nat /\ 1 \in 1 .. 2 /\ 2 \in 1 .. 2 /\ 1 + 1 = 2 /\ 1 + 2 = 3 /\ 2 + 1 = 3
    BY <1>5
  <2>2. /\ DOMAIN rs = 1 .. 3 /\ rs[1] = a
        /\ \A i \in 1 .. 2 : rs[1 + i] = <<b, c>>[i]
    BY <1>5, <2>1, Joined
  <2>3. rs[1 + 1] = b /\ rs[1 + 2] = c
    BY <2>1, <2>2
  <2>. QED  BY <2>1, <2>2, <2>3
<1>. HIDE DEF rs
<1>9. \A i \in 1 .. 3 : rs[i] \in Record
  BY <1>5, <1>8
<1>10. /\ Grows(heap, heap', NewOnes(3)) /\ IsFresh(heap, wrappers, NewOnes(3))
       /\ heap'[New(1)] = a /\ heap'[New(2)] = b /\ heap'[New(3)] = c
       /\ New(1) \in NewOnes(3) /\ New(2) \in NewOnes(3) /\ New(3) \in NewOnes(3)
       /\ New(1) # New(2) /\ New(1) # New(3) /\ New(2) # New(3)
  BY <1>2, <1>7, <1>8, <1>9, Made
<1>11. /\ New(1) \in DOMAIN heap' /\ New(2) \in DOMAIN heap' /\ New(3) \in DOMAIN heap'
       /\ None \notin DOMAIN heap'
  BY <1>4, <1>10 DEF Grows, IsFresh, DInv, IsHeap, None
<1>12. PartsFit(heap', New(1)) /\ PartsFit(heap', New(2)) /\ PartsFit(heap', New(3))
  BY <1>5, <1>10, <1>11 DEF PartsFit, HasPart, Deletable, Lent, Childless
<1>13. OfFits(heap', New(1)) /\ OfFits(heap', New(2)) /\ OfFits(heap', New(3))
  BY <1>5, <1>10, <1>11 DEF OfFits, PointsBack, Rootless
<1>14. \A w \in wrappers : w.native \notin {New(2), New(3)}
  BY <1>10 DEF IsFresh
<1>15. /\ x \in Wrapper /\ x.class = "FormXObject" /\ x.native = New(1) /\ x.owns /\ x.held
       /\ x.also = None
  BY <1>1, <1>4, OwnedByIs
<1>. HIDE DEF x
<1>16. OwnerFits(heap', x)
  BY <1>1, <1>5, <1>10, <1>11, <1>15 DEF OwnerFits, WithProxy
<1>17. \A p \in ReachIn(heap', New(1)) : p \in NewOnes(3)
  BY <1>5, <1>10, <1>11, ReachOf
<1>18. \A i \in 1 .. 3 :
          /\ PartsFit(heap', New(i)) /\ OfFits(heap', New(i))
          /\ rs[i].kind \notin {"pageContext", "parser", "writer", "font", "copying"}
          /\ rs[i].of \in NewOnes(3) \cup {None} \/ heap'[rs[i].of].kind = "writer"
          /\ \A w \in wrappers : w.owns /\ w.class = "PDFStream" => w.native \notin rs[i].parts
  BY <1>5, <1>8, <1>10, <1>12, <1>13, <1>14
<1>19. wrappers' = wrappers \cup {x} /\ x.class # "PDFWriter"
  BY <1>2, <1>15 DEF x
<1>20. IsBusy(heap', wrappers', event, busy')
  <2>1. WriterHeld(wrappers')
    BY <1>3, <1>19 DEF WriterHeld
  <2>2. HasForm(heap', wrappers', New(1))
    BY <1>5, <1>10, <1>11, <1>15, <1>19 DEF HasForm
  <2>. QED  BY <1>2, <1>5, <1>10, <1>11, <2>1, <2>2 DEF IsBusy
<1>. QED  BY <1>2, <1>3, <1>7, <1>8, <1>9, <1>15, <1>16, <1>17, <1>18, <1>19, <1>20, GivesNew

-----------------------------------------------------------------------------
(***************************************************************************)
(* Calls that start dictionaries, which the program is handed.             *)
(***************************************************************************)
LEMMA DictionarySound ==
    ASSUME NEW h, NEW ws, NEW s, NEW reg, NEW x \in Wrapper, Sound(h, ws, s, reg),
           ~x.owns, x.held, x.class = "DictionaryContext",
           h[x.native].kind = "dictionary", Safe(h, ws, x.native),
           \A w \in ws : w.native # x.native
    PROVE  /\ Sound(h, ws \cup {x}, s, reg) /\ BusyStill(h, ws, h, ws \cup {x})
           /\ \A e : IsEvent(h, ws, e) /\ x.native \notin Pending(e) => IsEvent(h, ws \cup {x}, e)
<1>1. IsHeap(h) /\ IsWrapped(h, ws) /\ IsSession(h, ws, s, reg)
  BY DEF Sound
<1>2. BorrowerFits(h, ws, x)
  BY DEF BorrowerFits, BorrowerOf, Safe
<1>3. IsWrapped(h, ws \cup {x})
  BY <1>1, <1>2, AddsBorrowers
<1>4. SameWriters(ws, ws \cup {x})
  BY DEF SameWriters
<1>5. IsSession(h, ws \cup {x}, s, reg)
  BY <1>1, <1>4, SessionStays
<1>6. BusyStill(h, ws, h, ws \cup {x})
  BY BusyStays DEF BusyStill
<1>7. \A e : IsEvent(h, ws, e) /\ x.native \notin Pending(e) => IsEvent(h, ws \cup {x}, e)
  BY EventStays
<1>. QED  BY <1>1, <1>3, <1>5, <1>6, <1>7 DEF Sound

LEMMA MadeFrom ==
    ASSUME NEW k \in 1 .. 3, Room(k), NEW h, NEW vs, IsHeap(h), DOMAIN h \subseteq Live,
           IsFresh(h, vs, NewOnes(k)), NEW rs, DOMAIN rs = 1 .. k,
           \A i \in 1 .. k : rs[i] \in Record
    PROVE  /\ Grows(h, Created(h, rs), NewOnes(k))
           /\ \A i \in 1 .. k : /\ New(i) \in Nat \ {None} /\ Created(h, rs)[New(i)] = rs[i]
                                /\ New(i) \in NewOnes(k)
           /\ \A i, j \in 1 .. k : New(i) = New(j) => i = j
<1>. DEFINE g == Created(h, rs)
<1>1. /\ g = [n \in DOMAIN g |-> g[n]] /\ DOMAIN g = DOMAIN h \cup NewOnes(k)
      /\ \A n \in DOMAIN h : g[n] = h[n]
      /\ \A i \in 1 .. k : g[New(i)] = rs[i]
  <2>1. IsMade(h, g, rs, k)
    BY CreatedIs
  <2>. QED  BY <2>1 DEF IsMade
<1>2. \A i, j \in 1 .. k : New(i) = New(j) => i = j
  BY NewAddresses
<1>3. \A i \in 1 .. k : New(i) \in NewOnes(k) /\ New(i) \in Nat \ {None}
  BY DEF NewOnes, IsFresh, None
<1>. HIDE DEF g
<1>4. \A n \in DOMAIN g : g[n] \in Record
  <2>. SUFFICES ASSUME NEW n \in DOMAIN g
                PROVE  g[n] \in Record
    OBVIOUS
  <2>1. CASE n \in DOMAIN h
    BY <1>1, <2>1 DEF IsHeap
  <2>2. CASE n \in NewOnes(k)
    BY <1>1, <2>2 DEF NewOnes
  <2>. QED  BY <1>1, <2>1, <2>2
<1>5. Grows(h, g, NewOnes(k))
  BY <1>1, <1>4 DEF Grows
<1>. QED  BY <1>1, <1>2, <1>3, <1>5 DEF g

ArePlain(h, vs, g, rs, k) ==
    /\ \A i \in 1 .. k : /\ g[New(i)] = rs[i] /\ New(i) \in DOMAIN g /\ New(i) \notin DOMAIN h
                         /\ New(i) \in Nat \ {None} /\ Safe(g, vs, New(i))
                         /\ \A w \in vs : w.native # New(i)
    /\ \A i, j \in 1 .. k : New(i) = New(j) => i = j

\* Objects that point to nothing and are pointed to by nothing.
LEMMA PlainOnes ==
    ASSUME NEW k \in 1 .. 3, Room(k), NEW h, NEW vs, NEW s, NEW reg,
           Sound(h, vs, s, reg), DOMAIN h \subseteq Live,
           IsFresh(h, vs, NewOnes(k)), NEW rs, DOMAIN rs = 1 .. k,
           \A i \in 1 .. k : /\ rs[i] \in Record /\ rs[i].of = None /\ rs[i].parts = {}
                             /\ rs[i].kind \in {"dictionary", "page", "form"},
           NEW g, g = Created(h, rs)
    PROVE  /\ Sound(g, vs, s, reg) /\ SafeStays(h, vs, g, vs) /\ BusyStill(h, vs, g, vs)
           /\ \A e : IsEvent(h, vs, e) => IsEvent(g, vs, e)
           /\ ArePlain(h, vs, g, rs, k)
<1>1. /\ Grows(h, g, NewOnes(k))
      /\ \A i \in 1 .. k : New(i) \in Nat \ {None} /\ g[New(i)] = rs[i] /\ New(i) \in NewOnes(k)
      /\ \A i, j \in 1 .. k : New(i) = New(j) => i = j
      /\ IsHeap(h) /\ IsWrapped(h, vs)
  <2>1. IsHeap(h) /\ IsWrapped(h, vs) /\ \A i \in 1 .. k : rs[i] \in Record
    BY DEF Sound
  <2>2. /\ Grows(h, Created(h, rs), NewOnes(k))
        /\ \A i \in 1 .. k : /\ New(i) \in Nat \ {None} /\ Created(h, rs)[New(i)] = rs[i]
                             /\ New(i) \in NewOnes(k)
        /\ \A i, j \in 1 .. k : New(i) = New(j) => i = j
    BY <2>1, MadeFrom
  <2>. QED  BY <2>1, <2>2, Zenon
<1>2. None \notin DOMAIN g
  BY <1>1 DEF Grows, IsHeap, IsFresh, None
<1>3. ASSUME NEW i \in 1 .. k
      PROVE  /\ PartsFit(g, New(i)) /\ OfFits(g, New(i)) /\ New(i) \in DOMAIN g
             /\ New(i) \notin DOMAIN h
             /\ g[New(i)].kind \notin {"pageContext", "parser", "writer", "font", "copying"}
             /\ g[New(i)].parts = {} /\ g[New(i)].of = None
             /\ \A w \in vs : w.native # New(i)
             /\ ReachIn(g, New(i)) \subseteq NewOnes(k)
  <2>1. /\ g[New(i)].of = None /\ g[New(i)].parts = {} /\ New(i) \in DOMAIN g
        /\ g[New(i)].kind \in {"dictionary", "page", "form"}
    BY <1>1 DEF Grows
  <2>2. PartsFit(g, New(i)) /\ OfFits(g, New(i))
    BY <1>2, <2>1 DEF PartsFit, OfFits
  <2>3. ReachIn(g, New(i)) \subseteq NewOnes(k)
    BY <1>1, <2>1, ReachOf
  <2>. QED  BY <1>1, <2>1, <2>2, <2>3 DEF IsFresh
<1>4. ASSUME NEW n \in NewOnes(k)
      PROVE  /\ PartsFit(g, n) /\ OfFits(g, n)
             /\ g[n].kind \notin {"pageContext", "parser", "writer", "font", "copying"}
             /\ g[n].of \in NewOnes(k) \cup {None}
             /\ \A w \in vs : w.owns /\ w.class = "PDFStream" => w.native \notin g[n].parts
  <2>1. PICK i \in 1 .. k : n = New(i)
    BY DEF NewOnes
  <2>. QED  BY <1>3, <2>1
<1>5. /\ Sound(g, vs, s, reg) /\ SafeStays(h, vs, g, vs) /\ BusyStill(h, vs, g, vs)
      /\ \A e : IsEvent(h, vs, e) => IsEvent(g, vs, e)
  BY <1>1, <1>4, GrowsSound
<1>6. \A i \in 1 .. k : Safe(g, vs, New(i))
  BY <1>1, <1>3, NewIsSafe
<1>7. ArePlain(h, vs, g, rs, k)
  BY <1>1, <1>3, <1>6 DEF ArePlain
<1>. QED  BY <1>5, <1>7

LEMMA HandedIs ==
    ASSUME NEW d \in Nat
    PROVE  /\ Handed(d) \in Wrapper /\ ~Handed(d).owns /\ Handed(d).held
           /\ Handed(d).class = "DictionaryContext" /\ Handed(d).native = d
BY DEF Handed, Wrap, Wrapper, Classes

\* What a call waits with, of new objects.
IsAbout(e, rs, k) ==
    /\ e \in [call : {"none", "write", "page", "modify", "end"}, left : Seq(Nat), frees : SUBSET Nat,
              gives : SUBSET Wrapper]
    /\ \A i \in DOMAIN e.left : \E l \in 1 .. k : e.left[i] = New(l) /\ rs[l].kind = "dictionary"
    /\ \A i, l \in DOMAIN e.left : e.left[i] = e.left[l] => i = l
    /\ \A n \in e.frees : \E l \in 1 .. k : n = New(l) /\ rs[l].kind \in {"page", "form"}
    /\ \A x \in e.gives : \E l \in 1 .. k :
          x = Wrap("FormXObject", New(l), TRUE, None) /\ rs[l].kind = "form"
    /\ e.gives # {} => e.frees = {}
    /\ \A x, y \in e.gives : x = y

\* The listener is handed one of them.
LEMMA HandsNew ==
    ASSUME NEW k \in 1 .. 3, Room(k), NEW h, NEW vs, NEW s, NEW reg,
           Sound(h, vs, s, reg), DOMAIN h \subseteq Live,
           IsFresh(h, vs, NewOnes(k)), NEW rs, DOMAIN rs = 1 .. k,
           \A i \in 1 .. k : /\ rs[i] \in Record /\ rs[i].of = None /\ rs[i].parts = {}
                             /\ rs[i].kind \in {"dictionary", "page", "form"},
           NEW g, g = Created(h, rs),
           NEW j \in 1 .. k, rs[j].kind = "dictionary", NEW e, IsAbout(e, rs, k)
    PROVE  /\ Sound(g, vs \cup {Handed(New(j))}, s, reg)
           /\ IsEvent(g, vs \cup {Handed(New(j))}, e)
<1>. DEFINE x == Handed(New(j))
<1>1. Sound(g, vs, s, reg) /\ ArePlain(h, vs, g, rs, k)
  BY PlainOnes
<1>2. x \in Wrapper /\ ~x.owns /\ x.held /\ x.class = "DictionaryContext" /\ x.native = New(j)
  BY <1>1, HandedIs DEF ArePlain
<1>3. /\ \A w \in vs : w.native # x.native
      /\ g[x.native].kind = "dictionary" /\ Safe(g, vs, x.native)
  BY <1>1, <1>2 DEF ArePlain
<1>4. x = Handed(New(j))
  OBVIOUS
<1>. HIDE DEF x
<1>5. Sound(g, vs \cup {x}, s, reg)
  BY <1>1, <1>2, <1>3, DictionarySound
<1>6. \A i \in DOMAIN e.left : e.left[i] \in DOMAIN g /\ g[e.left[i]].kind = "dictionary"
  BY <1>1 DEF IsAbout, ArePlain
<1>7. \A w \in vs \cup {x} : \A i \in DOMAIN e.left : w.native = e.left[i] => w = Handed(w.native)
  BY <1>1, <1>2, <1>4 DEF IsAbout, ArePlain
<1>8. ASSUME NEW y \in e.gives
      PROVE  /\ y = Wrap("FormXObject", y.native, TRUE, None) /\ g[y.native].kind = "form"
             /\ \E l \in 1 .. k : y.native = New(l) /\ rs[l].kind = "form"
  <2>1. PICK l \in 1 .. k : y = Wrap("FormXObject", New(l), TRUE, None) /\ rs[l].kind = "form"
    BY DEF IsAbout
  <2>2. y.native = New(l)
    BY <2>1 DEF Wrap
  <2>. QED  BY <1>1, <2>1, <2>2 DEF ArePlain
<1>9. ASSUME NEW n \in e.frees \cup {y.native : y \in e.gives}
      PROVE  /\ n \in DOMAIN g /\ g[n].kind \in {"page", "form"}
             /\ g[n].of = None /\ g[n].parts = {}
             /\ \A w \in vs \cup {x} : w.native # n
             /\ \A m \in DOMAIN g : g[m].of # n
  <2>1. PICK l \in 1 .. k : n = New(l) /\ rs[l].kind \in {"page", "form"}
    <3>1. CASE n \in e.frees
      BY <3>1 DEF IsAbout
    <3>2. CASE n \in {y.native : y \in e.gives}
      <4>1. PICK y \in e.gives : n = y.native
        BY <3>2
      <4>. QED  BY <1>8, <4>1
    <3>. QED  BY <3>1, <3>2
  <2>2. n # New(j)
    BY <1>1, <2>1 DEF ArePlain
  <2>3. ASSUME NEW m \in DOMAIN g
        PROVE  g[m].of # n
    <3>0. IsMade(h, g, rs, k)
      BY CreatedIs
    <3>1. DOMAIN g = DOMAIN h \cup NewOnes(k) /\ \A i \in DOMAIN h : g[i] = h[i]
      BY <3>0 DEF IsMade
    <3>2. n \in NewOnes(k) /\ n # None
      BY <1>1, <2>1 DEF ArePlain, NewOnes
    <3>3. CASE m \in DOMAIN h
      BY <3>1, <3>2, <3>3 DEF IsFresh
    <3>4. CASE m \in NewOnes(k)
      <4>1. PICK i \in 1 .. k : m = New(i)
        BY <3>4 DEF NewOnes
      <4>. QED  BY <1>1, <3>2, <4>1 DEF ArePlain
    <3>. QED  BY <3>1, <3>3, <3>4
  <2>. QED  BY <1>1, <1>2, <2>1, <2>2, <2>3 DEF ArePlain
<1>10. e.frees \cap {y.native : y \in e.gives} = {}
  BY DEF IsAbout
<1>11. IsEvent(g, vs \cup {x}, e)
  BY <1>6, <1>7, <1>8, <1>9, <1>10 DEF IsEvent, IsAbout
<1>. QED  BY <1>4, <1>5, <1>11

LEMMA LeftIs ==
    ASSUME NEW first \in 1 .. 2, NEW k \in 1 .. 2, Room(first + k - 1)
    PROVE  /\ Left(first, k) \in Seq(Nat)
           /\ \A i \in DOMAIN Left(first, k) :
                 \E l \in 1 .. (first + k - 1) : Left(first, k)[i] = New(l) /\ l >= first
           /\ \A i, l \in DOMAIN Left(first, k) : Left(first, k)[i] = Left(first, k)[l] => i = l
<1>1. first + k - 1 \in 1 .. 3
  OBVIOUS
<1>2. /\ \A i \in 1 .. (first + k - 1) : New(i) \in Nat
      /\ \A i, j \in 1 .. (first + k - 1) : New(i) = New(j) => i = j
  BY <1>1, NewAddresses DEF Unused
<1>3. CASE k = 1
  <2>1. Left(first, k) = <<New(first)>> /\ first \in 1 .. (first + k - 1) /\ New(first) \in Nat
    BY <1>2, <1>3 DEF Left
  <2>. QED  BY <2>1
<1>4. CASE k = 2
  <2>1. Left(first, k) = <<New(first + 1), New(first)>>
    BY <1>4 DEF Left
  <2>2. /\ first \in 1 .. (first + k - 1) /\ first + 1 \in 1 .. (first + k - 1)
        /\ first + 1 # first /\ first + 1 >= first
    BY <1>4
  <2>3. New(first) \in Nat /\ New(first + 1) \in Nat /\ New(first) # New(first + 1)
    BY <1>2, <2>2
  <2>4. /\ DOMAIN Left(first, k) = 1 .. 2 /\ Left(first, k) \in Seq(Nat)
        /\ Left(first, k)[1] = New(first + 1) /\ Left(first, k)[2] = New(first)
        /\ \A i \in 1 .. 2 : i = 1 \/ i = 2
    BY <2>1, <2>3
  <2>. HIDE DEF Left
  <2>. QED  BY <2>2, <2>3, <2>4
<1>. QED  BY <1>3, <1>4

LEMMA DictionariesAre ==
    ASSUME NEW k \in 1 .. 2
    PROVE  /\ Dictionaries(k) \in [1 .. k -> Record]
           /\ DOMAIN Dictionaries(k) = 1 .. k
           /\ \A i \in 1 .. k : /\ Dictionaries(k)[i] \in Record /\ Dictionaries(k)[i].of = None
                                /\ Dictionaries(k)[i].parts = {}
                                /\ Dictionaries(k)[i].kind = "dictionary"
<1>1. /\ Native("dictionary", None, {}) \in Record /\ Native("dictionary", None, {}).of = None
      /\ Native("dictionary", None, {}).parts = {} /\ Native("dictionary", None, {}).kind = "dictionary"
  BY NativeIs DEF Kinds, None
<1>. QED  BY <1>1 DEF Dictionaries

LEMMA FreshStays ==
    ASSUME NEW h, NEW ws, NEW N, IsFresh(h, ws, N), NEW g, NEW vs,
           DOMAIN g \subseteq DOMAIN h, None \notin DOMAIN h,
           \A n \in DOMAIN g : g[n].of \in {h[n].of, None} /\ g[n].parts \subseteq h[n].parts,
           \A w \in vs : /\ w.native = None \/ \E v \in ws : w.native \in {v.native, v.also}
                         /\ w.also = None \/ \E v \in ws : w.also \in {v.native, v.also}
    PROVE  IsFresh(g, vs, N)
<1>1. None \notin N
  BY DEF IsFresh, None
<1>. QED  BY <1>1 DEF IsFresh

\* Wrappers that own nothing are forgotten, and objects freed that are no part of the session.
LEMMA ForgetsSound ==
    ASSUME NEW h, NEW ws, NEW s, NEW reg, Sound(h, ws, s, reg), NEW S, \A x \in S : x \in ws => ~x.owns
    PROVE  /\ Sound(h, ws \ S, s, reg) /\ BusyStill(h, ws, h, ws \ S)
           /\ \A e : IsEvent(h, ws, e) => IsEvent(h, ws \ S, e)
           /\ WriterHeld(ws) => WriterHeld(ws \ S)
<1>1. IsHeap(h) /\ IsWrapped(h, ws) /\ IsSession(h, ws, s, reg)
  BY DEF Sound
<1>2. IsWrapped(h, ws \ S)
  BY <1>1, Forgets
<1>3. SameWriters(ws, ws \ S)
  BY <1>1, OwnersOfOne
<1>4. IsSession(h, ws \ S, s, reg)
  BY <1>1, <1>3, SessionStays
<1>5. BusyStill(h, ws, h, ws \ S)
  <2>1. ASSUME NEW e, NEW b, IsBusy(h, ws, e, b)
        PROVE  IsBusy(h, ws \ S, e, b)
    <3>1. \A w \in ws : w.class = "PDFWriter" => w \in ws \ S
      BY <1>3 DEF SameWriters
    <3>2. \A w \in ws : w.owns => w \in ws \ S
      OBVIOUS
    <3>. QED  BY <2>1, <3>1, <3>2, BusyStays
  <2>. QED  BY <2>1 DEF BusyStill
<1>6. \A e : IsEvent(h, ws, e) => IsEvent(h, ws \ S, e)
  BY EventStays
<1>. QED  BY <1>1, <1>2, <1>3, <1>4, <1>5, <1>6 DEF Sound, WriterHeld, SameWriters

LEMMA AboutAreLent == \A N : \A x \in About(N) : x \in wrappers /\ ~x.owns /\ x.native \in N
BY DEF About

LEMMA WritingWhole ==
    ASSUME DInv, ~thrown, NEW kind \in {"form", "page"}, NEW k \in 1 .. 2,
           NEW gives \in SUBSET {"FormXObject"}, gives # {} => kind = "form",
           WritesWhole(kind, k, gives), NEW used, Touches(used), used \subseteq Live
    PROVE  DInv'
<1>1. /\ Room(1 + k) /\ busy = {} /\ event = NoEvent /\ UNCHANGED <<registered, session>>
      /\ WriterHeld(wrappers) /\ dangling' = FALSE
  BY WhenRunning, Untouched DEF WritesWhole, IsFree
<1>. DEFINE e == Called(IF kind = "page" THEN "page" ELSE "write", Left(2, k),
                        IF gives = {} THEN {New(1)} ELSE {},
                        {Wrap(class, New(1), TRUE, None) : class \in gives})
<1>2. PICK works \in Outcomes :
          /\ Throws(~works)
          /\ IF works
             THEN /\ heap' = Created(heap, <<Native(kind, None, {})>> \o Dictionaries(k))
                  /\ wrappers' = wrappers \cup {Handed(New(1 + k))}
                  /\ event' = e
                  /\ busy' = {Listening}
             ELSE UNCHANGED <<heap, wrappers, event, busy>>
  BY DEF WritesWhole
<1>3. thrown' \in BOOLEAN
  BY <1>2, ThrownIs
<1>4. CASE ~works
  <2>1. Stays(used)
    BY <1>1, <1>2, <1>3, <1>4, SessionIs DEF Stays
  <2>. QED  BY <2>1, StaysWhole
<1>5. CASE works
  <2>. DEFINE a == Native(kind, None, {})
              rs == <<a>> \o Dictionaries(k)
  <2>1. a \in Record /\ a.kind = kind /\ a.of = None /\ a.parts = {}
    BY NativeIs DEF Kinds, None
  <2>. HIDE DEF a
  <2>2. /\ DOMAIN rs = 1 .. (k + 1) /\ rs[1] = a
        /\ \A i \in 1 .. k : rs[1 + i] = Dictionaries(k)[i]
    <3>. DEFINE f == Dictionaries(k)
    <3>1. f \in [1 .. k -> Record]
      BY DictionariesAre, Zenon
    <3>2. k \in Nat
      OBVIOUS
    <3>. HIDE DEF f, rs
    <3>3. /\ DOMAIN (<<a>> \o f) = 1 .. (k + 1) /\ (<<a>> \o f)[1] = a
          /\ \A i \in 1 .. k : (<<a>> \o f)[1 + i] = f[i]
      BY <2>1, <3>1, <3>2, Joined
    <3>. QED  BY <3>3 DEF f, rs
  <2>3. heap' = Created(heap, rs)
    BY <1>2, <1>5 DEF a
  <2>. HIDE DEF rs
  <2>4. ASSUME NEW i \in 1 .. (k + 1)
        PROVE  /\ rs[i] \in Record /\ rs[i].of = None /\ rs[i].parts = {}
               /\ rs[i].kind \in {"dictionary", "page", "form"}
               /\ i >= 2 => rs[i].kind = "dictionary"
    <3>1. CASE i = 1
      BY <2>1, <2>2, <3>1
    <3>2. CASE i # 1
      <4>1. i - 1 \in 1 .. k /\ 1 + (i - 1) = i
        BY <3>2
      <4>2. rs[i] = Dictionaries(k)[i - 1]
        BY <2>2, <4>1
      <4>. QED  BY <4>1, <4>2, DictionariesAre
    <3>. QED  BY <3>1, <3>2
  <2>5. k + 1 \in 1 .. 3 /\ 1 + k = k + 1 /\ k + 1 \in 1 .. (k + 1) /\ k + 1 >= 2 /\ 1 \in 1 .. (k + 1)
        /\ 2 + k - 1 = k + 1
    OBVIOUS
  <2>6. IsFresh(heap, wrappers, NewOnes(k + 1))
    BY <1>1, <2>5, NewAreFresh DEF NewOnes
  <2>7. IsAbout(e, rs, k + 1)
    <3>1. /\ Left(2, k) \in Seq(Nat)
          /\ \A i \in DOMAIN Left(2, k) : \E l \in 1 .. (k + 1) : Left(2, k)[i] = New(l) /\ l >= 2
          /\ \A i, l \in DOMAIN Left(2, k) : Left(2, k)[i] = Left(2, k)[l] => i = l
      BY <1>1, <2>5, LeftIs
    <3>2. New(1) \in Nat
      BY <1>1, <2>5, NewAddresses DEF Unused
    <3>3. \A class \in gives : Wrap(class, New(1), TRUE, None) \in Wrapper /\ class = "FormXObject"
      BY <3>2 DEF Wrap, Wrapper, Classes, None
    <3>4. /\ e.call \in {"write", "page"} /\ e.left = Left(2, k) /\ e.frees = IF gives = {} THEN {New(1)} ELSE {}
          /\ e.gives = {Wrap(class, New(1), TRUE, None) : class \in gives}
          /\ e = [call |-> e.call, left |-> e.left, frees |-> e.frees, gives |-> e.gives]
      BY DEF Called
    <3>. HIDE DEF e
    <3>5. e.frees \in SUBSET Nat /\ e.gives \in SUBSET Wrapper
      BY <3>2, <3>3, <3>4
    <3>6. e \in [call : {"none", "write", "page", "modify", "end"}, left : Seq(Nat), frees : SUBSET Nat,
                 gives : SUBSET Wrapper]
      BY <3>1, <3>4, <3>5
    <3>7. \A i \in DOMAIN e.left : \E l \in 1 .. (k + 1) : e.left[i] = New(l) /\ rs[l].kind = "dictionary"
      BY <2>4, <3>1, <3>4
    <3>8. \A n \in e.frees : \E l \in 1 .. (k + 1) : n = New(l) /\ rs[l].kind \in {"page", "form"}
      BY <2>1, <2>2, <2>5, <3>4
    <3>9. \A x \in e.gives : \E l \in 1 .. (k + 1) :
             x = Wrap("FormXObject", New(l), TRUE, None) /\ rs[l].kind = "form"
      BY <2>1, <2>2, <2>5, <3>3, <3>4
    <3>10. (e.gives # {} => e.frees = {}) /\ \A x, y \in e.gives : x = y
      BY <3>3, <3>4
    <3>. QED  BY <3>1, <3>4, <3>6, <3>7, <3>8, <3>9, <3>10 DEF IsAbout
  <2>8. Sound(heap, wrappers, session, registered)
    BY DEF DInv, Sound
  <2>. HIDE DEF e
  <2>9. /\ Sound(heap', wrappers \cup {Handed(New(k + 1))}, session, registered)
        /\ IsEvent(heap', wrappers \cup {Handed(New(k + 1))}, e)
    <3>1. DOMAIN heap \subseteq Live /\ rs[k + 1].kind = "dictionary"
      BY <2>4, <2>5 DEF Live
    <3>. QED  BY <1>1, <2>2, <2>3, <2>4, <2>5, <2>6, <2>7, <2>8, <3>1, HandsNew
  <2>10. wrappers' = wrappers \cup {Handed(New(k + 1))} /\ event' = e /\ busy' = {Listening}
    BY <1>2, <1>5, <2>5
  <2>11. IsBusy(heap', wrappers', event', busy')
    BY <1>1, <2>10, BusyWith DEF WriterHeld
  <2>. QED  BY <1>1, <1>3, <2>9, <2>10, <2>11 DEF DInv, Sound
<1>. QED  BY <1>4, <1>5

WritesObjectsWhole ==
    \/ CreateFormXObjectFromJPG \/ CreateFormXObjectFromPNG \/ CreateFormXObjectFromTIFF
    \/ CreateFormXObjectsFromPDF \/ AppendPDFPagesFromPDF
    \/ \E x \in Of("DocumentCopyingContext") : CreateFormXObjectFromPDFPage(x) \/ AppendPDFPageFromPDF(x)

WrittenWith ==
    \/ Touches(Writer)
    \/ \E x \in Of("DocumentCopyingContext") : Touches(Reach(x.native) \cup Writer)

LEMMA WritingObjectsWhole ==
    ASSUME DInv, ~thrown, WritesObjectsWhole
    PROVE  DInv'
<1>1. PICK kind \in {"form", "page"}, k \in 1 .. 2, gives \in SUBSET {"FormXObject"} :
         /\ gives # {} => kind = "form"
         /\ WritesWhole(kind, k, gives) /\ WrittenWith
  <2>1. CASE CreateFormXObjectFromJPG \/ CreateFormXObjectFromPNG \/ CreateFormXObjectFromTIFF
    <3>1. WritesWhole("form", 1, {"FormXObject"}) /\ WrittenWith
      BY <2>1 DEF WrittenWith, CreateFormXObjectFromJPG, CreateFormXObjectFromPNG, CreateFormXObjectFromTIFF
    <3>. QED  BY <3>1
  <2>2. CASE CreateFormXObjectsFromPDF
    <3>1. WritesWhole("form", 1, {}) /\ WrittenWith
      BY <2>2 DEF WrittenWith, CreateFormXObjectsFromPDF
    <3>. QED  BY <3>1
  <2>3. CASE AppendPDFPagesFromPDF
    <3>1. WritesWhole("page", 2, {}) /\ WrittenWith
      BY <2>3 DEF WrittenWith, AppendPDFPagesFromPDF
    <3>. QED  BY <3>1
  <2>4. CASE \E x \in Of("DocumentCopyingContext") : CreateFormXObjectFromPDFPage(x) \/ AppendPDFPageFromPDF(x)
    <3>1. PICK x \in Of("DocumentCopyingContext") : CreateFormXObjectFromPDFPage(x) \/ AppendPDFPageFromPDF(x)
      BY <2>4
    <3>2. \/ WritesWhole("form", 1, {})
          \/ WritesWhole("page", 2, {})
      BY <3>1 DEF CreateFormXObjectFromPDFPage, AppendPDFPageFromPDF
    <3>3. Touches(Reach(x.native) \cup Writer)
      BY <3>1 DEF CreateFormXObjectFromPDFPage, AppendPDFPageFromPDF, Copying
    <3>4. WrittenWith
      BY <3>3 DEF WrittenWith
    <3>5. CASE WritesWhole("form", 1, {})
      BY <3>4, <3>5
    <3>6. CASE WritesWhole("page", 2, {})
      BY <3>4, <3>6
    <3>. QED  BY <3>2, <3>5, <3>6
  <2>. QED  BY <2>1, <2>2, <2>3, <2>4 DEF WritesObjectsWhole
<1>2. Writer \subseteq Live /\ \A x \in Of("DocumentCopyingContext") : Reach(x.native) \subseteq Live
  BY <1>1, WhenRunning, WriterIsSafe, Used DEF WritesWhole, IsFree
<1>3. CASE Touches(Writer)
  BY <1>1, <1>2, <1>3, WritingWhole
<1>4. CASE \E x \in Of("DocumentCopyingContext") : Touches(Reach(x.native) \cup Writer)
  <2>1. PICK x \in Of("DocumentCopyingContext") : Touches(Reach(x.native) \cup Writer)
    BY <1>4
  <2>2. Reach(x.native) \cup Writer \subseteq Live
    BY <1>2
  <2>. QED  BY <1>1, <2>1, <2>2, WritingWhole
<1>. QED  BY <1>1, <1>3, <1>4 DEF WrittenWith

LEMMA OneDictionaryIs ==
    /\ DOMAIN <<Native("dictionary", None, {})>> = 1 .. 1
    /\ \A i \in 1 .. 1 : LET r == <<Native("dictionary", None, {})>>[i]
                         IN  /\ r \in Record /\ r.of = None /\ r.parts = {} /\ r.kind = "dictionary"
<1>1. /\ Native("dictionary", None, {}) \in Record /\ Native("dictionary", None, {}).of = None
      /\ Native("dictionary", None, {}).parts = {} /\ Native("dictionary", None, {}).kind = "dictionary"
  BY NativeIs DEF Kinds, None
<1>. QED  BY <1>1

LEMMA StartingDictionary ==
    ASSUME DInv, ~thrown, StartDictionary, UNCHANGED event
    PROVE  DInv'
<1>1. /\ Room(1) /\ heap' = Created(heap, <<Native("dictionary", None, {})>>)
      /\ UNCHANGED <<registered, session, thrown, busy>> /\ 1 \in 1 .. 3 /\ 1 \in 1 .. 1
  BY DEF StartDictionary
<1>2. dangling' = FALSE
  BY WhenRunning, WriterIsSafe, Untouched DEF StartDictionary, IsWriting
<1>. DEFINE rs == <<Native("dictionary", None, {})>>
            x == Wrap("DictionaryContext", New(1), FALSE, None)
<1>3. Sound(heap, wrappers, session, registered) /\ IsFresh(heap, wrappers, NewOnes(1))
      /\ DOMAIN heap \subseteq Live /\ IsEvent(heap, wrappers, event)
      /\ IsBusy(heap, wrappers, event, busy)
  BY <1>1, NewAreFresh DEF DInv, Sound, NewOnes, Live
<1>4. DOMAIN rs = 1 .. 1 /\ \A i \in 1 .. 1 : /\ rs[i] \in Record /\ rs[i].of = None /\ rs[i].parts = {}
                                             /\ rs[i].kind = "dictionary"
  BY OneDictionaryIs
<1>. HIDE DEF rs
<1>5. /\ Sound(heap', wrappers, session, registered) /\ BusyStill(heap, wrappers, heap', wrappers)
      /\ IsEvent(heap', wrappers, event) /\ ArePlain(heap, wrappers, heap', rs, 1)
  <2>1. heap' = Created(heap, rs)
    BY <1>1 DEF rs
  <2>. QED  BY <1>1, <1>3, <1>4, <2>1, PlainOnes
<1>6. /\ New(1) \in Nat /\ New(1) \notin DOMAIN heap /\ heap'[New(1)].kind = "dictionary"
      /\ Safe(heap', wrappers, New(1)) /\ \A w \in wrappers : w.native # New(1)
  BY <1>1, <1>4, <1>5 DEF ArePlain
<1>7. /\ x \in Wrapper /\ ~x.owns /\ x.held /\ x.class = "DictionaryContext" /\ x.native = New(1)
  BY <1>6 DEF Wrap, Wrapper, Classes, None
<1>8. wrappers' = wrappers \cup {x}
  BY DEF StartDictionary
<1>9. New(1) \notin Pending(event)
  BY <1>3, <1>6, PendingKinds
<1>. HIDE DEF x
<1>10. /\ Sound(heap', wrappers', session, registered) /\ BusyStill(heap', wrappers, heap', wrappers')
       /\ IsEvent(heap', wrappers', event)
  BY <1>5, <1>6, <1>7, <1>8, <1>9, DictionarySound
<1>11. IsBusy(heap', wrappers', event, busy)
  BY <1>3, <1>5, <1>10 DEF BusyStill
<1>. QED  BY <1>1, <1>2, <1>10, <1>11 DEF DInv, Sound

LEMMA Ending ==
    ASSUME DInv, ~thrown, End
    PROVE  DInv'
<1>1. WriterHeld(wrappers) /\ event = NoEvent
  BY WhenRunning DEF End, IsFree
<1>2. dangling' = FALSE /\ UNCHANGED <<registered, session, thrown>>
  BY <1>1, WriterIsSafe, Untouched DEF End
<1>3. CASE /\ Room(1)
           /\ heap' = Created(heap, <<Native("dictionary", None, {})>>)
           /\ wrappers' = wrappers \cup {Handed(New(1))}
           /\ event' = Called("end", <<New(1)>>, {}, {}) /\ busy' = {Listening}
  <2>. DEFINE rs == <<Native("dictionary", None, {})>>
              e == Called("end", <<New(1)>>, {}, {})
  <2>1. Sound(heap, wrappers, session, registered) /\ IsFresh(heap, wrappers, NewOnes(1))
        /\ DOMAIN heap \subseteq Live /\ 1 \in 1 .. 3 /\ 1 \in 1 .. 1
    BY <1>3, NewAreFresh DEF DInv, Sound, NewOnes, Live
  <2>2. DOMAIN rs = 1 .. 1 /\ \A i \in 1 .. 1 : /\ rs[i] \in Record /\ rs[i].of = None /\ rs[i].parts = {}
                                               /\ rs[i].kind = "dictionary"
    BY OneDictionaryIs
  <2>. HIDE DEF rs
  <2>3. heap' = Created(heap, rs)
    BY <1>3 DEF rs
  <2>4. New(1) \in Nat
    BY <1>3, <2>1, NewAddresses DEF Unused
  <2>5. IsAbout(e, rs, 1)
    <3>1. /\ e.call = "end" /\ e.left = <<New(1)>> /\ e.frees = {} /\ e.gives = {}
          /\ e \in [call : {"none", "write", "page", "modify", "end"}, left : Seq(Nat), frees : SUBSET Nat,
                    gives : SUBSET Wrapper]
      BY <2>4 DEF Called
    <3>. HIDE DEF e
    <3>. QED  BY <2>2, <3>1 DEF IsAbout
  <2>. HIDE DEF e
  <2>6. Sound(heap', wrappers \cup {Handed(New(1))}, session, registered)
        /\ IsEvent(heap', wrappers \cup {Handed(New(1))}, e)
    BY <1>3, <2>1, <2>2, <2>3, <2>5, HandsNew
  <2>7. IsBusy(heap', wrappers \cup {Handed(New(1))}, e, {Listening})
    BY <1>1, BusyWith DEF WriterHeld
  <2>. QED  BY <1>2, <1>3, <2>6, <2>7 DEF DInv, Sound, e
<1>4. CASE /\ event' = Called("end", <<>>, {}, {}) /\ busy' = {Waiting}
           /\ UNCHANGED <<heap, wrappers>>
  <2>1. IsEvent(heap, wrappers, Called("end", <<>>, {}, {}))
    BY DEF IsEvent, Called
  <2>2. IsBusy(heap, wrappers, Called("end", <<>>, {}, {}), {Waiting})
    BY <1>1, BusyWith
  <2>. QED  BY <1>2, <1>4, <2>1, <2>2 DEF DInv
<1>. QED  BY <1>3, <1>4 DEF End

\* The rest of a form: the dictionary of its resources, and what the program has of its parts.
LEMMA EndingForm ==
    ASSUME DInv, ~thrown, NEW w \in Of("FormXObject"), EndFormXObject(w)
    PROVE  DInv'
<1>1. /\ Room(1) /\ WriterHeld(wrappers) /\ Reach(w.native) \cup Writer \subseteq Live
      /\ UNCHANGED <<registered, session, thrown>> /\ busy' = {Listening}
      /\ heap' = Created(heap, Dictionaries(1)) /\ 1 \in 1 .. 3 /\ 1 \in 1 .. 1
  BY WhenRunning, WriterIsSafe, Used DEF EndFormXObject, IsFree
<1>2. dangling' = FALSE
  BY <1>1, Untouched DEF EndFormXObject
<1>. DEFINE vs == wrappers \ About(heap[w.native].parts)
            e == Called("write", Left(1, 1), {}, {})
            rs == Dictionaries(1)
<1>3. wrappers' = vs \cup {Handed(New(1))} /\ event' = e
  BY DEF EndFormXObject
<1>4. Sound(heap, wrappers, session, registered)
  BY DEF DInv, Sound
<1>5. Sound(heap, vs, session, registered) /\ WriterHeld(vs)
  BY <1>1, <1>4, AboutAreLent, ForgetsSound
<1>6. IsFresh(heap, vs, NewOnes(1))
  <2>1. IsFresh(heap, wrappers, NewOnes(1))
    BY <1>1, NewAreFresh DEF NewOnes
  <2>. QED  BY <2>1 DEF IsFresh
<1>. HIDE DEF vs
<1>7. DOMAIN rs = 1 .. 1 /\ \A i \in 1 .. 1 : /\ rs[i] \in Record /\ rs[i].of = None /\ rs[i].parts = {}
                                             /\ rs[i].kind = "dictionary"
  BY DictionariesAre
<1>. HIDE DEF rs
<1>8. IsAbout(e, rs, 1)
  <2>1. New(1) \in Nat
    BY <1>1, NewAddresses DEF Unused
  <2>2. e = Called("write", <<New(1)>>, {}, {})
    BY DEF Left
  <2>. HIDE DEF e
  <2>3. /\ e.call = "write" /\ e.left = <<New(1)>> /\ e.frees = {} /\ e.gives = {}
        /\ e \in [call : {"none", "write", "page", "modify", "end"}, left : Seq(Nat), frees : SUBSET Nat,
                  gives : SUBSET Wrapper]
    BY <2>1, <2>2 DEF Called
  <2>. HIDE DEF e
  <2>. QED  BY <1>7, <2>3 DEF IsAbout
<1>. HIDE DEF e
<1>9. /\ Sound(heap', vs \cup {Handed(New(1))}, session, registered)
      /\ IsEvent(heap', vs \cup {Handed(New(1))}, e)
  <2>1. heap' = Created(heap, rs) /\ DOMAIN heap \subseteq Live
    BY <1>1 DEF rs, Live
  <2>. QED  BY <1>1, <1>5, <1>6, <1>7, <1>8, <2>1, HandsNew
<1>10. IsBusy(heap', wrappers', event', busy')
  BY <1>1, <1>3, <1>5, BusyWith DEF WriterHeld
<1>. QED  BY <1>1, <1>2, <1>3, <1>9, <1>10 DEF DInv, Sound

-----------------------------------------------------------------------------
(***************************************************************************)
(* Calls that free objects.                                                *)
(***************************************************************************)
Passing == {"dictionary", "stream", "pageContext", "formContext", "fileStream", "page", "form"}

LEMMA FreesSound ==
    ASSUME NEW h, NEW g, NEW ws, NEW vs, NEW s, NEW reg, Sound(h, ws, s, reg), Shrinks(h, g),
           \A n \in DOMAIN h \ DOMAIN g : h[n].kind \in Passing,
           \A n \in DOMAIN g : h[n].kind \in {"copying", "writer"} => g[n] = h[n],
           vs \subseteq ws, \A w \in ws : w.owns => w \in vs,
           \A w \in vs : /\ w.native \in DOMAIN g
                         /\ w.held => ReachIn(g, w.native) \cap (DOMAIN h \ DOMAIN g) = {}
                         /\ w.owns /\ w.class = "PDFPage" => w.also = g[w.native].of
    PROVE  Sound(g, vs, s, reg)
<1>1. IsHeap(h) /\ IsWrapped(h, ws) /\ IsSession(h, ws, s, reg)
  BY DEF Sound
<1>2. \A n \in DOMAIN g : n \in DOMAIN h /\ g[n].kind = h[n].kind /\ g[n].parts \subseteq h[n].parts
  BY DEF Shrinks
<1>3. \A n \in DOMAIN h : h[n].kind \in {"parser", "copying", "writer", "font", "proxy"} => n \in DOMAIN g
  BY DEF Passing
<1>4. \A n \in DOMAIN g : g[n].kind \in {"parser", "writer", "font", "copying"} => g[n].of = h[n].of
  BY <1>2 DEF Shrinks
<1>5. ParsersOwned(g, vs)
  <2>1. \A n \in DOMAIN h : h[n].kind = "copying" => n \in DOMAIN g /\ g[n].parts = h[n].parts
    BY <1>3
  <2>. QED  BY <1>1, <2>1, ParsersStay
<1>6. ASSUME NEW w \in vs
      PROVE  /\ w.owns /\ w.class \in WithProxy /\ w.also # None => w.also \in DOMAIN g
             /\ w.held => ReachIn(g, w.native) \subseteq DOMAIN g
  <2>1. w.owns => OwnerFits(h, w)
    BY <1>1 DEF IsWrapped
  <2>2. w.held => ReachIn(h, w.native) \subseteq DOMAIN h
    BY <1>1 DEF IsWrapped, Safe
  <2>3. ReachIn(g, w.native) \subseteq ReachIn(h, w.native)
    BY <1>1, ShrinksReach
  <2>. QED  BY <1>3, <2>1, <2>2, <2>3 DEF OwnerFits
<1>7. IsHeap(g)
  BY <1>1, ShrinksHeap
<1>8. IsWrapped(g, vs)
  BY <1>1, <1>5, <1>6, ShrinksWrapped
<1>9. SameWriters(ws, vs)
  BY <1>1 DEF SameWriters, IsSession
<1>10. IsSession(g, vs, s, reg)
  <2>1. \A n \in DOMAIN h : h[n].kind \in {"writer", "copying"} =>
                                 n \in DOMAIN g /\ g[n].kind = h[n].kind /\ g[n].of = h[n].of
    BY <1>2, <1>3, <1>4
  <2>2. s.writer \in DOMAIN h => s.writer \in DOMAIN g /\ h[s.writer].parts \subseteq g[s.writer].parts
    <3>1. ASSUME s.writer \in DOMAIN h
          PROVE  h[s.writer].kind = "writer"
      <4>1. s.writer # None
        BY <1>1, <3>1 DEF IsHeap, None
      <4>2. PICK w \in ws : w.class = "PDFWriter" /\ w.native = s.writer
        BY <1>1, <4>1 DEF IsSession
      <4>3. w.owns
        BY <1>1, <4>2 DEF IsSession
      <4>. QED  BY <1>1, <4>2, <4>3 DEF IsWrapped, OwnerFits, OwnerOf
    <3>. QED  BY <1>3, <3>1
  <2>3. \A n \in DOMAIN g : g[n].kind \in {"writer", "font", "copying"} =>
                                 n \in DOMAIN h /\ g[n].kind = h[n].kind /\ g[n].of = h[n].of
    BY <1>2, <1>4
  <2>. QED  BY <1>1, <1>9, <2>1, <2>2, <2>3, SessionStays
<1>. QED  BY <1>7, <1>8, <1>10 DEF Sound

\* A dictionary is reached from nowhere else.
LEMMA DictionaryAlone ==
    ASSUME NEW h, IsHeap(h), NEW n \in DOMAIN h, NEW d \in ReachIn(h, n), h[d].kind = "dictionary",
           d \in DOMAIN h
    PROVE  n = d
<1>1. PartsFit(h, n) /\ OfFits(h, n) /\ \A p \in h[n].parts \cap DOMAIN h : PartsFit(h, p)
  BY DEF IsHeap
<1>2. d # h[n].of
  BY <1>1 DEF OfFits, PointsBack
<1>3. d \notin h[n].parts
  BY <1>1 DEF PartsFit, HasPart, Deletable, Lent
<1>4. \A q \in h[n].parts \cap DOMAIN h : d \notin h[q].parts
  BY <1>1 DEF PartsFit, HasPart, Deletable, Lent
<1>. QED  BY <1>2, <1>3, <1>4, ReachOf

\* A dictionary goes, and the wrappers of it.
LEMMA FreesDictionary ==
    ASSUME NEW h, NEW ws, NEW vs, NEW s, NEW reg, Sound(h, ws, s, reg),
           NEW d \in DOMAIN h, h[d].kind = "dictionary", vs = {w \in ws : w.native # d}
    PROVE  /\ Sound(Freed(h, {d}), vs, s, reg) /\ BusyStill(h, ws, Freed(h, {d}), vs)
           /\ \A e : IsEvent(h, ws, e) /\ d \notin Pending(e) => IsEvent(Freed(h, {d}), vs, e)
           /\ WriterHeld(ws) => WriterHeld(vs)
<1>. DEFINE g == Freed(h, {d})
<1>1. IsHeap(h) /\ IsWrapped(h, ws) /\ IsSession(h, ws, s, reg)
  BY DEF Sound
<1>2. DOMAIN g = DOMAIN h \ {d} /\ \A n \in DOMAIN h \ {d} : g[n] = h[n]
  BY FreedIs
<1>3. Shrinks(h, g)
  <2>1. \A n \in DOMAIN h : d \notin h[n].parts
    BY <1>1 DEF IsHeap, PartsFit, HasPart, Deletable, Lent
  <2>. QED  BY <1>1, <2>1, FreedShrinks
<1>. HIDE DEF g
<1>4. \A w \in ws : w.owns => w.native \in DOMAIN h /\ w.native # d
  BY <1>1 DEF IsWrapped, OwnerFits, OwnerOf
<1>5. \A w \in ws : w.native \in DOMAIN h
  BY <1>1 DEF IsWrapped, OwnerFits, BorrowerFits
<1>6. ASSUME NEW w \in vs
      PROVE  /\ w.native \in DOMAIN g
             /\ w.held => ReachIn(g, w.native) \cap (DOMAIN h \ DOMAIN g) = {}
             /\ w.owns /\ w.class = "PDFPage" => w.also = g[w.native].of
  <2>1. w.native \in DOMAIN g /\ g[w.native] = h[w.native] /\ w.native # d
    BY <1>2, <1>5
  <2>2. d \notin ReachIn(h, w.native)
    BY <1>1, <1>2, <2>1, DictionaryAlone
  <2>3. ReachIn(g, w.native) \subseteq ReachIn(h, w.native)
    BY <1>1, <1>3, <2>1, ShrinksReach
  <2>4. w.owns /\ w.class = "PDFPage" => w.also = h[w.native].of
    BY <1>1 DEF IsWrapped, OwnerFits
  <2>. QED  BY <1>2, <2>1, <2>2, <2>3, <2>4
<1>7. Sound(g, vs, s, reg)
  <2>1. \A n \in DOMAIN h \ DOMAIN g : h[n].kind \in Passing
    BY <1>2 DEF Passing
  <2>2. \A n \in DOMAIN g : h[n].kind \in {"copying", "writer"} => g[n] = h[n]
    BY <1>2
  <2>3. vs \subseteq ws /\ \A w \in ws : w.owns => w \in vs
    BY <1>4
  <2>. QED  BY <1>3, <1>6, <2>1, <2>2, <2>3, FreesSound
<1>8. \A w \in ws : w.class = "PDFWriter" => w \in vs
  BY <1>1, <1>4 DEF IsSession
<1>9. BusyStill(h, ws, g, vs)
  <2>1. ASSUME NEW e, NEW b, IsBusy(h, ws, e, b), NEW n \in b, n \in DOMAIN h
        PROVE  /\ n \in DOMAIN g /\ g[n].kind = h[n].kind
               /\ \A p \in h[n].parts : p \in DOMAIN h /\ h[p].kind \in {"formContext", "stream"} =>
                     p \in g[n].parts /\ p \in DOMAIN g /\ g[p].kind = h[p].kind
               /\ \A w \in ws : w.owns /\ w.held /\ w.native = n => w \in vs
    <3>1. n \notin {Own, Listening, Waiting}
      BY <1>1, <2>1 DEF IsHeap, Own, Listening, Waiting
    <3>2. h[n].kind # "dictionary"
      BY <2>1, <3>1 DEF IsBusy
    <3>. QED  BY <1>2, <1>4, <2>1, <3>2
  <2>. QED  BY <1>8, <2>1, BusyStays DEF BusyStill
<1>10. \A e : IsEvent(h, ws, e) /\ d \notin Pending(e) => IsEvent(g, vs, e)
  BY <1>2, EventStays
<1>. QED  BY <1>7, <1>8, <1>9, <1>10 DEF g, WriterHeld

\* The program has one wrapper of a dictionary.
LEMMA WrapperOfDictionary ==
    ASSUME NEW h, NEW ws, IsWrapped(h, ws), NEW x \in ws, h[x.native].kind = "dictionary"
    PROVE  /\ ~x.owns /\ x.held /\ x.class = "DictionaryContext" /\ x.native \in DOMAIN h
           /\ ws \ {x} = {w \in ws : w.native # x.native}
<1>1. ASSUME NEW w \in ws, w.native = x.native
      PROVE  ~w.owns /\ w.held /\ w.class = "DictionaryContext" /\ w.native \in DOMAIN h
  <2>1. ~w.owns
    BY <1>1 DEF IsWrapped, OwnerFits, OwnerOf
  <2>. QED  BY <1>1, <2>1 DEF IsWrapped, BorrowerFits, BorrowerOf
<1>2. \A w \in ws : w.native = x.native => w = x
  BY <1>1 DEF IsWrapped, OneDictionary
<1>. QED  BY <1>1, <1>2

LEMMA EndingDictionary ==
    ASSUME DInv, ~thrown, NEW x \in Of("DictionaryContext"), EndDictionary(x), UNCHANGED event
    PROVE  DInv'
<1>1. /\ WriterHeld(wrappers) /\ UNCHANGED <<registered, session, busy>>
      /\ thrown' \in BOOLEAN
  <2>1. thrown' = (thrown \/ InnermostDictionary(out) # x.native)
    BY DEF EndDictionary, Throws
  <2>. QED  BY <2>1, WhenRunning DEF EndDictionary, IsWriting
<1>2. dangling' = FALSE
  BY <1>1, WriterIsSafe, Untouched DEF EndDictionary
<1>3. CASE UNCHANGED <<heap, wrappers>>
  BY <1>1, <1>2, <1>3 DEF DInv
<1>4. CASE heap' = Freed(heap, {x.native}) /\ wrappers' = wrappers \ {x}
  <2>1. /\ x \in wrappers /\ x.native \in Live /\ x.native # None /\ x.class = "DictionaryContext"
        /\ (~x.owns => BorrowerFits(heap, wrappers, x)) /\ (x.owns => OwnerFits(heap, x))
    BY Used
  <2>2. heap[x.native].kind = "dictionary"
    BY <2>1 DEF OwnerFits, OwnerOf, BorrowerFits, BorrowerOf
  <2>3. wrappers' = {w \in wrappers : w.native # x.native}
    BY <1>4, <2>1, <2>2, WrapperOfDictionary DEF DInv
  <2>4. x.native \notin Pending(event)
    <3>1. \A i \in DOMAIN event.left : x.native # event.left[i]
      <4>1. x.also = None
        BY DEF EndDictionary
      <4>2. Handed(x.native).also = x.native
        BY DEF Handed, Wrap
      <4>. QED  BY <2>1, <4>1, <4>2 DEF DInv, IsEvent
    <3>2. x.native \notin event.frees \cup {g.native : g \in event.gives}
      BY <2>2 DEF DInv, IsEvent
    <3>. QED  BY <3>1, <3>2 DEF Pending
  <2>5. Sound(heap, wrappers, session, registered) /\ x.native \in DOMAIN heap
    BY <2>1 DEF DInv, Sound, Live
  <2>6. /\ Sound(heap', wrappers', session, registered) /\ BusyStill(heap, wrappers, heap', wrappers')
        /\ IsEvent(heap', wrappers', event)
    BY <1>4, <2>2, <2>3, <2>4, <2>5, FreesDictionary DEF DInv
  <2>7. IsBusy(heap', wrappers', event, busy)
    BY <2>6 DEF DInv, BusyStill
  <2>. QED  BY <1>1, <1>2, <2>6, <2>7 DEF DInv, Sound
<1>. QED  BY <1>3, <1>4 DEF EndDictionary

LEMMA StreamMadeWith ==
    ASSUME DInv, ~thrown, NEW x \in Of("DictionaryContext"), StartPDFStreamWith(x), UNCHANGED event
    PROVE  DInv'
<1>1. /\ WriterHeld(wrappers) /\ UNCHANGED <<registered, session, busy, thrown>> /\ Room(1)
      /\ busy = {Own} /\ event = NoEvent
  BY WhenRunning, NotCalledBack DEF StartPDFStreamWith
<1>2. dangling' = FALSE
  <2>1. {x.native} \cup Writer \subseteq Live
    BY <1>1, WriterIsSafe, Used
  <2>. QED  BY <2>1, Untouched DEF StartPDFStreamWith
<1>3. /\ x \in wrappers /\ x.native \in Live /\ x.native # None /\ x.class = "DictionaryContext"
      /\ (~x.owns => BorrowerFits(heap, wrappers, x)) /\ (x.owns => OwnerFits(heap, x))
  BY Used
<1>4. heap[x.native].kind = "dictionary"
  BY <1>3 DEF OwnerFits, OwnerOf, BorrowerFits, BorrowerOf
<1>. DEFINE vs == {w \in wrappers : w.native # x.native}
            h == Freed(heap, {x.native})
            rs == <<Native("stream", None, {})>>
            y == OwnedBy("PDFStream", New(1))
<1>5. wrappers \ {x} = vs
  BY <1>3, <1>4, WrapperOfDictionary DEF DInv
<1>6. Sound(heap, wrappers, session, registered) /\ x.native \in DOMAIN heap
  BY <1>3 DEF DInv, Sound, Live
<1>7. /\ Sound(h, vs, session, registered) /\ WriterHeld(vs)
  BY <1>1, <1>4, <1>6, FreesDictionary
<1>8. heap' = Created(h, rs) /\ wrappers' = vs \cup {y}
  BY <1>5 DEF StartPDFStreamWith, OwnedBy
<1>9. DOMAIN h = DOMAIN heap \ {x.native} /\ \A n \in DOMAIN h : h[n] = heap[n]
  <2>1. DOMAIN h = DOMAIN heap \ {x.native} /\ \A n \in DOMAIN heap \ {x.native} : h[n] = heap[n]
    BY FreedIs
  <2>. QED  BY <2>1
<1>10. IsFresh(h, vs, NewOnes(1))
  <2>1. IsFresh(heap, wrappers, NewOnes(1))
    BY <1>1, NewAreFresh DEF NewOnes
  <2>2. vs \subseteq wrappers
    OBVIOUS
  <2>. HIDE DEF vs, h
  <2>. QED  BY <1>9, <2>1, <2>2 DEF IsFresh
<1>11. DOMAIN h \subseteq Live
  BY <1>9 DEF Live
<1>. HIDE DEF vs, h
<1>12. rs[1] = Native("stream", None, {}) /\ DOMAIN rs = 1 .. 1
  OBVIOUS
<1>13. /\ rs[1] \in Record /\ rs[1].kind = "stream" /\ rs[1].of = None /\ rs[1].parts = {}
  BY <1>12, NativeIs DEF Kinds, None
<1>. HIDE DEF rs
<1>14. /\ Grows(h, heap', NewOnes(1)) /\ New(1) \in Nat \ {None} /\ heap'[New(1)] = rs[1]
       /\ NewOnes(1) = {New(1)}
  <2>1. 1 \in 1 .. 3 /\ 1 \in 1 .. 1 /\ IsHeap(h) /\ \A i \in 1 .. 1 : rs[i] \in Record
    BY <1>7, <1>13 DEF Sound
  <2>2. Grows(h, heap', NewOnes(1)) /\ New(1) \in Nat \ {None} /\ heap'[New(1)] = rs[1]
    BY <1>1, <1>8, <1>10, <1>11, <1>12, <2>1, MadeFrom
  <2>. QED  BY <2>2 DEF NewOnes
<1>15. PartsFit(heap', New(1)) /\ OfFits(heap', New(1))
  <2>1. heap'[New(1)].of \notin DOMAIN heap'
    BY <1>13, <1>14, <1>7 DEF Grows, Sound, IsHeap, None
  <2>. QED  BY <1>13, <1>14, <2>1 DEF PartsFit, OfFits, Rootless
<1>16. /\ Sound(heap', vs, session, registered)
  <2>1. \A n \in NewOnes(1) :
              /\ PartsFit(heap', n) /\ OfFits(heap', n)
              /\ heap'[n].kind \notin {"pageContext", "parser", "writer", "font", "copying"}
              /\ heap'[n].of \in NewOnes(1) \cup {None} \/ heap'[heap'[n].of].kind = "writer"
              /\ \A w \in vs : w.owns /\ w.class = "PDFStream" => w.native \notin heap'[n].parts
    BY <1>13, <1>14, <1>15
  <2>. QED  BY <1>7, <1>10, <1>14, <2>1, GrowsSound
<1>17. Safe(heap', vs, New(1))
  <2>1. ReachIn(heap', New(1)) \subseteq {New(1)}
    BY <1>13, <1>14 DEF ReachIn, Grows
  <2>2. New(1) \in DOMAIN heap' /\ \A p \in ReachIn(heap', New(1)) : p \in NewOnes(1)
    BY <1>14, <2>1 DEF Grows
  <2>. QED  BY <1>7, <1>10, <1>14, <2>2, NewIsSafe DEF Sound
<1>18. /\ y \in Wrapper /\ y.owns /\ y.held /\ y.class = "PDFStream" /\ y.native = New(1) /\ y.also = None
  BY <1>14, OwnedByIs DEF Classes
<1>. HIDE DEF y
<1>19. OwnerFits(heap', y)
  <2>1. New(1) \in DOMAIN heap'
    BY <1>14 DEF Grows
  <2>2. \A n \in DOMAIN heap' : New(1) \notin heap'[n].parts
    <3>1. ASSUME NEW n \in DOMAIN h
          PROVE  New(1) \notin heap'[n].parts
      BY <1>10, <1>14 DEF Grows, IsFresh
    <3>. QED  BY <1>13, <1>14, <3>1 DEF Grows
  <2>. QED  BY <1>13, <1>14, <1>18, <2>1, <2>2 DEF OwnerFits, OwnerOf, WithProxy
<1>20. Sound(heap', wrappers', session, registered)
  <2>1. \A w \in vs : w.native # y.native /\ (y.also # None => w.also # y.also)
    BY <1>10, <1>14, <1>18 DEF IsFresh
  <2>2. Sound(heap', vs \cup {y}, session, registered)
    BY <1>16, <1>17, <1>18, <1>19, <2>1, OwnerSound
  <2>. QED  BY <1>8, <2>2
<1>21. IsEvent(heap', wrappers', NoEvent)
  BY NothingPending
<1>22. IsBusy(heap', wrappers', NoEvent, {Own})
  <2>1. WriterHeld(wrappers')
    BY <1>7, <1>8 DEF WriterHeld
  <2>. QED  BY <2>1, BusyWith
<1>. QED  BY <1>1, <1>2, <1>20, <1>21, <1>22 DEF DInv, Sound

\* A dictionary leads nowhere, and no wrapper deletes it.
LEMMA DictionaryIsSafe ==
    ASSUME NEW h, NEW ws, IsHeap(h), IsWrapped(h, ws), NEW d \in DOMAIN h, h[d].kind = "dictionary"
    PROVE  Safe(h, ws, d)
<1>1. ReachIn(h, d) \subseteq {d}
  BY DEF ReachIn, IsHeap, PartsFit, OfFits, Childless, Rootless
<1>2. ASSUME NEW w \in ws, d \in DeletesIn(h, w)
      PROVE  FALSE
  <2>1. w.owns
    BY <1>2 DEF DeletesIn
  <2>2. OwnerFits(h, w) /\ w.native \in DOMAIN h
    BY <2>1 DEF IsWrapped, OwnerFits
  <2>3. d # w.native
    BY <2>2 DEF OwnerFits, OwnerOf
  <2>4. d \notin h[w.native].parts
    BY <2>2 DEF IsHeap, PartsFit, HasPart, Deletable, Lent
  <2>. QED  BY <1>2, <2>1, <2>3, <2>4, DeletedIs
<1>. QED  BY <1>1, <1>2 DEF Safe

IsLeftOver(h, ws, e, f) ==
    /\ Head(e.left) \in DOMAIN h /\ h[Head(e.left)].kind = "dictionary"
    /\ IsEvent(h, ws, f) /\ Head(e.left) \notin Pending(f)
    /\ f.left = Tail(e.left)
    /\ Tail(e.left) # <<>> => Head(Tail(e.left)) \in {f.left[i] : i \in DOMAIN f.left}
Completed(e) == [e EXCEPT !.left = Tail(e.left)]

\* The call waits for the listener to complete one dictionary less.
LEMMA LeftOver ==
    ASSUME NEW h, NEW ws, NEW e, IsEvent(h, ws, e), e.left # <<>>
    PROVE  IsLeftOver(h, ws, e, Completed(e))
<1>. DEFINE f == [e EXCEPT !.left = Tail(e.left)]
<1>1. /\ f.call = e.call /\ f.left = Tail(e.left) /\ f.frees = e.frees /\ f.gives = e.gives
      /\ e.left \in Seq(Nat) /\ Tail(e.left) \in Seq(Nat)
      /\ f \in [call : {"none", "write", "page", "modify", "end"}, left : Seq(Nat), frees : SUBSET Nat,
                gives : SUBSET Wrapper]
  <2>1. e \in [call : {"none", "write", "page", "modify", "end"}, left : Seq(Nat), frees : SUBSET Nat,
                gives : SUBSET Wrapper]
    BY DEF IsEvent
  <2>2. e.left \in Seq(Nat) /\ Tail(e.left) \in Seq(Nat)
    BY <2>1
  <2>. QED  BY <2>1, <2>2
<1>2. /\ Head(e.left) = e.left[1] /\ 1 \in DOMAIN e.left
      /\ \A i \in DOMAIN f.left : i + 1 \in DOMAIN e.left /\ f.left[i] = e.left[i + 1] /\ i + 1 # 1
      /\ \A i, j \in DOMAIN f.left : i + 1 = j + 1 => i = j
  BY <1>1
<1>3. Head(e.left) \in DOMAIN h /\ h[Head(e.left)].kind = "dictionary"
  BY <1>2 DEF IsEvent
<1>4. IsEvent(h, ws, f)
  <2>1. \A i \in DOMAIN f.left : f.left[i] \in DOMAIN h /\ h[f.left[i]].kind = "dictionary"
    BY <1>2 DEF IsEvent
  <2>2. \A i, j \in DOMAIN f.left : f.left[i] = f.left[j] => i = j
    BY <1>2 DEF IsEvent
  <2>3. \A w \in ws : \A i \in DOMAIN f.left : w.native = f.left[i] => w = Handed(w.native)
    BY <1>2 DEF IsEvent
  <2>4. /\ \A n \in f.frees \cup {g.native : g \in f.gives} :
              /\ n \in DOMAIN h /\ h[n].kind \in {"page", "form"}
              /\ h[n].of = None /\ h[n].parts = {}
              /\ \A w \in ws : w.native # n
              /\ \A m \in DOMAIN h : h[m].of # n
        /\ \A g1, g2 \in f.gives : g1 = g2
        /\ \A g \in f.gives : g = Wrap("FormXObject", g.native, TRUE, None) /\ h[g.native].kind = "form"
        /\ f.frees \cap {g.native : g \in f.gives} = {}
    <3>1. f.frees = e.frees /\ f.gives = e.gives
      BY <1>1
    <3>. HIDE <1>1
    <3>. QED  BY <3>1 DEF IsEvent
  <2>. QED  BY <1>1, <2>1, <2>2, <2>3, <2>4 DEF IsEvent
<1>5. Head(e.left) \notin Pending(f)
  <2>1. \A i \in DOMAIN f.left : f.left[i] # Head(e.left)
    BY <1>2 DEF IsEvent
  <2>2. Head(e.left) \notin e.frees \cup {g.native : g \in e.gives}
    BY <1>3 DEF IsEvent
  <2>. QED  BY <1>1, <2>1, <2>2 DEF Pending
<1>6. Tail(e.left) # <<>> => Head(Tail(e.left)) \in {f.left[i] : i \in DOMAIN f.left}
  <2>1. Tail(e.left) # <<>> => 1 \in DOMAIN Tail(e.left) /\ Head(Tail(e.left)) = Tail(e.left)[1]
    BY <1>1
  <2>. QED  BY <1>1, <2>1
<1>7. IsLeftOver(h, ws, e, f)
  BY <1>1, <1>3, <1>4, <1>5, <1>6 DEF IsLeftOver
<1>. QED  BY <1>7 DEF Completed

\* The listener is handed the next dictionary, if it was not handed it before.
LEMMA HandsNext ==
    ASSUME NEW h, NEW ws, NEW s, NEW reg, Sound(h, ws, s, reg), NEW e, IsEvent(h, ws, e),
           NEW i \in DOMAIN e.left
    PROVE  Sound(h, ws \cup {Handed(e.left[i])}, s, reg) /\ IsEvent(h, ws \cup {Handed(e.left[i])}, e)
<1>. DEFINE d == e.left[i]
<1>1. d \in DOMAIN h /\ h[d].kind = "dictionary" /\ d \in Nat
  BY DEF IsEvent
<1>2. CASE \E w \in ws : w.native = d
  <2>1. ws \cup {Handed(d)} = ws
    BY <1>2 DEF IsEvent
  <2>. QED  BY <2>1
<1>3. CASE \A w \in ws : w.native # d
  <2>1. /\ Handed(d) \in Wrapper /\ ~Handed(d).owns /\ Handed(d).held
        /\ Handed(d).class = "DictionaryContext" /\ Handed(d).native = d
    BY <1>1, HandedIs
  <2>2. Safe(h, ws, d)
    BY <1>1, DictionaryIsSafe DEF Sound
  <2>. DEFINE x == Handed(d)
  <2>3. x.native = d /\ x \in Wrapper /\ ~x.owns /\ x.held /\ x.class = "DictionaryContext"
        /\ x = Handed(x.native)
    BY <2>1
  <2>. HIDE DEF x
  <2>4. Sound(h, ws \cup {x}, s, reg)
    BY <1>1, <1>3, <2>2, <2>3, DictionarySound
  <2>5. IsEvent(h, ws \cup {x}, e)
    <3>1. \A n \in e.frees \cup {g.native : g \in e.gives} : x.native # n
      BY <1>1, <2>3 DEF IsEvent
    <3>2. \A w \in ws \cup {x} : \A j \in DOMAIN e.left : w.native = e.left[j] => w = Handed(w.native)
      BY <2>3 DEF IsEvent
    <3>3. \A n \in e.frees \cup {g.native : g \in e.gives} : \A w \in ws \cup {x} : w.native # n
      BY <3>1 DEF IsEvent
    <3>. HIDE <1>1, <1>3, <2>1, <2>2, <2>3, <2>4, <3>1
    <3>. QED  BY <3>2, <3>3 DEF IsEvent
  <2>. QED  BY <2>4, <2>5 DEF x
<1>. QED  BY <1>2, <1>3

\* What is deleted when the call returns, or fails, nothing else leads to.
LEMMA FreesWaiting ==
    ASSUME DInv
    PROVE  /\ event.frees \subseteq DOMAIN heap
           /\ DOMAIN Freed(heap, event.frees) = DOMAIN heap \ event.frees
           /\ \A n \in DOMAIN heap \ event.frees : Freed(heap, event.frees)[n] = heap[n]
           /\ Sound(Freed(heap, event.frees), wrappers, session, registered)
<1>. DEFINE F == event.frees
            g == Freed(heap, F)
<1>2. /\ IsHeap(heap) /\ IsWrapped(heap, wrappers) /\ IsSession(heap, wrappers, session, registered)
      /\ IsEvent(heap, wrappers, event) /\ Sound(heap, wrappers, session, registered)
  BY DEF DInv, Sound
<1>3. \A n \in F \cup {y.native : y \in event.gives} :
         /\ n \in DOMAIN heap /\ heap[n].kind \in {"page", "form"} /\ heap[n].of = None /\ heap[n].parts = {}
         /\ \A w \in wrappers : w.native # n
         /\ \A m \in DOMAIN heap : heap[m].of # n
  BY <1>2 DEF IsEvent
<1>5. DOMAIN g = DOMAIN heap \ F /\ \A n \in DOMAIN heap \ F : g[n] = heap[n]
  BY FreedIs
<1>6. \A n \in DOMAIN heap : heap[n].parts \cap F = {}
  BY <1>2, <1>3 DEF IsHeap, PartsFit, HasPart, Deletable, Lent
<1>7. Shrinks(heap, g)
  BY <1>2, <1>6, FreedShrinks
<1>. HIDE DEF g, F
<1>8. Sound(g, wrappers, session, registered)
  <2>1. \A n \in DOMAIN heap \ DOMAIN g : n \in F /\ heap[n].kind \in Passing
    BY <1>3, <1>5 DEF Passing
  <2>2. \A n \in DOMAIN g : heap[n].kind \in {"copying", "writer"} => g[n] = heap[n]
    BY <1>5
  <2>3. ASSUME NEW w \in wrappers
        PROVE  /\ w.native \in DOMAIN g
               /\ w.held => ReachIn(g, w.native) \cap (DOMAIN heap \ DOMAIN g) = {}
               /\ w.owns /\ w.class = "PDFPage" => w.also = g[w.native].of
    <3>1. w.native \in DOMAIN heap /\ (w.owns /\ w.class = "PDFPage" => w.also = heap[w.native].of)
      BY <1>2 DEF IsWrapped, OwnerFits, BorrowerFits
    <3>2. w.native \in DOMAIN g /\ g[w.native] = heap[w.native] /\ w.native \notin F
      BY <1>3, <1>5, <3>1
    <3>3. ASSUME NEW p \in ReachIn(g, w.native), p \in DOMAIN heap \ DOMAIN g
          PROVE  FALSE
      <4>1. p \in F
        BY <2>1, <3>3
      <4>2. p # g[w.native].of /\ p \notin g[w.native].parts /\ p # w.native
        BY <1>3, <1>6, <3>1, <3>2, <4>1
      <4>3. \A q \in g[w.native].parts \cap DOMAIN g : p \notin g[q].parts
        BY <1>5, <1>6, <4>1
      <4>. QED  BY <3>2, <4>2, <4>3, ReachOf
    <3>. QED  BY <3>1, <3>2, <3>3
  <2>. QED  BY <1>2, <1>7, <2>1, <2>2, <2>3, FreesSound
<1>. QED  BY <1>3, <1>5, <1>8 DEF g, F

LEMMA ListenerReturning ==
    ASSUME DInv, ~thrown, ListenerReturns
    PROVE  DInv'
<1>. DEFINE d == Head(event.left)
            rest == Tail(event.left)
            f == [event EXCEPT !.left = rest]
            vs == wrappers \ About({d})
            g == Freed(heap, {d})
<1>1. event.left # <<>> /\ WriterHeld(wrappers) /\ registered' = registered
  <2>1. event.left # <<>> /\ event # NoEvent
    BY DEF ListenerReturns, NoEvent
  <2>. QED  BY <2>1, WhenRunning DEF ListenerReturns
<1>2. dangling' = FALSE /\ thrown' \in BOOLEAN
  <2>1. thrown' \in BOOLEAN
    BY DEF ListenerReturns, Throws
  <2>2. Writer \subseteq Live /\ (Writer \cup event.frees) \subseteq Live
    BY <1>1, WriterIsSafe, FreesWaiting DEF Live
  <2>3. Touches(Writer) \/ Touches(Writer \cup event.frees)
    BY DEF ListenerReturns
  <2>. QED  BY <2>1, <2>2, <2>3, Untouched
<1>3. CASE /\ heap' = Freed(heap, event.frees)
           /\ event' = NoEvent /\ busy' = {} /\ UNCHANGED <<wrappers, session>>
  <2>1. Sound(heap', wrappers, session, registered)
    BY <1>3, FreesWaiting
  <2>2. IsEvent(heap', wrappers, NoEvent) /\ IsBusy(heap', wrappers, NoEvent, {})
    BY NothingPending, BusyWith
  <2>. QED  BY <1>1, <1>2, <1>3, <2>1, <2>2 DEF DInv, Sound
<1>4. CASE /\ heap' = g /\ UNCHANGED session
           /\ wrappers' = vs \cup (IF rest = <<>> THEN {} ELSE {Handed(Head(rest))})
           /\ event' = f
           /\ busy' = IF rest = <<>> THEN {Waiting} ELSE {Listening}
  <2>1. /\ d \in DOMAIN heap /\ heap[d].kind = "dictionary"
        /\ IsEvent(heap, wrappers, f) /\ d \notin Pending(f) /\ f.left = rest
        /\ rest # <<>> => Head(rest) \in {f.left[i] : i \in DOMAIN f.left}
    <3>1. IsEvent(heap, wrappers, event) /\ f = Completed(event)
      BY DEF DInv, Completed
    <3>2. IsLeftOver(heap, wrappers, event, Completed(event))
      BY <1>1, <3>1, LeftOver
    <3>. HIDE DEF f
    <3>. QED  BY <3>1, <3>2 DEF IsLeftOver
  <2>2. vs = {w \in wrappers : w.native # d}
    <3>1. \A w \in wrappers : w.native = d => ~w.owns
      BY <2>1 DEF DInv, IsWrapped, OwnerFits, OwnerOf
    <3>. QED  BY <3>1 DEF About
  <2>3. Sound(heap, wrappers, session, registered)
    BY DEF DInv, Sound
  <2>. HIDE DEF d, f, vs, rest
  <2>4. Sound(g, vs, session, registered) /\ IsEvent(g, vs, f) /\ WriterHeld(vs)
    BY <1>1, <2>1, <2>2, <2>3, FreesDictionary
  <2>. HIDE DEF g
  <2>5. Sound(g, wrappers', session, registered) /\ IsEvent(g, wrappers', f)
    <3>1. CASE rest = <<>>
      <4>1. wrappers' = vs
        BY <1>4, <3>1
      <4>. QED  BY <2>4, <4>1
    <3>2. CASE rest # <<>>
      <4>1. PICK i \in DOMAIN f.left : Head(rest) = f.left[i]
        BY <2>1, <3>2
      <4>2. wrappers' = vs \cup {Handed(f.left[i])}
        BY <1>4, <3>2, <4>1
      <4>. QED  BY <2>4, <4>2, HandsNext
    <3>. QED  BY <3>1, <3>2
  <2>6. WriterHeld(wrappers')
    BY <1>4, <2>4 DEF WriterHeld
  <2>7. IsBusy(heap', wrappers', event', busy')
    BY <1>4, <2>6, BusyWith
  <2>. QED  BY <1>1, <1>2, <1>4, <2>5, <2>7 DEF DInv, Sound
<1>5. CASE /\ heap' = Freed(heap, {}) /\ UNCHANGED session
           /\ wrappers' = (wrappers \ About({})) \cup (IF rest = <<>> THEN {} ELSE {Handed(Head(rest))})
           /\ event' = f
           /\ busy' = IF rest = <<>> THEN {Waiting} ELSE {Listening}
  <2>1. heap' = heap
    <3>1. heap = [n \in DOMAIN heap |-> heap[n]]
      BY DEF DInv, IsHeap
    <3>2. Freed(heap, {}) = [n \in DOMAIN heap |-> heap[n]]
      BY DEF Freed, Restrict
    <3>. QED  BY <1>5, <3>1, <3>2
  <2>2. /\ IsEvent(heap, wrappers, f) /\ f.left = rest
        /\ rest # <<>> => Head(rest) \in {f.left[i] : i \in DOMAIN f.left}
    <3>1. IsEvent(heap, wrappers, event) /\ f = Completed(event)
      BY DEF DInv, Completed
    <3>2. IsLeftOver(heap, wrappers, event, Completed(event))
      BY <1>1, <3>1, LeftOver
    <3>. HIDE DEF f
    <3>. QED  BY <3>1, <3>2 DEF IsLeftOver
  <2>3. Sound(heap, wrappers, session, registered)
    BY DEF DInv, Sound
  <2>4. wrappers \ About({}) = wrappers
    BY DEF About
  <2>. HIDE DEF f, rest
  <2>5. Sound(heap, wrappers', session, registered) /\ IsEvent(heap, wrappers', f)
    <3>1. CASE rest = <<>>
      <4>1. wrappers' = wrappers
        BY <1>5, <2>4, <3>1
      <4>. QED  BY <2>2, <2>3, <4>1
    <3>2. CASE rest # <<>>
      <4>1. PICK i \in DOMAIN f.left : Head(rest) = f.left[i]
        BY <2>2, <3>2
      <4>2. wrappers' = wrappers \cup {Handed(f.left[i])}
        BY <1>5, <2>4, <3>2, <4>1
      <4>. QED  BY <2>2, <2>3, <4>2, HandsNext
    <3>. QED  BY <3>1, <3>2
  <2>6. WriterHeld(wrappers')
    BY <1>1, <1>5, <2>4 DEF WriterHeld
  <2>7. IsBusy(heap', wrappers', event', busy')
    BY <1>5, <2>6, BusyWith
  <2>. QED  BY <1>1, <1>2, <1>5, <2>1, <2>5, <2>7 DEF DInv, Sound
<1>. QED  BY <1>3, <1>4, <1>5 DEF ListenerReturns

LEMMA CallReturning ==
    ASSUME DInv, ~thrown, CallReturns
    PROVE  DInv'
<1>. DEFINE F == event.frees
            g == Freed(heap, F)
<1>1. /\ WriterHeld(wrappers) /\ UNCHANGED <<registered, session, thrown>>
      /\ heap' = g /\ wrappers' = wrappers \cup event.gives /\ event' = NoEvent /\ busy' = {}
  <2>1. event # NoEvent
    BY DEF CallReturns, NoEvent
  <2>. QED  BY <2>1, WhenRunning DEF CallReturns
<1>2. /\ IsHeap(heap) /\ IsWrapped(heap, wrappers) /\ IsSession(heap, wrappers, session, registered)
      /\ IsEvent(heap, wrappers, event) /\ Sound(heap, wrappers, session, registered)
  BY DEF DInv, Sound
<1>3. \A n \in F \cup {y.native : y \in event.gives} :
         /\ n \in DOMAIN heap /\ heap[n].kind \in {"page", "form"} /\ heap[n].of = None /\ heap[n].parts = {}
         /\ \A w \in wrappers : w.native # n
         /\ \A m \in DOMAIN heap : heap[m].of # n
  BY <1>2 DEF IsEvent
<1>4. dangling' = FALSE
  <2>1. Writer \cup event.frees \subseteq Live
    BY <1>1, <1>3, WriterIsSafe DEF Live
  <2>. QED  BY <2>1, Untouched DEF CallReturns
<1>5. DOMAIN g = DOMAIN heap \ F /\ \A n \in DOMAIN heap \ F : g[n] = heap[n]
  BY FreesWaiting
<1>8. Sound(g, wrappers, session, registered)
  BY FreesWaiting
<1>. HIDE DEF g, F
<1>9. Sound(g, wrappers \cup event.gives, session, registered)
  <2>1. CASE event.gives = {}
    BY <1>8, <2>1
  <2>2. CASE event.gives # {}
    <3>1. PICK x \in event.gives : TRUE
      BY <2>2
    <3>2. event.gives = {x}
      BY <1>2, <3>1 DEF IsEvent
    <3>3. x = OwnedBy("FormXObject", x.native) /\ heap[x.native].kind = "form" /\ x.native \in Nat
          /\ x.native \notin F
      <4>1. /\ \A y \in event.gives : y = OwnedBy("FormXObject", y.native) /\ heap[y.native].kind = "form"
            /\ event.frees \cap {y.native : y \in event.gives} = {}
        BY <1>2 DEF IsEvent, OwnedBy
      <4>2. event.gives \subseteq Wrapper
        BY <1>2 DEF IsEvent
      <4>. QED  BY <3>1, <4>1, <4>2 DEF F, Wrapper
    <3>4. /\ x \in Wrapper /\ x.owns /\ x.held /\ x.class = "FormXObject" /\ x.also = None
      BY <3>3, OwnedByIs DEF Classes
    <3>5. /\ x.native \in DOMAIN heap /\ heap[x.native].of = None /\ heap[x.native].parts = {}
          /\ \A w \in wrappers : w.native # x.native
      BY <1>3, <3>1
    <3>6. x.native \in DOMAIN g /\ g[x.native] = heap[x.native]
      BY <1>5, <3>3, <3>5
    <3>7. OwnerFits(g, x)
      BY <3>3, <3>4, <3>6 DEF OwnerFits, OwnerOf, WithProxy
    <3>8. Safe(g, wrappers, x.native)
      <4>1. ReachIn(g, x.native) \subseteq {x.native}
        BY <3>5, <3>6 DEF ReachIn
      <4>2. IsHeap(g) /\ IsWrapped(g, wrappers)
        BY <1>8 DEF Sound
      <4>3. ASSUME NEW w \in wrappers, x.native \in DeletesIn(g, w)
            PROVE  FALSE
        <5>1. w.owns
          BY <4>3 DEF DeletesIn
        <5>. QED  BY <3>3, <3>5, <3>6, <4>2, <4>3, <5>1, DeletedIs
      <4>. QED  BY <3>6, <4>1, <4>3 DEF Safe
    <3>9. Sound(g, wrappers \cup {x}, session, registered)
      BY <1>8, <3>4, <3>5, <3>7, <3>8, OwnerSound
    <3>. QED  BY <3>2, <3>9
  <2>. QED  BY <2>1, <2>2
<1>10. IsEvent(heap', wrappers', NoEvent) /\ IsBusy(heap', wrappers', NoEvent, {})
  BY NothingPending, BusyWith
<1>. QED  BY <1>1, <1>2, <1>4, <1>9, <1>10 DEF DInv, Sound

\* The page of a modified file follows the form that ended.
LEMMA PageFollowing ==
    ASSUME DInv, ~thrown, PageFollows
    PROVE  DInv'
<1>1. /\ WriterHeld(wrappers) /\ UNCHANGED <<heap, wrappers, registered, session>>
      /\ event' = NoEvent /\ busy' = {} /\ Touches(Writer)
  <2>1. event # NoEvent
    BY DEF PageFollows, NoEvent
  <2>. QED  BY <2>1, WhenRunning DEF PageFollows
<1>2. dangling' = FALSE
  BY <1>1, WriterIsSafe, Untouched
<1>3. thrown' \in BOOLEAN
  <2>1. PICK works \in Outcomes : Throws(~works)
    BY DEF PageFollows
  <2>. QED  BY <2>1, ThrownIs
<1>4. IsEvent(heap, wrappers, NoEvent) /\ IsBusy(heap, wrappers, NoEvent, {})
  BY NothingPending, BusyWith
<1>. QED  BY <1>1, <1>2, <1>3, <1>4 DEF DInv

\* The stream of a page's context or of a file goes, or the form of a modifier.
LEMMA StreamGoes ==
    ASSUME DInv, NEW c \in DOMAIN heap, heap[c].kind \in {"pageContext", "file", "modifier"},
           heap[c].parts \subseteq DOMAIN heap,
           NEW vs, vs = wrappers \ About(StreamsOf(c))
    PROVE  /\ Sound(WithoutStream(c), vs, session, registered)
           /\ IsEvent(WithoutStream(c), vs, event)
           /\ heap[c].kind = "file" => BusyStill(heap, wrappers, WithoutStream(c), vs)
<1>. DEFINE S == heap[c].parts
            k == [n \in DOMAIN heap |-> IF n = c THEN [heap[n] EXCEPT !.parts = {}] ELSE heap[n]]
            g == WithoutStream(c)
<1>1. /\ IsHeap(heap) /\ IsWrapped(heap, wrappers) /\ IsSession(heap, wrappers, session, registered)
      /\ IsEvent(heap, wrappers, event) /\ Sound(heap, wrappers, session, registered)
      /\ None \notin DOMAIN heap /\ heap[c] \in Record
  BY DEF DInv, Sound, IsHeap, None
<1>2. g = Freed(k, S) /\ vs = {w \in wrappers : w.owns \/ w.native \notin S}
  BY DEF WithoutStream, StreamsOf, Live, About
<1>3. /\ DOMAIN g = DOMAIN heap \ S
      /\ \A n \in DOMAIN heap \ S : n # c => g[n] = heap[n]
      /\ c \in DOMAIN heap \ S => g[c] = [heap[c] EXCEPT !.parts = {}]
  <2>1. \A n \in DOMAIN heap : n # c => k[n] = heap[n]
    OBVIOUS
  <2>2. DOMAIN k = DOMAIN heap /\ (c \in DOMAIN heap => k[c] = [heap[c] EXCEPT !.parts = {}])
    OBVIOUS
  <2>. HIDE DEF k, g, S
  <2>3. DOMAIN Freed(k, S) = DOMAIN k \ S /\ \A n \in DOMAIN k \ S : Freed(k, S)[n] = k[n]
    BY FreedIs
  <2>. QED  BY <1>2, <2>1, <2>2, <2>3
<1>. HIDE DEF k, g
<1>4. \A p \in S : /\ p \in DOMAIN heap /\ p # None
                   /\ heap[c].kind = "pageContext" => heap[p].kind = "stream" /\ heap[p].of = None
                   /\ heap[c].kind = "file" => heap[p].kind = "fileStream" /\ heap[p].of = c
                   /\ heap[c].kind = "modifier" => heap[p].kind \in {"formContext", "stream"} /\ heap[p].of = c
  BY <1>1 DEF IsHeap, PartsFit, HasPart, Deletable, Lent
<1>5. ASSUME NEW m \in DOMAIN heap, m # c
      PROVE  heap[m].parts \cap S = {}
  <2>1. CASE heap[c].kind = "pageContext"
    BY <1>1, <1>5, <2>1 DEF IsHeap, ContextFits
  <2>2. CASE heap[c].kind = "file"
    <3>1. ASSUME NEW p \in heap[m].parts, p \in S
          PROVE  FALSE
      <4>1. heap[p].kind = "fileStream" /\ heap[p].of = c /\ p \in DOMAIN heap
        BY <1>4, <2>2, <3>1
      <4>2. HasPart(heap[m].kind, "fileStream") /\ (Deletable(heap[m].kind, "fileStream") => heap[p].of = m)
        BY <1>1, <3>1, <4>1 DEF IsHeap, PartsFit
      <4>. QED  BY <1>5, <4>1, <4>2 DEF HasPart, Deletable, Lent
    <3>. QED  BY <3>1
  <2>3. CASE heap[c].kind = "modifier"
    <3>1. ASSUME NEW p \in heap[m].parts, p \in S
          PROVE  FALSE
      <4>1. heap[p].kind \in {"formContext", "stream"} /\ heap[p].of = c /\ p \in DOMAIN heap
        BY <1>4, <2>3, <3>1
      <4>2. /\ HasPart(heap[m].kind, heap[p].kind)
            /\ (Deletable(heap[m].kind, heap[p].kind) => heap[p].of = m)
            /\ (Lent(heap[m].kind, heap[p].kind) => heap[p].of = None)
        BY <1>1, <3>1, <4>1 DEF IsHeap, PartsFit
      <4>. QED  BY <1>1, <1>5, <4>1, <4>2 DEF HasPart, Deletable, Lent
    <3>. QED  BY <3>1
  <2>. QED  BY <2>1, <2>2, <2>3
<1>6. \A n \in DOMAIN g : /\ n \in DOMAIN heap /\ n \notin S
                          /\ g[n] \in Record /\ g[n].kind = heap[n].kind /\ g[n].of = heap[n].of
                          /\ g[n].parts \subseteq heap[n].parts /\ g[n].parts \cap S = {}
                          /\ n # c => g[n] = heap[n]
  <2>1. ASSUME NEW n \in DOMAIN g, n # c
        PROVE  /\ n \in DOMAIN heap /\ n \notin S
               /\ g[n] \in Record /\ g[n] = heap[n] /\ g[n].parts \cap S = {}
    BY <1>1, <1>3, <1>5, <2>1 DEF IsHeap
  <2>2. ASSUME c \in DOMAIN g
        PROVE  /\ c \notin S /\ g[c] \in Record /\ g[c].kind = heap[c].kind /\ g[c].of = heap[c].of
               /\ g[c].parts = {}
    <3>1. c \notin S /\ g[c] = [heap[c] EXCEPT !.parts = {}]
      BY <1>3, <2>2
    <3>. QED  BY <1>1, <3>1 DEF Record
  <2>. QED  BY <2>1, <2>2
<1>7. Shrinks(heap, g)
  <2>1. g \in [DOMAIN g -> Record]
    <3>. HIDE DEF S
    <3>1. Freed(k, S) = [n \in DOMAIN k \ S |-> k[n]]
      BY DEF Freed, Restrict
    <3>2. g = [n \in DOMAIN k \ S |-> k[n]]
      BY <1>2, <3>1
    <3>3. DOMAIN g = DOMAIN k \ S /\ \A n \in DOMAIN k \ S : k[n] \in Record
      BY <1>6, <3>2
    <3>. QED  BY <3>2, <3>3
  <2>2. ASSUME NEW n \in DOMAIN g, g[n].kind = "pageContext"
        PROVE  g[n].parts \subseteq DOMAIN g
    <3>1. heap[n].parts \subseteq DOMAIN heap
      BY <1>1, <1>6, <2>2 DEF IsHeap, ContextFits
    <3>. QED  BY <1>3, <1>6, <3>1
  <2>. QED  BY <1>3, <1>6, <2>1, <2>2 DEF Shrinks
<1>8. ASSUME NEW w \in vs
      PROVE  /\ w.native \in DOMAIN g
             /\ w.held => ReachIn(g, w.native) \cap (DOMAIN heap \ DOMAIN g) = {}
             /\ w.owns /\ w.class = "PDFPage" => w.also = g[w.native].of
  <2>1. w \in wrappers /\ w.native \in DOMAIN heap /\ (w.owns => OwnerFits(heap, w))
    BY <1>1, <1>2 DEF IsWrapped, OwnerFits, BorrowerFits
  <2>2. w.native \notin S
    <3>1. ASSUME w.owns, w.native \in S
          PROVE  FALSE
      <4>1. heap[w.native].kind \in {"stream", "fileStream", "formContext"}
        BY <1>4, <3>1
      <4>2. w.class = "PDFStream"
        BY <2>1, <3>1, <4>1 DEF OwnerFits, OwnerOf
      <4>. QED  BY <2>1, <3>1, <4>2 DEF OwnerFits
    <3>. QED  BY <1>2, <3>1
  <2>3. w.native \in DOMAIN g
    BY <1>3, <2>1, <2>2
  <2>4. ASSUME NEW p \in ReachIn(g, w.native), p \in S
        PROVE  FALSE
    <3>1. p # g[w.native].of
      <4>1. OfFits(heap, w.native) /\ g[w.native].of = heap[w.native].of
        BY <1>1, <1>6, <2>1, <2>3 DEF IsHeap
      <4>2. p \in DOMAIN heap /\ heap[p].kind \in {"stream", "fileStream", "formContext"}
        BY <1>4, <2>4
      <4>. QED  BY <4>1, <4>2 DEF OfFits, PointsBack
    <3>. QED  BY <1>6, <2>2, <2>3, <2>4, <3>1, ReachOf
  <2>5. DOMAIN heap \ DOMAIN g \subseteq S
    BY <1>3
  <2>6. w.owns /\ w.class = "PDFPage" => w.also = g[w.native].of
    BY <1>6, <2>1, <2>3 DEF OwnerFits
  <2>. QED  BY <2>3, <2>4, <2>5, <2>6
<1>9. Sound(g, vs, session, registered)
  <2>1. \A n \in DOMAIN heap \ DOMAIN g : heap[n].kind \in Passing
    BY <1>3, <1>4 DEF Passing
  <2>2. \A n \in DOMAIN g : heap[n].kind \in {"copying", "writer"} => g[n] = heap[n]
    BY <1>6
  <2>3. vs \subseteq wrappers /\ \A w \in wrappers : w.owns => w \in vs
    BY <1>2
  <2>. QED  BY <1>1, <1>7, <1>8, <2>1, <2>2, <2>3, FreesSound
<1>10. IsEvent(g, vs, event)
  <2>1. \A n \in Pending(event) : n \in DOMAIN heap => n \in DOMAIN g /\ g[n] = heap[n]
    <3>1. \A n \in Pending(event) : n \in DOMAIN heap /\ heap[n].kind \in {"dictionary", "page", "form"}
      BY <1>1, PendingKinds
    <3>. QED  BY <1>3, <1>4, <3>1
  <2>2. vs \subseteq wrappers
    BY <1>2
  <2>. QED  BY <1>1, <1>6, <2>1, <2>2, EventStays
<1>11. ASSUME heap[c].kind = "file"
       PROVE  BusyStill(heap, wrappers, g, vs)
  <2>1. \A w \in wrappers : w.class = "PDFWriter" => w \in vs
    BY <1>1, <1>2 DEF IsSession
  <2>2. ASSUME NEW e, NEW b, IsBusy(heap, wrappers, e, b), NEW n \in b, n \in DOMAIN heap
        PROVE  /\ n \in DOMAIN g /\ g[n].kind = heap[n].kind
               /\ \A p \in heap[n].parts : p \in DOMAIN heap /\ heap[p].kind \in {"formContext", "stream"} =>
                     p \in g[n].parts /\ p \in DOMAIN g /\ g[p].kind = heap[p].kind
               /\ \A w \in wrappers : w.owns /\ w.held /\ w.native = n => w \in vs
    <3>1. n \notin {Own, Listening, Waiting}
      BY <1>1, <2>2 DEF IsHeap, Own, Listening, Waiting
    <3>2. heap[n].kind \in {"pageContext", "form", "modifier"}
      BY <2>2, <3>1 DEF IsBusy
    <3>3. n \in DOMAIN g /\ g[n] = heap[n]
      BY <1>3, <1>4, <1>11, <2>2, <3>2
    <3>4. \A p \in heap[n].parts : p \in DOMAIN heap /\ heap[p].kind \in {"formContext", "stream"} =>
                     p \in DOMAIN g /\ g[p].kind = heap[p].kind
      BY <1>3, <1>4, <1>6, <1>11
    <3>. QED  BY <1>2, <3>3, <3>4
  <2>. QED  BY <2>1, <2>2, BusyStays DEF BusyStill
<1>. QED  BY <1>9, <1>10, <1>11 DEF g

LEMMA PausingPage ==
    ASSUME DInv, ~thrown, NEW x \in Of("PageContentContext"), PausePageContentContext(x)
    PROVE  DInv'
<1>1. /\ WriterHeld(wrappers) /\ UNCHANGED <<registered, session, thrown, event>>
      /\ busy' = {} /\ event = NoEvent /\ heap' = WithoutStream(x.native)
      /\ wrappers' = wrappers \ About(StreamsOf(x.native))
  BY WhenRunning DEF PausePageContentContext, IsFree
<1>2. dangling' = FALSE
  <2>1. Reach(x.native) \cup Writer \subseteq Live
    BY <1>1, Used, WriterIsSafe
  <2>. QED  BY <2>1, Untouched DEF PausePageContentContext
<1>3. x.native \in DOMAIN heap /\ heap[x.native].kind = "pageContext"
  <2>1. x.class = "PageContentContext" /\ x.native \in Live /\ (x.owns => OwnerFits(heap, x))
        /\ (~x.owns => BorrowerFits(heap, wrappers, x))
    BY Used
  <2>. QED  BY <2>1 DEF OwnerFits, OwnerOf, BorrowerFits, BorrowerOf, Live
<1>4. heap[x.native].parts \subseteq DOMAIN heap
  BY <1>3 DEF DInv, IsHeap, ContextFits
<1>5. Sound(heap', wrappers', session, registered)
  BY <1>1, <1>3, <1>4, StreamGoes
<1>6. IsEvent(heap', wrappers', NoEvent) /\ IsBusy(heap', wrappers', NoEvent, {})
  BY NothingPending, BusyWith
<1>. QED  BY <1>1, <1>2, <1>5, <1>6 DEF DInv, Sound

\* Without a context there is no stream.
LEMMA WithoutContext ==
    ASSUME DInv, NEW c, c \notin DOMAIN heap
    PROVE  WithoutStream(c) = heap /\ About(StreamsOf(c)) = {}
<1>1. StreamsOf(c) = {} /\ About({}) = {}
  BY DEF StreamsOf, Live, About
<1>. DEFINE k == [n \in Live |-> IF n = c THEN [heap[n] EXCEPT !.parts = {}] ELSE heap[n]]
<1>2. k = heap
  <2>1. \A n \in Live : (IF n = c THEN [heap[n] EXCEPT !.parts = {}] ELSE heap[n]) = heap[n]
    BY DEF Live
  <2>2. heap = [n \in Live |-> heap[n]]
    BY DEF DInv, IsHeap, Live
  <2>3. k = [n \in Live |-> heap[n]]
    BY <2>1
  <2>. QED  BY <2>2, <2>3
<1>3. WithoutStream(c) = Freed(k, {})
  BY <1>1 DEF WithoutStream
<1>. HIDE DEF k
<1>4. Freed(heap, {}) = [n \in DOMAIN heap |-> heap[n]]
  BY DEF Freed, Restrict
<1>5. heap = [n \in DOMAIN heap |-> heap[n]]
  BY DEF DInv, IsHeap
<1>. QED  BY <1>1, <1>2, <1>3, <1>4, <1>5

LEMMA Merging ==
    ASSUME DInv, ~thrown, NEW w \in Of("PDFPage"), Merges(w), dangling' = FALSE
    PROVE  DInv'
<1>. DEFINE c == heap[w.native].of
<1>1. /\ UNCHANGED <<registered, session, event>> /\ thrown' \in BOOLEAN
      /\ busy' = {} /\ event = NoEvent /\ heap' = WithoutStream(c)
      /\ wrappers' = wrappers \ About(StreamsOf(c))
  <2>1. PICK works \in Outcomes : Throws(~works)
    BY DEF Merges
  <2>. QED  BY <2>1, ThrownIs DEF Merges, IsFree
<1>2. Sound(heap', wrappers', session, registered)
  <2>1. CASE c \notin DOMAIN heap
    <3>1. heap' = heap /\ wrappers' = wrappers
      BY <1>1, <2>1, WithoutContext
    <3>. QED  BY <3>1 DEF DInv, Sound
  <2>2. CASE c \in DOMAIN heap
    <3>1. w.class = "PDFPage" /\ w.native \in Live /\ (w.owns => OwnerFits(heap, w))
          /\ (~w.owns => BorrowerFits(heap, wrappers, w))
      BY Used
    <3>2. heap[w.native].kind = "page"
      BY <3>1 DEF OwnerFits, OwnerOf, BorrowerFits, BorrowerOf
    <3>3. OfFits(heap, w.native)
      BY <3>1 DEF DInv, IsHeap, Live
    <3>4. heap[c].kind = "pageContext"
      BY <2>2, <3>2, <3>3 DEF OfFits, PointsBack
    <3>5. heap[c].parts \subseteq DOMAIN heap
      BY <2>2, <3>4 DEF DInv, IsHeap, ContextFits
    <3>. HIDE DEF c
    <3>. QED  BY <1>1, <2>2, <3>4, <3>5, StreamGoes
  <2>. QED  BY <2>1, <2>2
<1>3. IsEvent(heap', wrappers', NoEvent) /\ IsBusy(heap', wrappers', NoEvent, {})
  BY NothingPending, BusyWith
<1>. QED  BY <1>1, <1>2, <1>3 DEF DInv, Sound

LEMMA MergingPages ==
    ASSUME DInv, ~thrown, NEW w \in Of("PDFPage"),
           \/ MergePDFPagesToPage(w)
           \/ \E x \in Of("DocumentCopyingContext") : MergePDFPageToPage(x, w)
    PROVE  DInv'
<1>1. Merges(w) /\ WriterHeld(wrappers)
  <2>1. Merges(w)
    BY DEF MergePDFPagesToPage, MergePDFPageToPage
  <2>. QED  BY <2>1, WhenRunning DEF Merges, IsFree
<1>2. Reach(w.native) \cup Writer \subseteq Live
  BY <1>1, Used, WriterIsSafe
<1>3. dangling' = FALSE
  <2>1. CASE MergePDFPagesToPage(w)
    BY <1>2, <2>1, Untouched DEF MergePDFPagesToPage
  <2>2. ASSUME NEW x \in Of("DocumentCopyingContext"), MergePDFPageToPage(x, w)
        PROVE  dangling' = FALSE
    <3>1. Reach(x.native) \cup Reach(w.native) \cup Writer \subseteq Live
      BY <1>2, Used
    <3>. QED  BY <2>2, <3>1, Untouched DEF MergePDFPageToPage
  <2>. QED  BY <2>1, <2>2
<1>. QED  BY <1>1, <1>3, Merging

LEMMA ClosingFile ==
    ASSUME DInv, ~thrown, NEW w \in Of("InputFile") \cup Of("OutputFile"), CloseFile(w)
    PROVE  DInv'
<1>1. /\ w.owns /\ UNCHANGED <<registered, session, thrown, event, busy>>
      /\ heap' = WithoutStream(w.native)
      /\ wrappers' = wrappers \ About(StreamsOf(w.native))
  BY DEF CloseFile
<1>2. /\ w.native \in DOMAIN heap /\ heap[w.native].kind = "file"
      /\ Reach(w.native) \subseteq Live /\ heap[w.native].parts \subseteq DOMAIN heap
  BY <1>1, FileIs DEF Live
<1>3. dangling' = FALSE
  BY <1>2, Untouched DEF CloseFile
<1>4. /\ Sound(heap', wrappers', session, registered) /\ IsEvent(heap', wrappers', event)
      /\ BusyStill(heap, wrappers, heap', wrappers')
  BY <1>1, <1>2, StreamGoes
<1>5. IsBusy(heap', wrappers', event, busy)
  BY <1>4 DEF DInv, BusyStill
<1>. QED  BY <1>1, <1>3, <1>4, <1>5 DEF DInv, Sound

\* A page gets or loses its context, and the wrapper that owns it knows.
LEMMA Relinks ==
    ASSUME NEW h, NEW g, NEW ws, NEW w \in ws, IsWrapped(h, ws), w.owns, w.class = "PDFPage",
           DOMAIN g = DOMAIN h, \A n \in DOMAIN h : n # w.native => g[n] = h[n],
           g[w.native].kind = "page", g[w.native].parts = {}, h[w.native].parts = {},
           \A n \in DOMAIN h : w.native \notin h[n].parts,
           NEW a \in Nat, g[w.native].of = a,
           \A v \in ws : v.held => /\ ReachIn(g, v.native) \subseteq DOMAIN g
                                   /\ \A u \in ws : ~u.held =>
                                         ReachIn(g, v.native) \cap DeletesIn(h, u) = {}
    PROVE  IsWrapped(g, (ws \ {w}) \cup {[w EXCEPT !.also = a]})
<1>. DEFINE x == [w EXCEPT !.also = a]
            vs == (ws \ {w}) \cup {x}
<1>1. /\ w \in Wrapper /\ x \in Wrapper /\ x.class = w.class /\ x.native = w.native /\ x.owns
      /\ x.held = w.held /\ x.also = a
  <2>1. w \in Wrapper
    BY DEF IsWrapped
  <2>. QED  BY <2>1 DEF Wrapper
<1>2. OwnerFits(h, w) /\ w.native \in DOMAIN h /\ h[w.native].kind = "page"
  BY DEF IsWrapped, OwnerFits, OwnerOf
<1>3. \A v \in ws : v # w /\ v.owns => v.native # w.native /\ OwnerFits(h, v)
  BY DEF IsWrapped, OwnersDiffer
<1>4. \A n \in DOMAIN h : n \in DOMAIN g /\ g[n].kind = h[n].kind /\ g[n].parts = h[n].parts
  BY <1>2
<1>5. \A n \in DOMAIN h : OwnedIn(g, n) = OwnedIn(h, n)
  <2>1. ASSUME NEW n \in DOMAIN h
        PROVE  {p \in g[n].parts \cap DOMAIN g : g[p].of = n} = {p \in h[n].parts \cap DOMAIN h : h[p].of = n}
    <3>1. \A p \in h[n].parts \cap DOMAIN h : g[p] = h[p]
      OBVIOUS
    <3>2. g[n].parts \cap DOMAIN g = h[n].parts \cap DOMAIN h
      BY <1>4
    <3>. QED  BY <3>1, <3>2
  <2>. QED  BY <1>4, <2>1 DEF OwnedIn
<1>6. \A v \in ws : DeletesIn(g, v) = DeletesIn(h, v)
  <2>1. \A v \in ws : v.owns => v.native \in DOMAIN h
    BY DEF IsWrapped, OwnerFits
  <2>. QED  BY <1>5, <2>1 DEF DeletesIn
<1>7. DeletesIn(g, x) = DeletesIn(h, w)
  <2>1. DeletesIn(g, x) = DeletesIn(g, w)
    BY <1>1 DEF DeletesIn, WithProxy
  <2>. QED  BY <1>6, <2>1
<1>. HIDE DEF x
<1>8. ASSUME NEW v \in vs, v.owns
      PROVE  OwnerFits(g, v)
  <2>1. CASE v = x
    BY <1>1, <1>2, <2>1 DEF OwnerFits, OwnerOf, WithProxy
  <2>2. CASE v \in ws /\ v # w
    <3>1. OwnerFits(h, v) /\ g[v.native] = h[v.native] /\ v.native \in DOMAIN g
      BY <1>3, <1>8, <2>2 DEF OwnerFits
    <3>2. v.class = "PDFStream" => \A n \in DOMAIN g : v.native \notin g[n].parts
      BY <1>4, <3>1 DEF OwnerFits
    <3>3. v.class \in WithProxy /\ v.also # None => g[v.also] = h[v.also]
      BY <1>2, <3>1 DEF OwnerFits
    <3>. QED  BY <3>1, <3>2, <3>3 DEF OwnerFits
  <2>. QED  BY <2>1, <2>2
<1>9. ASSUME NEW v \in vs, ~v.owns
      PROVE  BorrowerFits(g, vs, v)
  <2>1. v \in ws /\ BorrowerFits(h, ws, v) /\ v.native \in DOMAIN h
    BY <1>1, <1>9 DEF IsWrapped, BorrowerFits
  <2>2. ASSUME v.class = "XObjectContentContext"
        PROVE  \E u \in vs : u.owns /\ u.native = g[v.native].of
    <3>1. PICK u \in ws : u.owns /\ u.native = h[v.native].of
      BY <2>1, <2>2 DEF BorrowerFits
    <3>2. g[v.native] = h[v.native]
      BY <1>2, <2>1, <2>2 DEF BorrowerFits, BorrowerOf
    <3>. QED  BY <1>1, <3>1, <3>2
  <2>. QED  BY <1>4, <2>1, <2>2 DEF BorrowerFits
<1>10. OwnersDiffer(vs)
  <2>1. OwnersDiffer(ws) /\ \A v \in ws : v # w /\ v.owns => v.native # x.native
    BY <1>1, <1>3 DEF IsWrapped
  <2>2. x.class \notin WithProxy
    BY <1>1 DEF WithProxy
  <2>. QED  BY <2>1, <2>2 DEF OwnersDiffer
<1>11. OneDictionary(vs)
  <2>1. x.class # "DictionaryContext"
    BY <1>1
  <2>. QED  BY <2>1 DEF IsWrapped, OneDictionary
<1>12. ParsersOwned(g, vs)
  <2>1. ASSUME NEW p \in DOMAIN g, g[p].kind = "parser"
        PROVE  \E v \in vs : v.owns /\ p \in DeletesIn(g, v)
    <3>1. PICK v \in ws : v.owns /\ p \in DeletesIn(h, v)
      BY <1>4, <2>1 DEF IsWrapped, ParsersOwned
    <3>. QED  BY <1>1, <1>6, <1>7, <3>1
  <2>. QED  BY <2>1 DEF ParsersOwned
<1>13. ASSUME NEW v \in vs, v.held
       PROVE  Safe(g, vs, v.native)
  <2>1. PICK y \in ws : y.held /\ y.native = v.native
    BY <1>1, <1>13
  <2>2. /\ ReachIn(g, v.native) \subseteq DOMAIN g
        /\ \A u \in ws : ~u.held => ReachIn(g, v.native) \cap DeletesIn(h, u) = {}
    BY <2>1
  <2>3. \A u \in vs : ~u.held => \E z \in ws : ~z.held /\ DeletesIn(g, u) = DeletesIn(h, z)
    BY <1>1, <1>6, <1>7
  <2>4. v.native \in DOMAIN g
    BY <2>1 DEF IsWrapped, Safe
  <2>. QED  BY <2>2, <2>3, <2>4 DEF Safe
<1>14. vs \subseteq Wrapper
  BY <1>1 DEF IsWrapped
<1>. QED  BY <1>8, <1>9, <1>10, <1>11, <1>12, <1>13, <1>14 DEF IsWrapped, x

\* Pages are written, and files opened, by the wrappers that own them.
OwnersOnly == ~WritesBorrowedPages /\ ~OpensBorrowedFiles

\* The context that a page ends with, and the rest.
EndedWith(w) == IF w.also = None THEN {} ELSE {w.also} \cup StreamsOf(w.also)
Parting(w) == [n \in Live |-> IF w.also # None /\ heap[n].of = w.also
                              THEN [heap[n] EXCEPT !.of = None] ELSE heap[n]]
Parted(w) == Freed(Parting(w), EndedWith(w))
Keeping(w) == (wrappers \ (About(EndedWith(w)) \cup {w})) \cup {Written(w)}

\* A page and its context.
LEMMA PageContextIs ==
    ASSUME DInv, NEW w \in Of("PDFPage"), w.owns, w.also # None
    PROVE  /\ w \in wrappers /\ w.class = "PDFPage" /\ w.native \in DOMAIN heap
           /\ w.also = heap[w.native].of /\ heap[w.native].kind = "page" /\ heap[w.native].parts = {}
           /\ w.also \in DOMAIN heap /\ heap[w.also].kind = "pageContext" /\ heap[w.also].of = w.native
           /\ \A n \in DOMAIN heap : heap[n].of = w.also => n = w.native
           /\ \A n \in DOMAIN heap : w.native \notin heap[n].parts /\ w.also \notin heap[n].parts
           /\ heap[w.also].parts \subseteq DOMAIN heap
           /\ \A p \in heap[w.also].parts : heap[p].kind = "stream" /\ heap[p].of = None
           /\ \A m \in DOMAIN heap : m # w.also => heap[m].parts \cap heap[w.also].parts = {}
<1>1. /\ w \in wrappers /\ w.class = "PDFPage" /\ w.native \in DOMAIN heap /\ OwnerFits(heap, w)
      /\ Safe(heap, wrappers, w.native)
  BY Used DEF Live
<1>2. /\ IsHeap(heap) /\ \A n \in DOMAIN heap : PartsFit(heap, n) /\ OfFits(heap, n) /\ ContextFits(heap, n)
  BY DEF DInv, IsHeap
<1>3. heap[w.native].kind = "page" /\ w.also = heap[w.native].of /\ heap[w.native].parts = {}
  BY <1>1, <1>2 DEF OwnerFits, OwnerOf, PartsFit, Childless
<1>4. w.also \in DOMAIN heap
  BY <1>1, <1>3 DEF Safe, ReachIn
<1>5. heap[w.also].kind = "pageContext" /\ heap[w.also].of = w.native
  BY <1>1, <1>2, <1>3, <1>4 DEF OfFits, PointsBack
<1>6. \A n \in DOMAIN heap : heap[n].of = w.also => n = w.native
  BY <1>2, <1>4, <1>5 DEF OfFits, PointsBack
<1>7. \A n \in DOMAIN heap : w.native \notin heap[n].parts /\ w.also \notin heap[n].parts
  BY <1>1, <1>2, <1>3, <1>4, <1>5 DEF PartsFit, HasPart, Deletable, Lent
<1>8. /\ heap[w.also].parts \subseteq DOMAIN heap
      /\ \A m \in DOMAIN heap : m # w.also => heap[m].parts \cap heap[w.also].parts = {}
  BY <1>2, <1>4, <1>5 DEF ContextFits
<1>9. \A p \in heap[w.also].parts : heap[p].kind = "stream" /\ heap[p].of = None
  BY <1>2, <1>4, <1>5, <1>8 DEF PartsFit, HasPart, Deletable, Lent
<1>. QED  BY <1>1, <1>3, <1>4, <1>5, <1>6, <1>7, <1>8, <1>9

\* A page's context ends with its stream, and nothing is left that needs them.
LEMMA ContextEnds ==
    ASSUME DInv, NEW w \in Of("PDFPage"), w.owns, w.also # None
    PROVE  /\ Sound(Parted(w), Keeping(w), session, registered)
           /\ DOMAIN Parted(w) \subseteq DOMAIN heap
           /\ \A n \in DOMAIN Parted(w) : /\ Parted(w)[n].of \in {heap[n].of, None}
                                          /\ Parted(w)[n].parts = heap[n].parts
<1>. DEFINE c == w.also
            S == heap[c].parts
            E == EndedWith(w)
            f == Parting(w)
            g == Parted(w)
            ws == (wrappers \ {w}) \cup {Written(w)}
            vs == Keeping(w)
<1>1. /\ IsHeap(heap) /\ IsWrapped(heap, wrappers) /\ IsSession(heap, wrappers, session, registered)
      /\ None \notin DOMAIN heap /\ \A n \in DOMAIN heap : heap[n] \in Record
  BY DEF DInv, IsHeap, None
<1>2. /\ w \in wrappers /\ w.class = "PDFPage" /\ w.native \in DOMAIN heap /\ w.native # c
      /\ c = heap[w.native].of /\ heap[w.native].kind = "page" /\ heap[w.native].parts = {}
      /\ c \in DOMAIN heap /\ heap[c].kind = "pageContext" /\ heap[c].of = w.native
      /\ \A n \in DOMAIN heap : heap[n].of = c => n = w.native
      /\ \A n \in DOMAIN heap : w.native \notin heap[n].parts /\ c \notin heap[n].parts
      /\ S \subseteq DOMAIN heap
      /\ \A p \in S : heap[p].kind = "stream" /\ heap[p].of = None
      /\ \A m \in DOMAIN heap : m # c => heap[m].parts \cap S = {}
  BY PageContextIs
<1>3. /\ DOMAIN f = DOMAIN heap /\ f = [n \in DOMAIN f |-> f[n]]
      /\ \A n \in DOMAIN heap : n # w.native => f[n] = heap[n]
      /\ f[w.native] = [heap[w.native] EXCEPT !.of = None]
  BY <1>2 DEF Parting, Live
<1>4. E = {c} \cup S
  BY <1>2 DEF EndedWith, StreamsOf, Live
<1>5. /\ DOMAIN g = DOMAIN heap \ E
      /\ \A n \in DOMAIN heap \ E : g[n] = f[n]
      /\ g = [n \in DOMAIN f \ E |-> f[n]]
  <2>1. g = Freed(f, E)
    BY DEF Parted
  <2>. HIDE DEF f, E, g
  <2>2. /\ DOMAIN Freed(f, E) = DOMAIN f \ E
        /\ \A n \in DOMAIN f \ E : Freed(f, E)[n] = f[n]
    BY FreedIs
  <2>3. Freed(f, E) = [n \in DOMAIN f \ E |-> f[n]]
    BY DEF Freed, Restrict
  <2>. QED  BY <1>3, <2>1, <2>2, <2>3
<1>6. vs = ws \ About(E) /\ ws = (wrappers \ {w}) \cup {[w EXCEPT !.also = None]}
      /\ Written(w).owns /\ Written(w).class = "PDFPage" /\ Written(w).native = w.native
  <2>1. w \in Wrapper
    BY <1>1, <1>2 DEF IsWrapped
  <2>2. Written(w).owns /\ Written(w).class = "PDFPage" /\ Written(w).native = w.native
    BY <1>2, <2>1 DEF Written, Wrapper
  <2>3. Written(w) \notin About(E)
    BY <2>2, AboutAreLent
  <2>. QED  BY <2>2, <2>3 DEF Keeping, Written
<1>. HIDE DEF f, g, vs, ws, E
<1>7. /\ f[w.native].kind = "page" /\ f[w.native].parts = {} /\ f[w.native].of = None
      /\ f[w.native] \in Record
  <2>1. heap[w.native] \in Record
    BY <1>1, <1>2
  <2>. QED  BY <1>2, <1>3, <2>1 DEF Record, None
<1>8. \A n \in DOMAIN heap : /\ f[n] \in Record /\ f[n].kind = heap[n].kind /\ f[n].parts = heap[n].parts
                             /\ f[n].of \in {heap[n].of, None}
                             /\ f[n].of # c
                             /\ n # w.native => f[n].of = heap[n].of
  <2>1. ASSUME NEW n \in DOMAIN heap, n # w.native
        PROVE  /\ f[n] \in Record /\ f[n] = heap[n] /\ f[n].of # c
    BY <1>1, <1>2, <1>3, <2>1
  <2>2. f[w.native].of # c
    BY <1>1, <1>2, <1>7
  <2>. QED  BY <1>2, <1>7, <2>1, <2>2
<1>9. \A n \in DOMAIN heap : ReachIn(f, n) \subseteq ReachIn(heap, n)
  <2>1. ASSUME NEW n \in DOMAIN heap, NEW p \in ReachIn(f, n)
        PROVE  p \in ReachIn(heap, n)
    <3>1. /\ p # None
          /\ \/ p = n
             \/ p = f[n].of
             \/ p \in f[n].parts
             \/ \E q \in f[n].parts \cap DOMAIN f : p \in f[q].parts
      BY <1>3, <2>1, ReachOf
    <3>2. \/ p = n
          \/ p = heap[n].of
          \/ p \in heap[n].parts
          \/ \E q \in heap[n].parts \cap DOMAIN heap : p \in heap[q].parts
      BY <1>3, <1>8, <3>1
    <3>. QED  BY <3>1, <3>2 DEF ReachIn
  <2>. QED  BY <2>1
<1>10. IsWrapped(f, ws)
  <2>1. \A v \in wrappers : v.held =>
              /\ ReachIn(f, v.native) \subseteq DOMAIN f
              /\ \A u \in wrappers : ~u.held => ReachIn(f, v.native) \cap DeletesIn(heap, u) = {}
    <3>1. \A v \in wrappers : v.held => Safe(heap, wrappers, v.native)
      BY <1>1 DEF IsWrapped
    <3>. QED  BY <1>3, <1>9, <3>1 DEF Safe
  <2>2. None \in Nat
    BY DEF None
  <2>3. IsWrapped(f, (wrappers \ {w}) \cup {[w EXCEPT !.also = None]})
    BY <1>1, <1>2, <1>3, <1>7, <2>1, <2>2, Relinks
  <2>. QED  BY <1>6, <2>3
<1>11. \A n \in DOMAIN g : /\ n \in DOMAIN heap /\ n # c /\ n \notin S /\ g[n] = f[n]
                           /\ f[n].parts \cap E = {}
  <2>1. ASSUME NEW n \in DOMAIN heap, n # c
        PROVE  f[n].parts \cap E = {}
    BY <1>2, <1>4, <1>8, <2>1
  <2>. QED  BY <1>4, <1>5, <2>1
<1>12. /\ g \in [DOMAIN g -> Record]
       /\ \A n \in DOMAIN g : g[n].kind = "pageContext" => g[n].parts \subseteq DOMAIN g
  <2>1. g \in [DOMAIN g -> Record]
    <3>1. g = [n \in DOMAIN f \ E |-> f[n]] /\ DOMAIN g = DOMAIN f \ E
      BY <1>3, <1>5
    <3>2. \A n \in DOMAIN f \ E : f[n] \in Record
      BY <1>3, <1>8
    <3>. QED  BY <3>1, <3>2
  <2>2. ASSUME NEW n \in DOMAIN g, g[n].kind = "pageContext"
        PROVE  g[n].parts \subseteq DOMAIN g
    <3>1. heap[n].parts \subseteq DOMAIN heap /\ g[n].parts = heap[n].parts
      BY <1>1, <1>8, <1>11, <2>2 DEF IsHeap, ContextFits
    <3>. QED  BY <1>5, <1>8, <1>11, <3>1
  <2>. QED  BY <2>1, <2>2
<1>13. Shrinks(f, g)
  BY <1>3, <1>5, <1>11, <1>12 DEF Shrinks
<1>14. Shrinks(heap, g)
  <2>1. \A n \in DOMAIN g :
          /\ g[n].kind = heap[n].kind /\ g[n].parts = heap[n].parts
          /\ \/ g[n].of = heap[n].of
             \/ g[n].of = None /\ g[n].kind = "page" /\ heap[n].of \notin DOMAIN g
    <3>1. ASSUME NEW n \in DOMAIN g, n # w.native
          PROVE  g[n].kind = heap[n].kind /\ g[n].parts = heap[n].parts /\ g[n].of = heap[n].of
      BY <1>8, <1>11, <3>1
    <3>2. ASSUME w.native \in DOMAIN g
          PROVE  /\ g[w.native].kind = heap[w.native].kind /\ g[w.native].parts = heap[w.native].parts
                 /\ g[w.native].of = None /\ g[w.native].kind = "page" /\ heap[w.native].of \notin DOMAIN g
      BY <1>2, <1>4, <1>5, <1>7, <1>8, <1>11, <3>2
    <3>. QED  BY <3>1, <3>2
  <2>. QED  BY <1>5, <1>12, <2>1 DEF Shrinks
<1>15. IsHeap(g)
  BY <1>1, <1>14, ShrinksHeap
<1>16. \A p \in E : p \in DOMAIN heap /\ f[p].kind \in {"pageContext", "stream"}
  BY <1>2, <1>4, <1>8
<1>17. ASSUME NEW v \in ws, v.owns
       PROVE  v.native \in DOMAIN g /\ OwnerFits(f, v)
  <2>1. OwnerFits(f, v) /\ v.native \in DOMAIN f
    BY <1>10, <1>17 DEF IsWrapped, OwnerFits
  <2>2. v.native # c
    BY <1>2, <1>4, <1>8, <2>1 DEF OwnerFits, OwnerOf
  <2>3. ASSUME v.native \in S
        PROVE  FALSE
    <3>1. v.class = "PDFStream"
      BY <1>2, <1>8, <2>1, <2>3 DEF OwnerFits, OwnerOf
    <3>. QED  BY <1>2, <1>3, <1>8, <2>1, <2>3, <3>1 DEF OwnerFits
  <2>. QED  BY <1>3, <1>4, <1>5, <2>1, <2>2, <2>3
<1>18. vs \subseteq ws /\ \A v \in ws : v.owns => v \in vs
  BY <1>6, AboutAreLent
<1>19. ParsersOwned(g, vs)
  <2>1. ASSUME NEW p \in DOMAIN g, g[p].kind = "parser"
        PROVE  \E v \in vs : v.owns /\ p \in DeletesIn(g, v)
    <3>1. p \in DOMAIN f /\ f[p].kind = "parser" /\ g[p] = f[p]
      BY <1>3, <1>11, <2>1
    <3>2. PICK v \in ws : v.owns /\ p \in DeletesIn(f, v)
      BY <1>10, <3>1 DEF IsWrapped, ParsersOwned
    <3>3. v.native \in DOMAIN g /\ g[v.native] = f[v.native] /\ v.native \in DOMAIN f
      BY <1>3, <1>11, <1>17, <3>2
    <3>4. p \in OwnedIn(f, v.native) => p \in OwnedIn(g, v.native)
      BY <2>1, <3>1, <3>3 DEF OwnedIn
    <3>5. p \in DeletesIn(g, v)
      BY <3>2, <3>4 DEF DeletesIn
    <3>. QED  BY <1>18, <3>2, <3>5
  <2>. QED  BY <2>1 DEF ParsersOwned
<1>20. ASSUME NEW v \in vs
       PROVE  /\ v.native \in DOMAIN g
              /\ v.owns /\ v.class \in WithProxy /\ v.also # None => v.also \in DOMAIN g
              /\ v.owns /\ v.class = "PDFPage" => v.also = g[v.native].of
              /\ v.held => ReachIn(g, v.native) \subseteq DOMAIN g
  <2>1. v \in ws
    BY <1>18
  <2>2. v.native \in DOMAIN g
    <3>1. CASE v.owns
      BY <1>17, <2>1, <3>1
    <3>2. CASE ~v.owns
      <4>1. v.native \in DOMAIN f /\ v \in wrappers
        BY <1>6, <1>10, <2>1, <3>2 DEF IsWrapped, BorrowerFits, ws
      <4>2. v.native \notin E
        BY <1>6, <3>2, <4>1 DEF About
      <4>. QED  BY <1>3, <1>5, <4>1, <4>2
    <3>. QED  BY <3>1, <3>2
  <2>3. ASSUME v.owns
        PROVE  /\ v.class \in WithProxy /\ v.also # None => v.also \in DOMAIN g
               /\ v.class = "PDFPage" => v.also = g[v.native].of
    <3>1. OwnerFits(f, v) /\ g[v.native] = f[v.native]
      BY <1>11, <1>17, <2>1, <2>2, <2>3
    <3>2. v.class \in WithProxy /\ v.also # None => v.also \in DOMAIN f /\ f[v.also].kind = "proxy"
      BY <3>1 DEF OwnerFits
    <3>3. v.class \in WithProxy /\ v.also # None => v.also \in DOMAIN g
      BY <1>3, <1>5, <1>16, <3>2
    <3>. QED  BY <3>1, <3>3 DEF OwnerFits
  <2>4. ASSUME v.held, NEW p \in ReachIn(g, v.native)
        PROVE  p \in DOMAIN g
    <3>1. Safe(f, ws, v.native)
      BY <1>10, <2>1, <2>4 DEF IsWrapped
    <3>2. None \notin DOMAIN f
      BY <1>1, <1>3
    <3>3. p \in DOMAIN f
      BY <1>13, <2>2, <2>4, <3>1, <3>2, ShrinksReachOf DEF Safe
    <3>4. p \notin E
      <4>1. \/ p = v.native
            \/ p = g[v.native].of
            \/ p \in g[v.native].parts
            \/ \E q \in g[v.native].parts \cap DOMAIN g : p \in g[q].parts
        BY <2>2, <2>4, ReachOf
      <4>2. CASE p = v.native
        BY <1>5, <2>2, <4>2
      <4>3. CASE p = g[v.native].of
        <5>1. p # c
          BY <1>8, <1>11, <2>2, <4>3
        <5>2. p \notin S
          <6>1. OfFits(g, v.native)
            BY <1>15, <2>2 DEF IsHeap
          <6>2. OfFits(heap, v.native) /\ v.native \in DOMAIN heap
            BY <1>1, <1>11, <2>2 DEF IsHeap
          <6>3. p \in {heap[v.native].of, None}
            BY <1>8, <1>11, <2>2, <4>3
          <6>. QED  BY <1>1, <1>2, <6>2, <6>3 DEF OfFits, PointsBack
        <5>. QED  BY <1>4, <5>1, <5>2
      <4>4. CASE p \in g[v.native].parts
        BY <1>11, <2>2, <4>4
      <4>5. CASE \E q \in g[v.native].parts \cap DOMAIN g : p \in g[q].parts
        BY <1>11, <4>5
      <4>. QED  BY <4>1, <4>2, <4>3, <4>4, <4>5
    <3>. QED  BY <1>3, <1>5, <3>3, <3>4
  <2>. QED  BY <2>2, <2>3, <2>4
<1>21. IsWrapped(g, vs)
  <2>1. None \notin DOMAIN f
    BY <1>1, <1>3
  <2>2. \A v \in ws : v.owns /\ v.native \in DOMAIN g => v \in vs
    BY <1>18
  <2>3. vs \subseteq ws
    BY <1>18
  <2>. QED  BY <1>10, <1>13, <1>19, <1>20, <2>1, <2>2, <2>3, ShrinksWrappers
<1>22. IsSession(g, vs, session, registered)
  <2>1. SameWriters(wrappers, vs)
    <3>1. \A v \in wrappers : v.class = "PDFWriter" => v.owns
      BY <1>1 DEF IsSession
    <3>2. \A v : v.class = "PDFWriter" => (v \in wrappers <=> v \in ws)
      BY <1>2, <1>6 DEF ws
    <3>. QED  BY <1>6, <1>18, <3>1, <3>2 DEF SameWriters
  <2>2. \A n \in DOMAIN heap : heap[n].kind \in {"writer", "copying", "font"} =>
                                 n \in DOMAIN g /\ g[n] = heap[n]
    BY <1>2, <1>3, <1>4, <1>5
  <2>3. \A n \in DOMAIN g : g[n].kind \in {"writer", "font", "copying"} =>
                                 n \in DOMAIN heap /\ g[n] = heap[n]
    <3>1. ASSUME NEW n \in DOMAIN g, g[n].kind \in {"writer", "font", "copying"}
          PROVE  n \in DOMAIN heap /\ g[n] = heap[n]
      <4>1. n \in DOMAIN heap /\ g[n] = f[n]
        BY <1>11
      <4>2. n # w.native
        BY <1>7, <3>1, <4>1
      <4>. QED  BY <1>3, <4>1, <4>2
    <3>. QED  BY <3>1
  <2>4. session.writer \in DOMAIN heap =>
            session.writer \in DOMAIN g /\ heap[session.writer].parts \subseteq g[session.writer].parts
    <3>1. ASSUME session.writer \in DOMAIN heap
          PROVE  heap[session.writer].kind = "writer"
      <4>1. PICK v \in wrappers : v.class = "PDFWriter" /\ v.native = session.writer
        BY <1>1, <3>1 DEF IsSession
      <4>2. v.owns
        BY <1>1, <4>1 DEF IsSession
      <4>. QED  BY <1>1, <4>1, <4>2 DEF IsWrapped, OwnerFits, OwnerOf
    <3>. QED  BY <2>2, <3>1
  <2>. QED  BY <1>1, <2>1, <2>2, <2>3, <2>4, SessionStays
<1>23. DOMAIN g \subseteq DOMAIN heap /\ \A n \in DOMAIN g : g[n].of \in {heap[n].of, None}
                                                            /\ g[n].parts = heap[n].parts
  BY <1>8, <1>11
<1>. QED  BY <1>15, <1>21, <1>22, <1>23 DEF Sound, g, vs

\* A page without a context stays as it is.
LEMMA NothingEnds ==
    ASSUME DInv, NEW w \in Of("PDFPage"), w.also = None
    PROVE  Parted(w) = heap /\ Keeping(w) = wrappers
<1>1. EndedWith(w) = {} /\ About({}) = {}
  BY DEF EndedWith, About
<1>2. w \in wrappers /\ w \in Wrapper
  BY Used
<1>3. Written(w) = w
  BY <1>2 DEF Written, Wrapper
<1>4. Keeping(w) = wrappers
  BY <1>1, <1>2, <1>3 DEF Keeping
<1>5. heap = [n \in DOMAIN heap |-> heap[n]]
  BY DEF DInv, IsHeap
<1>6. Parting(w) = heap
  <2>1. Parting(w) = [n \in DOMAIN heap |-> heap[n]]
    BY DEF Parting, Live
  <2>. QED  BY <1>5, <2>1
<1>7. Freed(heap, {}) = [n \in DOMAIN heap |-> heap[n]]
  BY DEF Freed, Restrict
<1>. QED  BY <1>1, <1>4, <1>5, <1>6, <1>7 DEF Parted

LEMMA WritingPage ==
    ASSUME OwnersOnly, DInv, ~thrown, NEW w \in Of("PDFPage"), WritePageAndReturnID(w)
    PROVE  DInv'
<1>. DEFINE h == Parted(w)
            vs == Keeping(w)
            rs == Dictionaries(2)
            e == Called("page", Left(1, 2), {}, {})
<1>1. /\ w.owns /\ WriterHeld(wrappers) /\ UNCHANGED <<registered, session, thrown>>
      /\ Room(2) /\ busy' = {Listening} /\ event' = e /\ 2 \in 1 .. 3 /\ 2 \in 1 .. 2 /\ 1 \in 1 .. 2
      /\ Touches({w.native} \cup (IF w.also = None THEN {} ELSE Reach(w.also)) \cup Writer)
  BY WhenRunning DEF WritePageAndReturnID, IsFree, OwnersOnly
<1>2. heap' = Created(h, rs) /\ wrappers' = vs \cup {Handed(New(2))}
  <2>1. heap' = Created(h, rs)
    BY DEF WritePageAndReturnID, Parted, Parting, EndedWith
  <2>2. wrappers' = (wrappers \ (About(EndedWith(w)) \cup {w})) \cup {Written(w), Handed(New(2))}
    BY DEF WritePageAndReturnID, EndedWith
  <2>. QED  BY <2>1, <2>2 DEF Keeping
<1>3. w \in wrappers /\ w \in Wrapper /\ w.native \in Live
  BY Used
<1>4. dangling' = FALSE
  <2>1. w.also # None => Safe(heap, wrappers, w.also)
    <3>1. ASSUME w.also # None
          PROVE  Safe(heap, wrappers, w.also)
      <4>1. /\ w.native \in DOMAIN heap /\ heap[w.native].kind = "page" /\ w.also = heap[w.native].of
            /\ heap[w.also].of = w.native /\ heap[w.also].kind = "pageContext"
            /\ w.also \in DOMAIN heap
            /\ heap[w.also].parts \subseteq DOMAIN heap
            /\ \A p \in heap[w.also].parts : heap[p].kind = "stream" /\ heap[p].of = None
        BY <1>1, <3>1, PageContextIs
      <4>2. \A p \in heap[w.also].parts : heap[p].parts = {}
        BY <4>1 DEF DInv, IsHeap, PartsFit, Childless
      <4>3. ReachIn(heap, w.also) \subseteq {w.also, w.native} \cup heap[w.also].parts
        BY <4>1, <4>2 DEF ReachIn
      <4>4. ASSUME NEW v \in wrappers, ~v.held, NEW p \in ReachIn(heap, w.also), p \in DeletesIn(heap, v)
            PROVE  FALSE
        <5>1. v.owns /\ OwnerFits(heap, v)
          BY <4>4 DEF DeletesIn, DInv, IsWrapped
        <5>2. /\ p \in DOMAIN heap /\ p # None /\ v.native \in DOMAIN heap /\ v.native # None
              /\ \/ p = v.native
                 \/ p \in heap[v.native].parts /\ heap[p].of = v.native
                 \/ p = v.also /\ v.class \in WithProxy /\ heap[p].kind = "proxy" /\ heap[p].of = None
          BY <4>4, <5>1, DeletedIs DEF DInv
        <5>3. Safe(heap, wrappers, w.native) /\ w.native \in ReachIn(heap, w.native)
              /\ w.also \in ReachIn(heap, w.native)
          <6>1. w.native # None /\ Safe(heap, wrappers, w.native)
            BY Used
          <6>. QED  BY <3>1, <4>1, <6>1 DEF ReachIn
        <5>4. p \notin {w.also, w.native}
          BY <4>4, <5>3 DEF Safe
        <5>5. p \in heap[w.also].parts /\ heap[p].kind = "stream" /\ heap[p].of = None
          BY <4>1, <4>3, <4>4, <5>4
        <5>6. p = v.native
          BY <5>2, <5>5
        <5>7. v.class = "PDFStream"
          BY <5>1, <5>5, <5>6 DEF OwnerFits, OwnerOf
        <5>. QED  BY <4>1, <5>1, <5>5, <5>6, <5>7 DEF OwnerFits
      <4>. QED  BY <4>1, <4>3, <4>4 DEF Safe
    <3>. QED  BY <3>1
  <2>2. (IF w.also = None THEN {} ELSE Reach(w.also)) \subseteq Live
    BY <2>1, Reaches DEF Safe, Live
  <2>. QED  BY <1>1, <1>3, <2>2, WriterIsSafe, Untouched
<1>5. /\ Sound(h, vs, session, registered)
      /\ DOMAIN h \subseteq DOMAIN heap
      /\ \A n \in DOMAIN h : h[n].of \in {heap[n].of, None} /\ h[n].parts = heap[n].parts
  <2>1. CASE w.also = None
    BY <2>1, NothingEnds DEF DInv, Sound
  <2>2. CASE w.also # None
    BY <1>1, <2>2, ContextEnds
  <2>. QED  BY <2>1, <2>2
<1>6. WriterHeld(vs)
  <2>1. PICK v \in wrappers : v.class = "PDFWriter" /\ v.held
    BY <1>1 DEF WriterHeld
  <2>2. v.owns /\ v # w
    <3>1. w.class = "PDFPage"
      BY Used
    <3>. QED  BY <2>1, <3>1 DEF DInv, IsSession
  <2>. QED  BY <2>1, <2>2, AboutAreLent DEF WriterHeld, Keeping
<1>7. IsFresh(h, vs, NewOnes(2))
  <2>1. IsFresh(heap, wrappers, NewOnes(2))
    BY <1>1, NewAreFresh DEF NewOnes
  <2>2. Written(w).native = w.native /\ Written(w).also = None
    BY <1>3 DEF Written, Wrapper
  <2>3. \A v \in vs : v \in wrappers \/ v = Written(w)
    BY DEF Keeping
  <2>4. None \notin DOMAIN heap
    BY DEF DInv, IsHeap, None
  <2>. HIDE DEF h, vs
  <2>. QED  BY <1>3, <1>5, <2>1, <2>2, <2>3, <2>4, FreshStays
<1>8. DOMAIN h \subseteq Live
  BY <1>5 DEF Live
<1>. HIDE DEF h, vs
<1>9. DOMAIN rs = 1 .. 2 /\ \A i \in 1 .. 2 : /\ rs[i] \in Record /\ rs[i].of = None /\ rs[i].parts = {}
                                             /\ rs[i].kind = "dictionary"
  BY DictionariesAre
<1>. HIDE DEF rs
<1>10. IsAbout(e, rs, 2)
  <2>1. /\ New(1) \in Nat /\ New(2) \in Nat /\ New(1) # New(2)
    <3>1. \A i \in 1 .. 2 : New(i) \in Unused
      BY <1>1, NewAddresses
    <3>2. \A i, j \in 1 .. 2 : New(i) = New(j) => i = j
      BY <1>1, NewAddresses
    <3>3. New(1) \in Unused /\ New(2) \in Unused
      BY <3>1
    <3>4. New(1) # New(2)
      BY <3>2
    <3>. QED  BY <3>3, <3>4 DEF Unused
  <2>2. e = Called("page", <<New(2), New(1)>>, {}, {})
    BY DEF Left
  <2>. HIDE DEF e
  <2>3. /\ e.call = "page" /\ e.left = <<New(2), New(1)>> /\ e.frees = {} /\ e.gives = {}
        /\ e \in [call : {"none", "write", "page", "modify", "end"}, left : Seq(Nat), frees : SUBSET Nat,
                  gives : SUBSET Wrapper]
    BY <2>1, <2>2 DEF Called
  <2>. QED  BY <1>9, <2>1, <2>3 DEF IsAbout
<1>. HIDE DEF e
<1>11. /\ Sound(heap', vs \cup {Handed(New(2))}, session, registered)
       /\ IsEvent(heap', vs \cup {Handed(New(2))}, e)
  <2>1. heap' = Created(h, rs)
    BY <1>2
  <2>. QED  BY <1>1, <1>5, <1>7, <1>8, <1>9, <1>10, <2>1, HandsNew
<1>12. IsBusy(heap', wrappers', event', busy')
  BY <1>1, <1>2, <1>6, BusyWith DEF WriterHeld
<1>. QED  BY <1>1, <1>2, <1>4, <1>11, <1>12 DEF DInv, Sound

\* A form that was started by a modifier ends: its parts go, and its dictionary is handed on.
LEMMA EndingModified ==
    ASSUME DInv, ~thrown, NEW w \in Of("PDFPageModifier"), busy # {}, busy \subseteq {w.native},
           WriterHeld(wrappers), dangling' = FALSE, NEW call \in {"write", "modify"}, Ends(w, call)
    PROVE  DInv'
<1>. DEFINE n == w.native
            S == heap[n].parts
            h == [Freed(heap, S) EXCEPT ![n].parts = {}]
            vs == wrappers \ About(S)
            rs == Dictionaries(1)
            e == Called(call, Left(1, 1), {}, {})
<1>1. /\ UNCHANGED <<registered, session, thrown>> /\ Room(1) /\ busy' = {Listening} /\ event' = e
      /\ heap' = Created(h, rs) /\ wrappers' = vs \cup {Handed(New(1))} /\ 1 \in 1 .. 3 /\ 1 \in 1 .. 1
  BY DEF Ends
<1>2. /\ n \in DOMAIN heap /\ heap[n].kind = "modifier" /\ Safe(heap, wrappers, n)
  <2>1. w.class = "PDFPageModifier" /\ w.native \in Live /\ (w.owns => OwnerFits(heap, w))
        /\ (~w.owns => BorrowerFits(heap, wrappers, w)) /\ Safe(heap, wrappers, w.native)
    BY Used
  <2>. QED  BY <2>1 DEF OwnerFits, OwnerOf, BorrowerFits, BorrowerOf, Live
<1>3. S \subseteq DOMAIN heap /\ None \notin S
  <2>1. None \notin S
    BY <1>2 DEF DInv, IsHeap, Record
  <2>. QED  BY <1>2, <2>1 DEF Safe, ReachIn
<1>4. n \notin S
  BY <1>2, <1>3 DEF DInv, IsHeap, PartsFit, HasPart, Deletable, Lent
<1>5. h = WithoutStream(n) /\ StreamsOf(n) = S
  <2>. DEFINE k == [m \in Live |-> IF m = n THEN [heap[m] EXCEPT !.parts = {}] ELSE heap[m]]
  <2>1. StreamsOf(n) = S /\ WithoutStream(n) = Freed(k, S)
    BY <1>2 DEF StreamsOf, Live, WithoutStream
  <2>2. DOMAIN k = DOMAIN heap /\ (\A m \in DOMAIN heap : m # n => k[m] = heap[m])
        /\ k[n] = [heap[n] EXCEPT !.parts = {}]
    BY <1>2 DEF Live
  <2>3. Freed(heap, S) = [m \in DOMAIN heap \ S |-> heap[m]]
    BY DEF Freed, Restrict
  <2>4. h = [m \in DOMAIN heap \ S |-> IF m = n THEN [heap[m] EXCEPT !.parts = {}] ELSE heap[m]]
    BY <1>2, <1>4, <2>3
  <2>. HIDE DEF k, h, n, S
  <2>5. Freed(k, S) = [m \in DOMAIN k \ S |-> k[m]]
    BY DEF Freed, Restrict
  <2>6. \A m \in DOMAIN heap \ S : k[m] = IF m = n THEN [heap[m] EXCEPT !.parts = {}] ELSE heap[m]
    BY <2>2
  <2>7. Freed(k, S) = [m \in DOMAIN heap \ S |-> IF m = n THEN [heap[m] EXCEPT !.parts = {}] ELSE heap[m]]
    BY <2>2, <2>5, <2>6
  <2>. QED  BY <2>1, <2>4, <2>7
<1>. HIDE DEF h
<1>6. Sound(h, vs, session, registered)
  <2>. HIDE DEF S, n
  <2>1. vs = wrappers \ About(StreamsOf(n))
    BY <1>5
  <2>. HIDE DEF vs
  <2>2. heap[n].parts \subseteq DOMAIN heap
    BY <1>3 DEF S
  <2>3. Sound(WithoutStream(n), vs, session, registered)
    BY <1>2, <2>1, <2>2, StreamGoes
  <2>. QED  BY <1>5, <2>3
<1>7. WriterHeld(vs)
  <2>1. PICK v \in wrappers : v.class = "PDFWriter" /\ v.held
    BY DEF WriterHeld
  <2>2. v.owns
    BY <2>1 DEF DInv, IsSession
  <2>. QED  BY <2>1, <2>2, AboutAreLent DEF WriterHeld
<1>8. /\ DOMAIN h \subseteq DOMAIN heap
      /\ \A m \in DOMAIN h : h[m].of \in {heap[m].of, None} /\ h[m].parts \subseteq heap[m].parts
  <2>1. DOMAIN Freed(heap, S) = DOMAIN heap \ S /\ \A m \in DOMAIN heap \ S : Freed(heap, S)[m] = heap[m]
    BY FreedIs
  <2>2. h = [Freed(heap, S) EXCEPT ![n].parts = {}]
    BY DEF h
  <2>3. DOMAIN h = DOMAIN heap \ S /\ (\A m \in DOMAIN heap \ S : m # n => h[m] = heap[m])
        /\ h[n] = [heap[n] EXCEPT !.parts = {}]
    BY <1>2, <1>4, <2>1, <2>2
  <2>4. h[n].of = heap[n].of /\ h[n].parts = {}
    <3>1. heap[n] \in Record
      BY <1>2 DEF DInv, IsHeap
    <3>. QED  BY <2>3, <3>1 DEF Record
  <2>. QED  BY <2>3, <2>4
<1>9. IsFresh(h, vs, NewOnes(1)) /\ DOMAIN h \subseteq Live
  <2>1. IsFresh(heap, wrappers, NewOnes(1))
    BY <1>1, NewAreFresh DEF NewOnes
  <2>2. None \notin DOMAIN heap /\ vs \subseteq wrappers
    BY DEF DInv, IsHeap, None
  <2>. HIDE DEF vs
  <2>. QED  BY <1>8, <2>1, <2>2, FreshStays DEF Live
<1>. HIDE DEF vs
<1>10. DOMAIN rs = 1 .. 1 /\ \A i \in 1 .. 1 : /\ rs[i] \in Record /\ rs[i].of = None /\ rs[i].parts = {}
                                             /\ rs[i].kind = "dictionary"
  BY DictionariesAre
<1>. HIDE DEF rs
<1>11. IsAbout(e, rs, 1)
  <2>1. New(1) \in Nat
    BY <1>1, NewAddresses DEF Unused
  <2>2. e = Called(call, <<New(1)>>, {}, {})
    BY DEF Left
  <2>. HIDE DEF e
  <2>3. /\ e.call = call /\ e.left = <<New(1)>> /\ e.frees = {} /\ e.gives = {}
        /\ e \in [call : {"none", "write", "page", "modify", "end"}, left : Seq(Nat), frees : SUBSET Nat,
                  gives : SUBSET Wrapper]
    BY <2>1, <2>2 DEF Called
  <2>. QED  BY <1>10, <2>3 DEF IsAbout
<1>. HIDE DEF e
<1>12. /\ Sound(heap', vs \cup {Handed(New(1))}, session, registered)
       /\ IsEvent(heap', vs \cup {Handed(New(1))}, e)
  BY <1>1, <1>6, <1>9, <1>10, <1>11, HandsNew
<1>13. IsBusy(heap', wrappers', event', busy')
  BY <1>1, <1>7, BusyWith DEF WriterHeld
<1>. QED  BY <1>1, <1>12, <1>13 DEF DInv, Sound

LEMMA ModifiedPage ==
    ASSUME DInv, ~thrown, NEW w \in Of("PDFPageModifier"), EndContext(w) \/ WriteModifiedPage(w)
    PROVE  DInv'
<1>1. WriterHeld(wrappers) /\ busy \subseteq {w.native} /\ Touches(Reach(w.native) \cup Writer)
  BY WhenRunning DEF EndContext, WriteModifiedPage, IsFree
<1>2. Reach(w.native) \cup Writer \subseteq Live
  BY <1>1, Used, WriterIsSafe
<1>3. dangling' = FALSE
  BY <1>1, <1>2, Untouched
<1>4. CASE (Ends(w, "write") \/ Ends(w, "modify")) /\ busy # {}
  <2>1. PICK call \in {"write", "modify"} : Ends(w, call)
    BY <1>4
  <2>. QED  BY <1>1, <1>3, <1>4, <2>1, EndingModified
<1>5. CASE UNCHANGED <<heap, wrappers, registered, session, thrown, out, busy, event>>
  BY <1>3, <1>5 DEF DInv
<1>6. CASE /\ \E works \in Outcomes : Throws(~works)
           /\ UNCHANGED <<heap, wrappers, registered, session, busy, event>>
  <2>1. thrown' \in BOOLEAN
    BY <1>6, ThrownIs
  <2>. QED  BY <1>3, <1>6, <2>1 DEF DInv
<1>. QED  BY <1>4, <1>5, <1>6 DEF EndContext, WriteModifiedPage

-----------------------------------------------------------------------------
(***************************************************************************)
(* Calls that give an object another part.                                 *)
(***************************************************************************)
Attaches(h, g, N, n, X) ==
    /\ DOMAIN g = DOMAIN h \cup N /\ g \in [DOMAIN g -> Record]
    /\ \A m \in DOMAIN h : m # n => g[m] = h[m]
    /\ g[n].kind = h[n].kind /\ g[n].of = h[n].of /\ g[n].parts \subseteq h[n].parts \cup N \cup X
    /\ h[n].kind \in {"modifier", "file", "pageContext", "writer", "form"}
    /\ X # {} => h[n].kind = "form"
    /\ h[n].kind = "pageContext" => g[n].parts \subseteq N
    /\ h[n].kind = "writer" => h[n].parts \subseteq g[n].parts
    /\ \A m \in N : /\ g[m].parts = {} /\ g[m].of \in {n, None}
                    /\ g[m].kind \in {"formContext", "stream", "fileStream", "font"}
                    /\ g[m].of = n => PointsBack(g[m].kind, h[n].kind)
                    /\ g[m].kind = "font" => m \in g[n].parts /\ g[m].of = n
    /\ PartsFit(g, n)

LEMMA AttachesHeap ==
    ASSUME NEW h, NEW g, NEW ws, NEW N, NEW n \in DOMAIN h, NEW X, IsHeap(h), IsFresh(h, ws, N),
           Attaches(h, g, N, n, X), \A p \in X : p \in DOMAIN h /\ h[p].kind = "copying"
    PROVE  IsHeap(g)
<1>1. None \notin DOMAIN g /\ DOMAIN g \subseteq 1 .. MaxNatives
  BY DEF IsHeap, IsFresh, Attaches, None
<1>2. \A m \in DOMAIN h : m \in DOMAIN g /\ g[m].kind = h[m].kind /\ g[m].of = h[m].of
  BY DEF Attaches
<1>3. \A m \in DOMAIN h : PartsFit(h, m) /\ OfFits(h, m) /\ ContextFits(h, m) /\ m \notin N
                          /\ h[m].parts \cap N = {} /\ h[m].of \notin N
  BY DEF IsHeap, IsFresh
<1>4. ASSUME NEW m \in DOMAIN g
      PROVE  PartsFit(g, m)
  <2>1. CASE m \in N
    BY <2>1 DEF Attaches, PartsFit
  <2>2. CASE m \in DOMAIN h /\ m # n
    <3>1. g[m] = h[m] /\ \A p \in h[m].parts : p \in DOMAIN g => p \in DOMAIN h
      BY <1>3, <2>2 DEF Attaches
    <3>. QED  BY <1>2, <1>3, <2>2, <3>1 DEF PartsFit
  <2>3. CASE m = n
    BY <2>3 DEF Attaches
  <2>. QED  BY <2>1, <2>2, <2>3 DEF Attaches
<1>5. ASSUME NEW m \in DOMAIN g
      PROVE  OfFits(g, m)
  <2>1. CASE m \in N
    <3>1. g[m].kind \notin Rootless /\ g[m].kind \notin {"page", "pageContext"}
      BY <2>1 DEF Attaches, Rootless
    <3>2. g[m].of \in DOMAIN g => PointsBack(g[m].kind, g[g[m].of].kind)
      BY <1>1, <2>1 DEF Attaches
    <3>. QED  BY <3>1, <3>2 DEF OfFits
  <2>2. CASE m \in DOMAIN h
    <3>1. h[m].of \in DOMAIN g => h[m].of \in DOMAIN h
      BY <1>3, <2>2 DEF Attaches
    <3>. QED  BY <1>2, <1>3, <2>2, <3>1 DEF OfFits
  <2>. QED  BY <2>1, <2>2 DEF Attaches
<1>6. ASSUME NEW m \in DOMAIN g, g[m].kind = "pageContext"
      PROVE  /\ g[m].parts \subseteq DOMAIN g
             /\ \A q \in DOMAIN g : q # m => g[q].parts \cap g[m].parts = {}
  <2>1. m \in DOMAIN h /\ h[m].kind = "pageContext"
    BY <1>2, <1>6 DEF Attaches
  <2>2. CASE m = n
    <3>1. g[m].parts \subseteq N
      BY <2>1, <2>2 DEF Attaches
    <3>2. ASSUME NEW q \in DOMAIN g, q # m
          PROVE  g[q].parts \cap g[m].parts = {}
      <4>1. CASE q \in N
        BY <4>1 DEF Attaches
      <4>2. CASE q \in DOMAIN h
        BY <1>3, <2>2, <3>1, <3>2, <4>2 DEF Attaches
      <4>. QED  BY <4>1, <4>2 DEF Attaches
    <3>. QED  BY <3>1, <3>2 DEF Attaches
  <2>3. CASE m # n
    <3>1. g[m] = h[m] /\ h[m].parts \subseteq DOMAIN h
      BY <1>3, <2>1, <2>3 DEF Attaches, ContextFits
    <3>2. \A p \in h[m].parts : h[p].kind # "copying"
      BY <1>3, <2>1, <3>1 DEF PartsFit, HasPart, Deletable, Lent
    <3>3. ASSUME NEW q \in DOMAIN g, q # m
          PROVE  g[q].parts \cap g[m].parts = {}
      <4>1. CASE q \in N
        BY <4>1 DEF Attaches
      <4>2. CASE q \in DOMAIN h
        <5>1. h[q].parts \cap h[m].parts = {}
          BY <1>3, <2>1, <3>3, <4>2 DEF ContextFits
        <5>2. N \cap h[m].parts = {} /\ X \cap h[m].parts = {}
          BY <1>3, <2>1, <3>2
        <5>3. g[q].parts \subseteq h[q].parts \cup N \cup X
          BY <4>2 DEF Attaches
        <5>. QED  BY <3>1, <5>1, <5>2, <5>3
      <4>. QED  BY <4>1, <4>2 DEF Attaches
    <3>. QED  BY <3>1, <3>3 DEF Attaches
  <2>. QED  BY <2>2, <2>3
<1>. QED  BY <1>1, <1>4, <1>5, <1>6 DEF IsHeap, ContextFits, Attaches

\* What is read then: the new part as well.
LEMMA AttachesReach ==
    ASSUME NEW h, NEW g, NEW ws, NEW N, NEW n \in DOMAIN h, NEW X, IsHeap(h), IsFresh(h, ws, N),
           Attaches(h, g, N, n, X), \A p \in X : p \in DOMAIN h /\ h[p].kind = "copying",
           NEW m \in DOMAIN h, NEW r \in ReachIn(g, m)
    PROVE  \/ r \in ReachIn(h, m) \/ r \in N
           \/ m = n /\ \E p \in X : r \in ReachIn(h, p)
<1>1. /\ r # None
      /\ \/ r = m
         \/ r = g[m].of
         \/ r \in g[m].parts
         \/ \E q \in g[m].parts \cap DOMAIN g : r \in g[q].parts
  <2>1. m \in DOMAIN g
    BY DEF Attaches
  <2>. QED  BY <2>1, ReachOf
<1>2. \A q \in DOMAIN h : /\ q \in DOMAIN g /\ g[q].of = h[q].of /\ g[q].kind = h[q].kind
                          /\ g[q].parts \subseteq h[q].parts \cup N \cup X
                          /\ q # n => g[q] = h[q]
  BY DEF Attaches
<1>3. \A q \in N : g[q].parts = {}
  BY DEF Attaches
<1>4. CASE r = m \/ r = g[m].of
  BY <1>1, <1>2, <1>4 DEF ReachIn
<1>5. CASE r \in g[m].parts
  <2>1. CASE r \in h[m].parts
    BY <1>1, <2>1 DEF ReachIn
  <2>2. CASE r \in N
    BY <2>2
  <2>3. CASE r \in X /\ r \notin h[m].parts /\ r \notin N
    <3>1. m = n
      BY <1>2, <1>5, <2>3
    <3>2. r \in ReachIn(h, r)
      BY <1>1, <2>3 DEF ReachIn
    <3>. QED  BY <2>3, <3>1, <3>2
  <2>. QED  BY <1>2, <1>5, <2>1, <2>2, <2>3
<1>6. CASE \E q \in g[m].parts \cap DOMAIN g : r \in g[q].parts
  <2>1. PICK q \in g[m].parts \cap DOMAIN g : r \in g[q].parts
    BY <1>6
  <2>2. q \in DOMAIN h /\ q \notin N
    BY <1>3, <2>1 DEF Attaches
  <2>3. CASE q = n
    <3>1. m # n /\ g[m] = h[m]
      <4>1. ASSUME m = n
            PROVE  FALSE
        <5>1. HasPart(g[n].kind, g[n].kind)
          BY <2>1, <2>3, <4>1 DEF Attaches, PartsFit
        <5>. QED  BY <5>1 DEF HasPart, Deletable, Lent
      <4>. QED  BY <1>2, <4>1
    <3>2. HasPart(h[m].kind, h[n].kind)
      BY <2>1, <2>2, <2>3, <3>1 DEF IsHeap, PartsFit
    <3>3. X = {}
      BY <3>2 DEF Attaches, HasPart, Deletable, Lent
    <3>4. r \in h[n].parts \/ r \in N
      BY <1>2, <2>1, <2>3, <3>3
    <3>. QED  BY <1>1, <2>1, <2>2, <2>3, <3>1, <3>4 DEF ReachIn
  <2>4. CASE q # n
    <3>1. g[q] = h[q]
      BY <1>2, <2>2, <2>4
    <3>2. CASE q \in h[m].parts
      BY <1>1, <2>1, <2>2, <3>1, <3>2 DEF ReachIn
    <3>3. CASE q \notin h[m].parts
      <4>1. m = n /\ q \in X
        BY <1>2, <2>1, <2>2, <3>3
      <4>2. r \in ReachIn(h, q)
        BY <1>1, <2>1, <2>2, <3>1 DEF ReachIn
      <4>. QED  BY <4>1, <4>2
    <3>. QED  BY <3>2, <3>3
  <2>. QED  BY <2>3, <2>4
<1>. QED  BY <1>1, <1>4, <1>5, <1>6

\* No wrapper that waits for the collector deletes more.
LEMMA AttachesDeletes ==
    ASSUME NEW h, NEW g, NEW ws, NEW N, NEW n \in DOMAIN h, NEW X, IsHeap(h), IsFresh(h, ws, N),
           Attaches(h, g, N, n, X), NEW v, v.owns => v.native \in DOMAIN h /\ v.native # n
    PROVE  DeletesIn(g, v) = DeletesIn(h, v)
<1>1. ASSUME v.owns
      PROVE  OwnedIn(g, v.native) = OwnedIn(h, v.native)
  <2>. DEFINE m == v.native
  <2>1. m \in DOMAIN h /\ m # n /\ g[m] = h[m] /\ m \in DOMAIN g
    BY <1>1 DEF Attaches
  <2>2. h[m].parts \cap DOMAIN g = h[m].parts \cap DOMAIN h
    BY <2>1 DEF IsFresh, Attaches
  <2>3. \A p \in DOMAIN h : g[p].of = h[p].of
    BY DEF Attaches
  <2>. HIDE DEF m
  <2>4. {p \in g[m].parts \cap DOMAIN g : g[p].of = m} = {p \in h[m].parts \cap DOMAIN h : h[p].of = m}
    BY <2>1, <2>2, <2>3
  <2>5. OwnedIn(g, m) = OwnedIn(h, m)
    BY <2>1, <2>4 DEF OwnedIn
  <2>. QED  BY <2>5 DEF m
<1>. QED  BY <1>1 DEF DeletesIn

LEMMA AttachesWrapped ==
    ASSUME NEW h, NEW g, NEW ws, NEW N, NEW n \in DOMAIN h, NEW X, IsHeap(h), IsWrapped(h, ws),
           IsFresh(h, ws, N), Attaches(h, g, N, n, X),
           \A p \in X : Safe(h, ws, p) /\ h[p].kind = "copying",
           \A w \in ws : w.owns /\ w.native = n => w.held
    PROVE  IsWrapped(g, ws) /\ SafeStays(h, ws, g, ws)
<1>1. \A q \in DOMAIN h : /\ q \in DOMAIN g /\ g[q].of = h[q].of /\ g[q].kind = h[q].kind
                          /\ g[q].parts \subseteq h[q].parts \cup N \cup X
                          /\ q # n => g[q] = h[q]
  BY DEF Attaches
<1>2. \A p \in X : p \in DOMAIN h /\ h[p].kind = "copying"
  BY DEF Safe
<1>3. \A w \in ws : /\ w.native \in DOMAIN h
                    /\ w.owns => OwnerFits(h, w)
                    /\ ~w.owns => BorrowerFits(h, ws, w)
  BY DEF IsWrapped, OwnerFits, BorrowerFits
<1>4. \A w \in ws : ~w.held => DeletesIn(g, w) = DeletesIn(h, w) /\ DeletesIn(h, w) \subseteq DOMAIN h
  <2>1. ASSUME NEW w \in ws, ~w.held
        PROVE  DeletesIn(g, w) = DeletesIn(h, w) /\ DeletesIn(h, w) \subseteq DOMAIN h
    <3>1. w.owns => w.native \in DOMAIN h /\ w.native # n
      BY <1>3, <2>1
    <3>2. DeletesIn(g, w) = DeletesIn(h, w)
      BY <3>1, AttachesDeletes
    <3>. QED  BY <3>2, DeletesExist
  <2>. QED  BY <2>1
<1>5. SafeStays(h, ws, g, ws)
  <2>1. ASSUME NEW m \in DOMAIN h, Safe(h, ws, m)
        PROVE  Safe(g, ws, m)
    <3>1. ASSUME NEW r \in ReachIn(g, m)
          PROVE  r \in DOMAIN g /\ \A w \in ws : ~w.held => r \notin DeletesIn(g, w)
      <4>1. \/ r \in ReachIn(h, m) \/ r \in N
            \/ m = n /\ \E p \in X : r \in ReachIn(h, p)
        BY <1>2, <3>1, AttachesReach
      <4>2. CASE r \in N
        BY <1>4, <4>2 DEF Attaches, IsFresh
      <4>3. CASE \E q \in DOMAIN h : Safe(h, ws, q) /\ r \in ReachIn(h, q)
        BY <1>1, <1>4, <4>3 DEF Safe
      <4>. QED  BY <1>2, <2>1, <4>1, <4>2, <4>3
    <3>. QED  BY <1>1, <3>1 DEF Safe
  <2>. QED  BY <2>1 DEF SafeStays
<1>6. ASSUME NEW w \in ws, w.owns
      PROVE  OwnerFits(g, w)
  <2>1. OwnerFits(h, w) /\ w.native \in DOMAIN h
    BY <1>3, <1>6
  <2>2. w.class = "PDFStream" => \A m \in DOMAIN g : w.native \notin g[m].parts
    <3>1. ASSUME w.class = "PDFStream", NEW m \in DOMAIN g, w.native \in g[m].parts
          PROVE  FALSE
      <4>1. h[w.native].kind = "stream" /\ w.native \notin N /\ \A q \in DOMAIN h : w.native \notin h[q].parts
        BY <2>1, <3>1 DEF OwnerFits, OwnerOf, IsFresh
      <4>2. w.native \notin X
        BY <1>2, <4>1
      <4>3. m \in DOMAIN h
        BY <3>1 DEF Attaches
      <4>. QED  BY <1>1, <3>1, <4>1, <4>2, <4>3
    <3>. QED  BY <3>1
  <2>. QED  BY <1>1, <2>1, <2>2 DEF OwnerFits
<1>7. \A w \in ws : ~w.owns => BorrowerFits(g, ws, w)
  BY <1>1, <1>3 DEF BorrowerFits
<1>8. ParsersOwned(g, ws)
  <2>1. ASSUME NEW p \in DOMAIN g, g[p].kind = "parser"
        PROVE  \E w \in ws : w.owns /\ p \in DeletesIn(g, w)
    <3>1. p \in DOMAIN h /\ h[p].kind = "parser" /\ p # None
      BY <1>1, <2>1 DEF Attaches, IsHeap, None
    <3>2. PICK w \in ws : w.owns /\ p \in DeletesIn(h, w)
      BY <3>1 DEF IsWrapped, ParsersOwned
    <3>3. OwnerFits(h, w)
      BY <1>3, <3>2
    <3>4. CASE w.native # n
      <4>1. DeletesIn(g, w) = DeletesIn(h, w)
        BY <1>3, <3>4, AttachesDeletes
      <4>. QED  BY <3>2, <4>1
    <3>5. CASE w.native = n
      <4>1. h[n].kind # "copying" /\ h[n].kind # "parser"
        BY DEF Attaches
      <4>2. \/ p = n
            \/ p \in h[n].parts /\ h[p].of = n
            \/ p = w.also /\ h[p].kind = "proxy"
        BY <3>2, <3>5, DeletedIs
      <4>3. PointsBack(h[p].kind, h[n].kind) \/ h[p].of # n
        BY <3>1 DEF IsHeap, OfFits
      <4>. QED  BY <3>1, <4>1, <4>2, <4>3 DEF PointsBack
    <3>. QED  BY <3>4, <3>5
  <2>. QED  BY <2>1 DEF ParsersOwned
<1>9. \A w \in ws : w.held => Safe(g, ws, w.native)
  BY <1>3, <1>5 DEF IsWrapped, SafeStays
<1>. QED  BY <1>5, <1>6, <1>7, <1>8, <1>9 DEF IsWrapped

LEMMA AttachesSound ==
    ASSUME NEW h, NEW g, NEW ws, NEW N, NEW n \in DOMAIN h, NEW X, NEW s, NEW reg, Sound(h, ws, s, reg),
           IsFresh(h, ws, N), Attaches(h, g, N, n, X),
           \A p \in X : Safe(h, ws, p) /\ h[p].kind = "copying",
           \A w \in ws : w.owns /\ w.native = n => w.held,
           \A m \in N : g[m].kind = "font" => n = s.writer
    PROVE  /\ Sound(g, ws, s, reg) /\ SafeStays(h, ws, g, ws)
           /\ \A e : IsEvent(h, ws, e) /\ n \notin Pending(e) => IsEvent(g, ws, e)
           /\ h[n].parts \subseteq g[n].parts \/ h[n].kind \in {"file", "writer"} => BusyStill(h, ws, g, ws)
<1>1. IsHeap(h) /\ IsWrapped(h, ws) /\ IsSession(h, ws, s, reg) /\ None \notin DOMAIN h
  BY DEF Sound, IsHeap, None
<1>2. IsWrapped(g, ws) /\ SafeStays(h, ws, g, ws)
  BY <1>1, AttachesWrapped
<1>3. IsHeap(g)
  <2>1. \A p \in X : p \in DOMAIN h /\ h[p].kind = "copying"
    BY DEF Safe
  <2>. QED  BY <1>1, <2>1, AttachesHeap
<1>4. \A q \in DOMAIN h : /\ q \in DOMAIN g /\ g[q].of = h[q].of /\ g[q].kind = h[q].kind
                          /\ q # n => g[q] = h[q]
  BY DEF Attaches
<1>5. IsSession(g, ws, s, reg)
  <2>1. \A m \in DOMAIN g : g[m].kind = "writer" => m = s.writer
    BY <1>1, <1>4 DEF IsSession, Attaches
  <2>2. ASSUME NEW m \in DOMAIN g, g[m].kind = "font"
        PROVE  g[m].of = s.writer /\ s.writer \in DOMAIN g /\ m \in g[s.writer].parts
    <3>1. CASE m \in N
      BY <1>4, <2>2, <3>1 DEF Attaches
    <3>2. CASE m \in DOMAIN h
      <4>1. h[m].of = s.writer /\ s.writer \in DOMAIN h /\ m \in h[s.writer].parts
        BY <1>1, <1>4, <2>2, <3>2 DEF IsSession
      <4>2. h[s.writer].kind = "writer"
        <5>1. OfFits(h, m) /\ h[m].kind = "font"
          BY <1>1, <1>4, <2>2, <3>2 DEF IsHeap
        <5>. QED  BY <4>1, <5>1 DEF OfFits, PointsBack
      <4>3. h[s.writer].parts \subseteq g[s.writer].parts
        BY <1>4, <4>1, <4>2 DEF Attaches
      <4>. QED  BY <1>4, <3>2, <4>1, <4>3
    <3>. QED  BY <3>1, <3>2 DEF Attaches
  <2>3. {m \in DOMAIN g : g[m].kind = "copying" /\ g[m].of # None}
          = {m \in DOMAIN h : h[m].kind = "copying" /\ h[m].of # None}
    BY <1>4 DEF Attaches
  <2>4. \A m \in reg : g[m].of = s.writer
    BY <1>1, <1>4 DEF IsSession
  <2>. QED  BY <1>1, <2>1, <2>2, <2>3, <2>4 DEF IsSession
<1>6. ASSUME NEW e, IsEvent(h, ws, e), n \notin Pending(e)
      PROVE  IsEvent(g, ws, e)
  <2>1. \A m \in Pending(e) : m \in DOMAIN h
    BY <1>6, PendingKinds
  <2>2. \A m \in DOMAIN g : g[m].of \in Pending(e) => m \in DOMAIN h /\ g[m].of = h[m].of
    BY <1>1, <1>4, <1>6, <2>1 DEF Attaches
  <2>. QED  BY <1>4, <1>6, <2>1, <2>2, EventStays
<1>7. ASSUME h[n].parts \subseteq g[n].parts \/ h[n].kind \in {"file", "writer"}
      PROVE  BusyStill(h, ws, g, ws)
  <2>1. ASSUME NEW e, NEW b, IsBusy(h, ws, e, b), NEW m \in b, m \in DOMAIN h
        PROVE  /\ m \in DOMAIN g /\ g[m].kind = h[m].kind
               /\ \A p \in h[m].parts : p \in DOMAIN h /\ h[p].kind \in {"formContext", "stream"} =>
                     p \in g[m].parts /\ p \in DOMAIN g /\ g[p].kind = h[p].kind
    <3>1. m \notin {Own, Listening, Waiting}
      BY <1>1, <2>1 DEF IsHeap, Own, Listening, Waiting
    <3>2. h[m].kind \in {"pageContext", "form", "modifier"}
      BY <2>1, <3>1 DEF IsBusy
    <3>3. h[m].parts \subseteq g[m].parts
      BY <1>4, <1>7, <2>1, <3>2
    <3>. QED  BY <1>4, <2>1, <3>3
  <2>. QED  BY <2>1, BusyStays DEF BusyStill
<1>. QED  BY <1>2, <1>3, <1>5, <1>6, <1>7 DEF Sound

-----------------------------------------------------------------------------
(***************************************************************************)
(* The program lets go, and the collector deletes.                         *)
(***************************************************************************)

\* A wrapper that nothing held needs waits for the collector.
Unheld(w) == [w EXCEPT !.held = FALSE]

LEMMA WaitsWrapped ==
    ASSUME NEW h, NEW ws, NEW w \in ws, IsWrapped(h, ws), w.owns,
           \A v \in ws : v.held /\ v # w => ReachIn(h, v.native) \cap DeletesIn(h, w) = {}
    PROVE  /\ IsWrapped(h, (ws \ {w}) \cup {Unheld(w)})
           /\ Unheld(w).owns /\ Unheld(w).native = w.native /\ Unheld(w).class = w.class
           /\ ~Unheld(w).held
<1>. DEFINE x == Unheld(w)
            vs == (ws \ {w}) \cup {x}
<1>1. /\ x \in Wrapper /\ x.class = w.class /\ x.native = w.native /\ x.owns /\ x.also = w.also
      /\ ~x.held
  <2>1. w \in Wrapper
    BY DEF IsWrapped
  <2>. QED  BY <2>1 DEF Wrapper, Unheld
<1>. HIDE DEF x
<1>2. DeletesIn(h, x) = DeletesIn(h, w)
  BY <1>1 DEF DeletesIn
<1>3. \A v \in vs : v.owns => OwnerFits(h, v)
  <2>1. OwnerFits(h, w)
    BY DEF IsWrapped
  <2>2. OwnerFits(h, x)
    BY <1>1, <2>1 DEF OwnerFits
  <2>. QED  BY <2>2 DEF IsWrapped
<1>4. \A v \in vs : ~v.owns => BorrowerFits(h, vs, v)
  BY <1>1 DEF IsWrapped, BorrowerFits
<1>5. OwnersDiffer(vs)
  <2>1. \A v \in ws : v # w /\ v.owns =>
           /\ v.native # x.native
           /\ ~(v.class \in WithProxy /\ x.class \in WithProxy /\ x.also # None /\ v.also = x.also)
    BY <1>1 DEF IsWrapped, OwnersDiffer
  <2>2. ASSUME NEW u \in vs, NEW v \in vs, u.owns, v.owns,
               \/ u.native = v.native
               \/ u.class \in WithProxy /\ v.class \in WithProxy /\ u.also # None /\ u.also = v.also
        PROVE  u = v
    <3>. HIDE DEF vs
    <3>1. /\ u = x \/ (u \in ws /\ u # w)
          /\ v = x \/ (v \in ws /\ v # w)
      BY DEF vs
    <3>2. CASE u \in ws /\ u # w /\ v \in ws /\ v # w
      BY <2>2, <3>2 DEF IsWrapped, OwnersDiffer
    <3>3. CASE u = x /\ v \in ws /\ v # w
      BY <2>1, <2>2, <3>3
    <3>4. CASE v = x /\ u \in ws /\ u # w
      BY <2>1, <2>2, <3>4
    <3>. QED  BY <3>1, <3>2, <3>3, <3>4
  <2>. QED  BY <2>2 DEF OwnersDiffer
<1>6. OneDictionary(vs)
  <2>1. x.class # "DictionaryContext"
    BY <1>1 DEF IsWrapped, OwnerFits, OwnerOf
  <2>2. \A u, v \in ws : u.class = "DictionaryContext" /\ v.class = "DictionaryContext"
                            /\ u.native = v.native => u = v
    BY DEF IsWrapped, OneDictionary
  <2>3. \A u \in vs : u.class = "DictionaryContext" => u \in ws
    BY <2>1
  <2>. HIDE DEF vs
  <2>. QED  BY <2>2, <2>3 DEF OneDictionary
<1>7. ParsersOwned(h, vs)
  BY <1>1, <1>2 DEF IsWrapped, ParsersOwned
<1>8. \A v \in vs : v.held => Safe(h, vs, v.native)
  BY <1>1, <1>2 DEF IsWrapped, Safe
<1>9. vs \subseteq Wrapper
  BY <1>1 DEF IsWrapped
<1>10. IsWrapped(h, vs)
  BY <1>3, <1>4, <1>5, <1>6, <1>7, <1>8, <1>9 DEF IsWrapped
<1>. QED  BY <1>1, <1>10 DEF x

LEMMA OwnersAreNotPending ==
    ASSUME DInv, NEW w \in wrappers, w.owns
    PROVE  w.native \notin Pending(event)
<1>1. \A i \in DOMAIN event.left : w.native = event.left[i] => w = Handed(w.native)
  BY DEF DInv, IsEvent
<1>2. ~Handed(w.native).owns
  BY DEF Handed, Wrap
<1>3. \A n \in event.frees \cup {g.native : g \in event.gives} : w.native # n
  BY DEF DInv, IsEvent
<1>. QED  BY <1>1, <1>2, <1>3 DEF Pending

LEMMA LettingGo ==
    ASSUME DInv, NEW w \in wrappers, LetGoOf(w)
    PROVE  DInv'
<1>1. /\ w.held /\ ~IsNeeded(w) /\ wrappers' = LetGo({w})
      /\ UNCHANGED <<heap, registered, session, dangling, thrown, out, busy, event>>
  BY DEF LetGoOf, MayLetGo
<1>2. /\ IsHeap(heap) /\ IsWrapped(heap, wrappers) /\ IsSession(heap, wrappers, session, registered)
      /\ IsEvent(heap, wrappers, event) /\ (~thrown => IsBusy(heap, wrappers, event, busy))
  BY DEF DInv
<1>3. CASE ~w.owns
  <2>1. wrappers' = wrappers \ {w}
    BY <1>1, <1>3 DEF LetGo
  <2>2. /\ Sound(heap, wrappers \ {w}, session, registered)
        /\ BusyStill(heap, wrappers, heap, wrappers \ {w})
        /\ IsEvent(heap, wrappers \ {w}, event)
    BY <1>2, <1>3, ForgetsSound DEF Sound
  <2>. QED  BY <1>1, <1>2, <2>1, <2>2 DEF DInv, Sound, BusyStill
<1>4. CASE w.owns
  <2>. DEFINE x == Unheld(w)
              vs == (wrappers \ {w}) \cup {x}
  <2>1. wrappers' = vs
    BY <1>1, <1>4 DEF LetGo, Unheld
  <2>2. \A v \in wrappers : v.held /\ v # w => ReachIn(heap, v.native) \cap DeletesIn(heap, w) = {}
    BY <1>1, Reaches, Destroys DEF IsNeeded
  <2>3. /\ IsWrapped(heap, vs)
        /\ x.owns /\ x.native = w.native /\ x.class = w.class /\ ~x.held
    BY <1>2, <1>4, <2>2, WaitsWrapped
  <2>. HIDE DEF x
  <2>4. IsSession(heap, vs, session, registered)
    <3>1. \A v \in wrappers : \E u \in vs : u.class = v.class /\ u.native = v.native
      BY <2>3
    <3>2. \A u \in vs : \E v \in wrappers : u.class = v.class /\ u.native = v.native /\ (v.owns => u.owns)
      BY <2>3
    <3>. HIDE DEF vs
    <3>3. session.writer # None => \E u \in vs : u.class = "PDFWriter" /\ u.native = session.writer
      BY <1>2, <3>1 DEF IsSession
    <3>4. \A u \in vs : u.class = "PDFWriter" => u.owns /\ u.native = session.writer
      BY <1>2, <3>2 DEF IsSession
    <3>. QED  BY <1>2, <3>3, <3>4 DEF IsSession
  <2>5. w.native \notin Pending(event)
    BY <1>4, OwnersAreNotPending
  <2>6. IsEvent(heap, vs, event)
    BY <1>2, <2>3, <2>5, EventStays
  <2>7. ASSUME ~thrown
        PROVE  IsBusy(heap, vs, event, busy)
    <3>1. /\ w.class = "PDFWriter" => busy = {} /\ event = NoEvent
          /\ w.native \notin busy
      BY <1>4, <2>7 DEF LetGoOf, MayLetGo
    <3>2. CASE w.class = "PDFWriter"
      BY <3>1, <3>2, BusyWith
    <3>3. CASE w.class # "PDFWriter"
      <4>1. \A v \in wrappers : v.class = "PDFWriter" => v \in vs
        BY <3>3
      <4>2. \A n \in busy : \A v \in wrappers : v.native = n => v \in vs
        BY <3>1
      <4>3. IsBusy(heap, wrappers, event, busy)
        BY <1>2, <2>7
      <4>. HIDE DEF vs
      <4>. QED  BY <4>1, <4>2, <4>3, BusyStays
    <3>. QED  BY <3>2, <3>3
  <2>. QED  BY <1>1, <1>2, <2>1, <2>3, <2>4, <2>6, <2>7 DEF DInv
<1>. QED  BY <1>3, <1>4

\* What a wrapper deletes: no dictionary, page, context of a page or proxy of the writer,
\* unless it is what the wrapper owns.
LEMMA DeletedKinds ==
    ASSUME NEW h, NEW ws, IsHeap(h), IsWrapped(h, ws), NEW w \in ws, w.owns, NEW p \in DeletesIn(h, w)
    PROVE  /\ h[p].kind \notin {"dictionary", "pageContext"}
           /\ p # w.native =>
                 /\ h[p].kind \in {"proxy", "font", "formContext", "stream", "fileStream", "parser"}
                 /\ h[p].kind \in {"formContext", "stream"} => p \in h[w.native].parts
                 /\ h[p].kind = "font" => h[w.native].kind = "writer"
<1>1. /\ p \in DOMAIN h /\ p # None /\ w.native \in DOMAIN h /\ w.native # None
      /\ \/ p = w.native
         \/ p \in h[w.native].parts /\ h[p].of = w.native
         \/ p = w.also /\ w.class \in WithProxy /\ h[p].kind = "proxy" /\ h[p].of = None
  BY DeletedIs
<1>2. OwnerOf(w.class, h[w.native].kind)
  BY DEF IsWrapped, OwnerFits
<1>3. CASE p = w.native
  BY <1>2, <1>3 DEF OwnerOf
<1>4. CASE p # w.native /\ h[p].kind = "proxy"
  BY <1>4
<1>5. CASE p \in h[w.native].parts /\ h[p].of = w.native /\ p # w.native
  <2>. DEFINE a == h[w.native].kind
              b == h[p].kind
  <2>1. HasPart(a, b) /\ PointsBack(b, a)
    BY <1>1, <1>5 DEF IsHeap, PartsFit, OfFits
  <2>2. b \in Kinds
    BY <1>1 DEF IsHeap, Record
  <2>. HIDE DEF a, b
  <2>3. /\ b \in {"proxy", "font", "formContext", "stream", "fileStream", "parser"}
        /\ b = "font" => a = "writer"
    BY <2>1 DEF HasPart, Deletable, Lent, PointsBack
  <2>. QED  BY <1>5, <2>3 DEF a, b
<1>. QED  BY <1>1, <1>3, <1>4, <1>5

\* The stream of a page's context belongs to no wrapper.
LEMMA PageStreamsStay ==
    ASSUME NEW h, NEW ws, IsHeap(h), IsWrapped(h, ws), NEW w \in ws,
           NEW n \in DOMAIN h, h[n].kind = "pageContext"
    PROVE  h[n].parts \cap DeletesIn(h, w) = {}
<1>. SUFFICES ASSUME NEW p \in h[n].parts, p \in DeletesIn(h, w)
              PROVE  FALSE
  OBVIOUS
<1>1. w.owns
  BY DEF DeletesIn
<1>2. /\ p \in DOMAIN h /\ w.native \in DOMAIN h
      /\ \/ p = w.native
         \/ p \in h[w.native].parts /\ h[p].of = w.native
         \/ p = w.also /\ w.class \in WithProxy /\ h[p].kind = "proxy" /\ h[p].of = None
  BY <1>1, DeletedIs
<1>3. OwnerFits(h, w)
  BY <1>1 DEF IsWrapped
<1>4. h[p].kind = "stream" /\ h[p].of = None
  BY <1>2 DEF IsHeap, PartsFit, HasPart, Deletable, Lent
<1>5. p # w.native
  BY <1>2, <1>3, <1>4 DEF OwnerFits, OwnerOf
<1>6. p \notin h[w.native].parts \/ h[p].of # w.native
  <2>1. n = w.native \/ h[w.native].parts \cap h[n].parts = {}
    BY <1>2 DEF IsHeap, ContextFits
  <2>2. n # w.native
    BY <1>3 DEF OwnerFits, OwnerOf
  <2>. QED  BY <2>1, <2>2
<1>. QED  BY <1>2, <1>4, <1>5, <1>6

\* The collector takes a wrapper: what it deletes was needed by none that is left.
LEMMA CollectsWrapped ==
    ASSUME NEW h, NEW g, NEW ws, NEW w \in ws, IsHeap(h), IsWrapped(h, ws), ~w.held, Shrinks(h, g),
           DOMAIN g = DOMAIN h \ DeletesIn(h, w),
           \A n \in DOMAIN g : h[n].kind \in {"page", "parser"} => g[n].of = h[n].of,
           \A n \in DOMAIN g : h[n].kind = "copying" => g[n].parts = h[n].parts
    PROVE  IsHeap(g) /\ IsWrapped(g, ws \ {w})
<1>. DEFINE D == DeletesIn(h, w)
            vs == ws \ {w}
<1>1. None \notin DOMAIN h /\ IsHeap(g)
  BY ShrinksHeap DEF IsHeap, None
<1>2. w.owns /\ w.native \in D
  <2>1. w.owns /\ w.native \in DOMAIN h
    BY DEF IsWrapped, OwnerFits, BorrowerFits
  <2>. QED  BY <1>1, <2>1 DEF DeletesIn, OwnedIn
<1>3. \A v \in vs : v.owns => DeletesIn(h, v) \cap D = {}
  BY DeletedOnce
<1>4. ASSUME NEW v \in vs
      PROVE  /\ v.native \in DOMAIN g
             /\ v.owns /\ v.class \in WithProxy /\ v.also # None => v.also \in DOMAIN g
             /\ v.owns /\ v.class = "PDFPage" => v.also = g[v.native].of
             /\ v.held => ReachIn(g, v.native) \subseteq DOMAIN g
  <2>1. v.native \in DOMAIN h /\ v \in ws
    BY DEF IsWrapped, OwnerFits, BorrowerFits
  <2>2. v.held => ReachIn(h, v.native) \subseteq DOMAIN h /\ ReachIn(h, v.native) \cap D = {}
    BY <2>1 DEF IsWrapped, Safe
  <2>3. v.native \in ReachIn(h, v.native)
    BY <1>1, <2>1 DEF ReachIn
  <2>4. v.owns => v.native \in DeletesIn(h, v)
    BY <1>1, <2>1 DEF DeletesIn, OwnedIn
  <2>5. v.owns \/ v.held
    BY DEF IsWrapped, BorrowerFits
  <2>6. v.native \in DOMAIN g
    BY <1>3, <2>1, <2>2, <2>3, <2>4, <2>5
  <2>7. v.owns /\ v.class \in WithProxy /\ v.also # None => v.also \in DOMAIN g
    <3>1. v.owns /\ v.class \in WithProxy /\ v.also # None => v.also \in DeletesIn(h, v) /\ v.also \in DOMAIN h
      BY DEF DeletesIn, IsWrapped, OwnerFits
    <3>. QED  BY <1>3, <3>1
  <2>8. v.owns /\ v.class = "PDFPage" => v.also = g[v.native].of
    BY <2>1, <2>6 DEF IsWrapped, OwnerFits, OwnerOf
  <2>9. v.held => ReachIn(g, v.native) \subseteq DOMAIN g
    <3>1. ReachIn(g, v.native) \subseteq ReachIn(h, v.native)
      BY <1>1, <2>6, ShrinksReachOf
    <3>. QED  BY <2>2, <3>1
  <2>. QED  BY <2>6, <2>7, <2>8, <2>9
<1>5. \A v \in ws : v.owns /\ v.native \in DOMAIN g => v \in vs
  BY <1>2
<1>6. ParsersOwned(g, vs)
  <2>. SUFFICES ASSUME NEW p \in DOMAIN g, g[p].kind = "parser"
                PROVE  \E v \in vs : v.owns /\ p \in DeletesIn(g, v)
    BY DEF ParsersOwned
  <2>1. p \in DOMAIN h /\ h[p].kind = "parser" /\ p \notin D
    BY DEF Shrinks
  <2>2. PICK v \in ws : v.owns /\ p \in DeletesIn(h, v)
    BY <2>1 DEF IsWrapped, ParsersOwned
  <2>3. v \in vs
    BY <2>1, <2>2
  <2>4. /\ v.native \in DOMAIN h /\ p # None
        /\ \/ p = v.native
           \/ p \in h[v.native].parts /\ h[p].of = v.native
    BY <2>1, <2>2, DeletedIs
  <2>5. v.native \in DOMAIN g
    BY <1>4, <2>3
  <2>6. CASE p = v.native
    BY <2>2, <2>3, <2>4, <2>6 DEF DeletesIn, OwnedIn
  <2>7. CASE p \in h[v.native].parts /\ h[p].of = v.native
    <3>1. h[v.native].kind = "copying"
      <4>1. h[p].of \in DOMAIN h /\ PointsBack(h[p].kind, h[h[p].of].kind)
        BY <2>1, <2>4, <2>7 DEF IsHeap, OfFits
      <4>. QED  BY <2>1, <2>7, <4>1 DEF PointsBack
    <3>2. p \in g[v.native].parts /\ g[p].of = v.native
      BY <2>1, <2>5, <2>7, <3>1
    <3>. QED  BY <2>2, <2>3, <2>4, <2>5, <3>2 DEF DeletesIn, OwnedIn
  <2>. QED  BY <2>4, <2>6, <2>7
<1>. HIDE DEF vs
<1>7. vs \subseteq ws
  BY DEF vs
<1>8. IsWrapped(g, vs)
  BY <1>1, <1>4, <1>5, <1>6, <1>7, ShrinksWrappers
<1>. QED  BY <1>1, <1>8 DEF vs

\* A call that waits has nothing to do with what the collector takes.
LEMMA CollectsEvent ==
    ASSUME DInv, NEW w \in wrappers, ~w.held, NEW g,
           DOMAIN g = DOMAIN heap \ DeletesIn(heap, w),
           \A n \in DOMAIN g : /\ heap[n].kind \in {"dictionary", "page", "form"} /\ heap[n].parts = {} =>
                                     g[n] = heap[n]
                               /\ g[n].of \in {heap[n].of, None}
    PROVE  IsEvent(g, wrappers \ {w}, event)
<1>1. IsHeap(heap) /\ IsWrapped(heap, wrappers) /\ IsEvent(heap, wrappers, event)
  BY DEF DInv
<1>2. w.owns
  BY <1>1 DEF IsWrapped, BorrowerFits
<1>3. ASSUME NEW n \in Pending(event)
      PROVE  n \in DOMAIN g /\ g[n] = heap[n] /\ n # None
  <2>1. n \in DOMAIN heap /\ heap[n].kind \in {"dictionary", "page", "form"}
    BY <1>1, <1>3, PendingKinds
  <2>2. n \notin DeletesIn(heap, w)
    <3>1. n # w.native
      BY <1>2, <1>3, OwnersAreNotPending
    <3>. QED  BY <1>1, <1>2, <2>1, <3>1, DeletedKinds
  <2>3. heap[n].parts = {}
    <3>1. CASE heap[n].kind \in {"dictionary", "page"}
      BY <1>1, <2>1, <3>1 DEF IsHeap, PartsFit, Childless
    <3>2. CASE heap[n].kind = "form"
      <4>1. n \in event.frees \cup {x.native : x \in event.gives}
        BY <1>1, <1>3, <3>2 DEF Pending, IsEvent
      <4>. QED  BY <1>1, <4>1 DEF IsEvent
    <3>. QED  BY <2>1, <3>1, <3>2
  <2>4. n # None
    BY <1>1, <2>1 DEF IsHeap, None
  <2>. QED  BY <2>1, <2>2, <2>3, <2>4
<1>4. \A m \in DOMAIN g : g[m].of \in Pending(event) => m \in DOMAIN heap /\ g[m].of = heap[m].of
  BY <1>3
<1>5. \A v \in wrappers \ {w} : v \in wrappers \/ v.native \notin Pending(event)
  OBVIOUS
<1>. QED  BY <1>1, <1>3, <1>4, <1>5, EventStays

\* What the program draws on is not taken.
LEMMA CollectsBusy ==
    ASSUME DInv, ~thrown, NEW w \in wrappers, ~w.held, w.class # "PDFWriter"
    PROVE  IsBusy(Freed(heap, DeletesIn(heap, w)), wrappers \ {w}, event, busy)
<1>. DEFINE D == DeletesIn(heap, w)
            g == Freed(heap, D)
<1>1. IsHeap(heap) /\ IsWrapped(heap, wrappers) /\ IsBusy(heap, wrappers, event, busy)
  BY DEF DInv
<1>2. w.owns /\ OwnerFits(heap, w)
  BY <1>1 DEF IsWrapped, BorrowerFits
<1>3. DOMAIN g = DOMAIN heap \ D /\ \A n \in DOMAIN heap \ D : g[n] = heap[n]
  BY FreedIs
<1>. HIDE DEF g, D
<1>4. ASSUME NEW n \in busy, n \in DOMAIN heap
      PROVE  /\ n \in DOMAIN g /\ g[n].kind = heap[n].kind
             /\ \A p \in heap[n].parts : p \in DOMAIN heap /\ heap[p].kind \in {"formContext", "stream"} =>
                   p \in g[n].parts /\ p \in DOMAIN g /\ g[p].kind = heap[p].kind
             /\ \A v \in wrappers : v.owns /\ v.held /\ v.native = n => v \in wrappers \ {w}
  <2>1. /\ heap[n].kind \in {"pageContext", "form", "modifier"}
        /\ heap[n].kind \in {"form", "modifier"} => HasForm(heap, wrappers, n)
    <3>1. n \notin {Own, Listening, Waiting}
      BY <1>1, <1>4 DEF IsHeap, Own, Listening, Waiting
    <3>. QED  BY <1>1, <3>1 DEF IsBusy
  <2>2. n # w.native
    <3>1. CASE heap[n].kind = "pageContext"
      BY <1>2, <3>1 DEF OwnerFits, OwnerOf
    <3>2. CASE HasForm(heap, wrappers, n)
      BY <1>1, <1>2, <3>2 DEF HasForm, IsWrapped, OwnersDiffer
    <3>. QED  BY <2>1, <3>1, <3>2
  <2>3. n \notin D
    BY <1>1, <1>2, <2>1, <2>2, DeletedKinds DEF D
  <2>4. ASSUME NEW p \in heap[n].parts, p \in DOMAIN heap, heap[p].kind \in {"formContext", "stream"}
        PROVE  p \notin D
    <3>1. CASE heap[n].kind = "pageContext"
      BY <1>1, <1>4, <3>1, PageStreamsStay DEF D
    <3>2. CASE heap[n].kind \in {"form", "modifier"}
      <4>1. heap[p].of = n
        BY <1>1, <1>4, <2>4, <3>2 DEF IsHeap, PartsFit, Deletable
      <4>2. ASSUME p \in D
            PROVE  FALSE
        <5>1. \/ p = w.native
              \/ p \in heap[w.native].parts /\ heap[p].of = w.native
              \/ p = w.also /\ w.class \in WithProxy /\ heap[p].kind = "proxy" /\ heap[p].of = None
          BY <1>1, <1>2, <4>2, DeletedIs DEF D
        <5>2. p # w.native
          BY <1>1, <1>2, <1>4, <4>1, PartsAreNotOwned
        <5>. QED  BY <2>2, <2>4, <4>1, <5>1, <5>2
      <4>. QED  BY <4>2
    <3>. QED  BY <2>1, <3>1, <3>2
  <2>. QED  BY <1>3, <1>4, <2>2, <2>3, <2>4
<1>5. \A v \in wrappers : v.class = "PDFWriter" => v \in wrappers \ {w}
  OBVIOUS
<1>6. IsBusy(g, wrappers \ {w}, event, busy)
  BY <1>1, <1>4, <1>5, BusyStays
<1>. QED  BY <1>6 DEF g, D

LEMMA CollectsFreed ==
    ASSUME DInv, NEW w \in wrappers, ~w.held
    PROVE  /\ IsHeap(Freed(heap, DeletesIn(heap, w)))
           /\ IsWrapped(Freed(heap, DeletesIn(heap, w)), wrappers \ {w})
           /\ IsEvent(Freed(heap, DeletesIn(heap, w)), wrappers \ {w}, event)
<1>. DEFINE D == DeletesIn(heap, w)
            g == Freed(heap, D)
<1>1. IsHeap(heap) /\ IsWrapped(heap, wrappers)
  BY DEF DInv
<1>2. DOMAIN g = DOMAIN heap \ D /\ \A n \in DOMAIN heap \ D : g[n] = heap[n]
  BY FreedIs
<1>3. \A n \in DOMAIN heap \ D : heap[n].kind = "pageContext" => heap[n].parts \cap D = {}
  BY <1>1, PageStreamsStay
<1>4. Shrinks(heap, g)
  <2>. HIDE DEF D
  <2>. QED  BY <1>1, <1>3, FreedShrinks
<1>5. IsEvent(g, wrappers \ {w}, event)
  <2>. HIDE DEF g
  <2>. QED  BY <1>2, CollectsEvent
<1>6. IsHeap(g) /\ IsWrapped(g, wrappers \ {w})
  <2>. HIDE DEF g
  <2>. QED  BY <1>1, <1>2, <1>4, CollectsWrapped
<1>. QED  BY <1>5, <1>6

LEMMA CollectingOther ==
    ASSUME DInv, NEW w \in wrappers, CollectOther(w), UNCHANGED <<out, busy, event>>
    PROVE  DInv'
<1>. DEFINE D == DeletesIn(heap, w)
            g == Freed(heap, D)
<1>1. /\ w.class \notin {"PDFWriter", "DocumentCopyingContext"} /\ ~w.held
      /\ Touches(D) /\ heap' = g /\ wrappers' = wrappers \ {w}
      /\ UNCHANGED <<registered, session, thrown, event, busy>>
  BY Destroys DEF CollectOther
<1>2. IsHeap(heap) /\ IsWrapped(heap, wrappers) /\ IsSession(heap, wrappers, session, registered)
  BY DEF DInv
<1>3. DOMAIN g = DOMAIN heap \ D /\ \A n \in DOMAIN heap \ D : g[n] = heap[n]
  BY FreedIs
<1>4. dangling' = FALSE
  BY <1>1, <1>2, DeletesExist, Untouched DEF Live
<1>5. IsHeap(g) /\ IsWrapped(g, wrappers \ {w}) /\ IsEvent(g, wrappers \ {w}, event)
  BY <1>1, CollectsFreed
<1>6. ~thrown => IsBusy(g, wrappers \ {w}, event, busy)
  BY <1>1, CollectsBusy
<1>7. w.owns /\ OwnerFits(heap, w)
  BY <1>1, <1>2 DEF IsWrapped, BorrowerFits
<1>8. \A n \in DOMAIN heap : heap[n].kind \in {"writer", "copying"} => n \notin D
  BY <1>1, <1>2, <1>7, DeletedKinds DEF OwnerFits, OwnerOf
<1>. HIDE DEF g, D
<1>9. IsSession(g, wrappers \ {w}, session, registered)
  <2>1. \A n \in DOMAIN heap : heap[n].kind \in {"writer", "copying"} =>
           n \in DOMAIN g /\ g[n].kind = heap[n].kind /\ g[n].of = heap[n].of
    BY <1>3, <1>8
  <2>2. session.writer \in DOMAIN heap => session.writer \in DOMAIN g /\ g[session.writer] = heap[session.writer]
    <3>1. ASSUME session.writer \in DOMAIN heap
          PROVE  heap[session.writer].kind = "writer"
      <4>1. session.writer # None
        BY <1>2, <3>1 DEF IsHeap, None
      <4>2. PICK v \in wrappers : v.class = "PDFWriter" /\ v.native = session.writer
        BY <1>2, <4>1 DEF IsSession
      <4>3. v.owns
        BY <1>2, <4>2 DEF IsSession
      <4>. QED  BY <1>2, <4>2, <4>3 DEF IsWrapped, OwnerFits, OwnerOf
    <3>. QED  BY <1>3, <1>8, <3>1
  <2>3. \A n \in DOMAIN g : n \in DOMAIN heap /\ g[n].kind = heap[n].kind /\ g[n].of = heap[n].of
    BY <1>3
  <2>4. SameWriters(wrappers, wrappers \ {w})
    BY <1>1 DEF SameWriters
  <2>. QED  BY <1>2, <2>1, <2>2, <2>3, <2>4, SessionStays
<1>. QED  BY <1>1, <1>4, <1>5, <1>6, <1>9 DEF DInv

\* The object that the writer's wrapper owns.
LEMMA WriterIs ==
    ASSUME DInv, session.writer # None
    PROVE  session.writer \in DOMAIN heap /\ heap[session.writer].kind = "writer"
<1>1. PICK v \in wrappers : v.class = "PDFWriter" /\ v.native = session.writer
  BY DEF DInv, IsSession
<1>2. v.owns
  BY <1>1 DEF DInv, IsSession
<1>. QED  BY <1>1, <1>2 DEF DInv, IsWrapped, OwnerFits, OwnerOf

LEMMA CollectingCopyingContext ==
    ASSUME DInv, NEW w \in wrappers, CollectCopyingContext(w), UNCHANGED <<out, busy, event>>
    PROVE  DInv'
<1>. DEFINE D == DeletesIn(heap, w)
            g == Freed(heap, D)
            owner == heap[w.native].of
<1>1. /\ w.class = "DocumentCopyingContext" /\ ~w.held
      /\ Touches(D \cup ({owner} \ {None})) /\ heap' = g /\ wrappers' = wrappers \ {w}
      /\ registered' = IF owner = None THEN registered ELSE registered \ {w.native}
      /\ UNCHANGED <<session, thrown, event, busy>>
  BY Destroys DEF CollectCopyingContext
<1>2. IsHeap(heap) /\ IsWrapped(heap, wrappers) /\ IsSession(heap, wrappers, session, registered)
  BY DEF DInv
<1>3. DOMAIN g = DOMAIN heap \ D /\ \A n \in DOMAIN heap \ D : g[n] = heap[n]
  BY FreedIs
<1>4. /\ w.owns /\ w.native \in DOMAIN heap /\ heap[w.native].kind = "copying"
      /\ w.native \in D
  <2>1. w.owns
    BY <1>1, <1>2 DEF IsWrapped, BorrowerFits
  <2>2. w.native \in DOMAIN heap /\ heap[w.native].kind = "copying"
    BY <1>1, <1>2, <2>1 DEF IsWrapped, OwnerFits, OwnerOf
  <2>. QED  BY <1>2, <2>1, <2>2 DEF DeletesIn, OwnedIn, IsHeap, None
<1>5. owner # None => owner \in DOMAIN heap
  <2>1. ASSUME owner # None
        PROVE  owner = session.writer
    BY <1>2, <1>4, <2>1 DEF IsSession
  <2>. QED  BY <2>1, WriterIs
<1>6. dangling' = FALSE
  <2>1. D \subseteq DOMAIN heap
    BY <1>2, DeletesExist
  <2>2. D \cup ({owner} \ {None}) \subseteq Live
    BY <1>5, <2>1 DEF Live
  <2>. HIDE DEF D, owner
  <2>. QED  BY <1>1, <2>2, Untouched
<1>7. IsHeap(g) /\ IsWrapped(g, wrappers \ {w}) /\ IsEvent(g, wrappers \ {w}, event)
  BY <1>1, CollectsFreed
<1>8. ~thrown => IsBusy(g, wrappers \ {w}, event, busy)
  BY <1>1, CollectsBusy
<1>9. \A n \in D : n \in DOMAIN heap => n = w.native \/ heap[n].kind \notin {"writer", "copying", "font"}
  <2>1. \A n \in D : n \in DOMAIN heap => n = w.native \/ heap[n].kind \notin {"writer", "copying"}
    BY <1>2, <1>4, DeletedKinds
  <2>2. \A n \in D : n \in DOMAIN heap => n = w.native \/ heap[n].kind # "font"
    BY <1>2, <1>4, DeletedKinds
  <2>. QED  BY <2>1, <2>2
<1>. HIDE DEF g, D
<1>10. IsSession(g, wrappers \ {w}, session, registered')
  <2>1. \A n \in DOMAIN g : n \in DOMAIN heap /\ g[n] = heap[n]
    BY <1>3
  <2>2. \A n \in DOMAIN heap : n # w.native /\ heap[n].kind \in {"writer", "copying"} => n \in DOMAIN g
    BY <1>3, <1>9
  <2>3. registered' = {n \in DOMAIN g : g[n].kind = "copying" /\ g[n].of # None}
    <3>1. registered = {n \in DOMAIN heap : heap[n].kind = "copying" /\ heap[n].of # None}
      BY <1>2 DEF IsSession
    <3>2. registered' = {n \in DOMAIN heap : heap[n].kind = "copying" /\ heap[n].of # None} \ {w.native}
      BY <1>1, <3>1
    <3>3. w.native \notin DOMAIN g
      BY <1>3, <1>4
    <3>. QED  BY <2>1, <2>2, <3>2, <3>3
  <2>4. session.writer \in DOMAIN heap => session.writer \in DOMAIN g
    <3>1. session.writer \in DOMAIN heap => session.writer # None
      BY <1>2 DEF IsHeap, None
    <3>. QED  BY <1>4, <2>2, <3>1, WriterIs
  <2>5. \A n \in registered' : g[n].of = session.writer
    BY <1>2, <2>1, <2>3 DEF IsSession
  <2>6. \A n \in DOMAIN g : g[n].kind = "writer" => n = session.writer
    BY <1>2, <2>1 DEF IsSession
  <2>7. \A n \in DOMAIN g : g[n].kind = "font" =>
          g[n].of = session.writer /\ session.writer \in DOMAIN g /\ n \in g[session.writer].parts
    BY <1>2, <2>1, <2>4 DEF IsSession
  <2>8. /\ session \in [writer : Nat, state : States, modifies : BOOLEAN]
        /\ session.writer # None => \E v \in wrappers \ {w} : v.class = "PDFWriter" /\ v.native = session.writer
        /\ \A v \in wrappers \ {w} : v.class = "PDFWriter" => v.owns /\ v.native = session.writer
    BY <1>1, <1>2 DEF IsSession
  <2>. QED  BY <2>3, <2>5, <2>6, <2>7, <2>8 DEF IsSession
<1>. QED  BY <1>1, <1>2, <1>6, <1>7, <1>8, <1>10 DEF DInv

\* What the cleanup of the document context leaves.
Cleaned(n) ==
    /\ CleanedUp(heap)[n] \in Record /\ CleanedUp(heap)[n].kind = heap[n].kind
    /\ n \in registered =>
          CleanedUp(heap)[n].of = None /\ CleanedUp(heap)[n].parts = heap[n].parts
    /\ n \notin registered =>
          /\ CleanedUp(heap)[n].of = heap[n].of /\ CleanedUp(heap)[n].parts = heap[n].parts \ Fonts
          /\ heap[n].parts = {} => CleanedUp(heap)[n] = heap[n]

LEMMA CleanedIs ==
    ASSUME DInv
    PROVE  /\ DOMAIN CleanedUp(heap) = DOMAIN heap \ Fonts
           /\ \A n \in DOMAIN heap \ Fonts : Cleaned(n)
<1>. DEFINE k == [n \in DOMAIN heap |-> IF n \in registered THEN [heap[n] EXCEPT !.of = None]
                                        ELSE [heap[n] EXCEPT !.parts = @ \ Fonts]]
            g == Freed(k, Fonts)
<1>1. CleanedUp(heap) = g
  BY DEF CleanedUp
<1>2. DOMAIN k = DOMAIN heap
  OBVIOUS
<1>3. ASSUME NEW n \in DOMAIN heap
      PROVE  /\ k[n] \in Record /\ k[n].kind = heap[n].kind
             /\ n \in registered => k[n].of = None /\ k[n].parts = heap[n].parts
             /\ n \notin registered =>
                   /\ k[n].of = heap[n].of /\ k[n].parts = heap[n].parts \ Fonts
                   /\ heap[n].parts = {} => k[n] = heap[n]
  <2>1. heap[n] \in Record
    BY DEF DInv, IsHeap
  <2>2. CASE n \in registered
    <3>1. k[n] = [heap[n] EXCEPT !.of = None]
      BY <2>2
    <3>2. None \in Nat
      BY DEF None
    <3>. QED  BY <2>1, <2>2, <3>1, <3>2 DEF Record
  <2>3. CASE n \notin registered
    <3>1. k[n] = [heap[n] EXCEPT !.parts = @ \ Fonts]
      BY <2>3
    <3>2. heap[n].parts = {} => heap[n].parts \ Fonts = heap[n].parts
      OBVIOUS
    <3>. QED  BY <2>1, <2>3, <3>1, <3>2 DEF Record
  <2>. QED  BY <2>2, <2>3
<1>. HIDE DEF k
<1>4. DOMAIN g = DOMAIN k \ Fonts /\ \A n \in DOMAIN k \ Fonts : g[n] = k[n]
  BY FreedIs
<1>. HIDE DEF g
<1>5. \A n \in DOMAIN heap \ Fonts : g[n] = k[n]
  BY <1>2, <1>4
<1>. QED  BY <1>1, <1>2, <1>3, <1>4, <1>5 DEF Cleaned

\* Parts that are fonts are the writer's.
LEMMA FontsAre ==
    ASSUME DInv, NEW f \in Fonts
    PROVE  /\ f \in DOMAIN heap /\ heap[f].kind = "font" /\ heap[f].of = session.writer
           /\ f \in heap[session.writer].parts /\ session.writer \in DOMAIN heap
           /\ \A n \in DOMAIN heap : f \in heap[n].parts => n = session.writer
<1>1. /\ f \in DOMAIN heap /\ heap[f].kind = "font" /\ heap[f].of = session.writer
      /\ f \in heap[session.writer].parts /\ session.writer \in DOMAIN heap
  BY DEF DInv, IsSession, Fonts, Live
<1>2. ASSUME NEW n \in DOMAIN heap, f \in heap[n].parts
      PROVE  n = session.writer
  <2>1. HasPart(heap[n].kind, "font") /\ (Deletable(heap[n].kind, "font") => heap[f].of = n)
    BY <1>1, <1>2 DEF DInv, IsHeap, PartsFit
  <2>. QED  BY <1>1, <2>1 DEF HasPart, Deletable, Lent
<1>. QED  BY <1>1, <1>2

LEMMA CollectingWriter ==
    ASSUME DInv, NEW w \in wrappers, CollectWriter(w), UNCHANGED <<out, busy, event>>
    PROVE  DInv'
<1>. DEFINE D == DeletesIn(heap, w)
            k == CleanedUp(heap)
            g == Freed(k, D)
            vs == wrappers \ {w}
<1>1. /\ w.class = "PDFWriter" /\ ~w.held
      /\ Touches(D \cup registered) /\ heap' = g /\ registered' = {}
      /\ session' = [session EXCEPT !.writer = None, !.state = "none"]
      /\ wrappers' = vs /\ UNCHANGED <<thrown, event, busy>>
  BY Destroys DEF CollectWriter
<1>2. /\ IsHeap(heap) /\ IsWrapped(heap, wrappers) /\ IsSession(heap, wrappers, session, registered)
      /\ registered = {n \in DOMAIN heap : heap[n].kind = "copying" /\ heap[n].of # None}
  BY DEF DInv, IsSession
<1>3. /\ w.owns /\ w.native \in DOMAIN heap /\ heap[w.native].kind = "writer"
      /\ w.native = session.writer /\ w.native \in D
  <2>1. w.owns /\ w.native = session.writer
    BY <1>1, <1>2 DEF IsSession
  <2>2. w.native \in DOMAIN heap /\ heap[w.native].kind = "writer"
    BY <1>1, <1>2, <2>1 DEF IsWrapped, OwnerFits, OwnerOf
  <2>. QED  BY <1>2, <2>1, <2>2 DEF DeletesIn, OwnedIn, IsHeap, None
<1>4. dangling' = FALSE
  <2>1. D \cup registered \subseteq Live
    BY <1>2, DeletesExist DEF Live
  <2>. HIDE DEF D
  <2>. QED  BY <1>1, <2>1, Untouched
<1>5. Fonts \subseteq D
  BY <1>2, <1>3, FontsAre DEF DeletesIn, OwnedIn, IsHeap, None
<1>6. DOMAIN g = DOMAIN k \ D /\ \A n \in DOMAIN k \ D : g[n] = k[n]
  BY FreedIs
<1>7. g = [n \in DOMAIN k \ D |-> k[n]]
  BY DEF Freed, Restrict
<1>. HIDE DEF g
<1>8. DOMAIN k = DOMAIN heap \ Fonts /\ \A n \in DOMAIN heap \ Fonts : Cleaned(n)
  BY CleanedIs
<1>9. DOMAIN g = DOMAIN heap \ D
  BY <1>5, <1>6, <1>8
<1>10. ASSUME NEW n \in DOMAIN g
       PROVE  /\ n \in DOMAIN heap /\ n \notin D /\ g[n] \in Record /\ g[n].kind = heap[n].kind
              /\ n \in registered => g[n].of = None /\ g[n].parts = heap[n].parts
              /\ n \notin registered => g[n].of = heap[n].of /\ g[n].parts = heap[n].parts
              /\ n \notin registered /\ heap[n].parts = {} => g[n] = heap[n]
  <2>1. n \in DOMAIN heap \ Fonts /\ g[n] = k[n] /\ n \notin D
    BY <1>6, <1>8
  <2>2. Cleaned(n)
    BY <1>8, <2>1
  <2>3. heap[n].parts \cap Fonts = {}
    BY <1>3, <2>1, FontsAre
  <2>. QED  BY <2>1, <2>2, <2>3 DEF Cleaned
<1>. HIDE DEF k, D
<1>11. Shrinks(heap, g)
  <2>1. g \in [DOMAIN g -> Record]
    BY <1>6, <1>7, <1>10
  <2>2. \A n \in DOMAIN g : g[n].kind = "pageContext" => g[n].parts \subseteq DOMAIN g
    <3>1. ASSUME NEW n \in DOMAIN g, g[n].kind = "pageContext"
          PROVE  g[n].parts \subseteq DOMAIN g
      <4>1. n \in DOMAIN heap /\ heap[n].kind = "pageContext" /\ g[n].parts = heap[n].parts
        BY <1>10, <3>1
      <4>2. heap[n].parts \subseteq DOMAIN heap /\ heap[n].parts \cap D = {}
        BY <1>2, <4>1, PageStreamsStay DEF IsHeap, ContextFits, D
      <4>. QED  BY <1>9, <4>1, <4>2
    <3>. QED  BY <3>1
  <2>3. \A n \in DOMAIN g : n \in registered => g[n].kind = "copying"
    BY <1>2, <1>10
  <2>. QED  BY <1>9, <1>10, <2>1, <2>2, <2>3 DEF Shrinks
<1>12. IsHeap(g) /\ IsWrapped(g, vs)
  <2>1. \A n \in DOMAIN g : heap[n].kind \in {"page", "parser"} => g[n].of = heap[n].of
    BY <1>2, <1>10
  <2>2. \A n \in DOMAIN g : heap[n].kind = "copying" => g[n].parts = heap[n].parts
    BY <1>10
  <2>. QED  BY <1>1, <1>2, <1>9, <1>11, <2>1, <2>2, CollectsWrapped DEF D
<1>13. IsEvent(g, vs, event)
  <2>1. \A n \in DOMAIN g : /\ heap[n].kind \in {"dictionary", "page", "form"} /\ heap[n].parts = {} =>
                                  g[n] = heap[n]
                            /\ g[n].of \in {heap[n].of, None}
    BY <1>2, <1>10
  <2>. QED  BY <1>1, <1>9, <2>1, CollectsEvent DEF D
<1>14. IsSession(g, vs, session', {})
  <2>1. /\ session' \in [writer : Nat, state : States, modifies : BOOLEAN]
        /\ session'.writer = None
    BY <1>1, <1>2 DEF IsSession, States, None
  <2>2. \A v \in vs : v.class # "PDFWriter"
    BY <1>2, <1>3 DEF IsSession, IsWrapped, OwnersDiffer
  <2>3. \A n \in DOMAIN g : g[n].kind # "writer"
    BY <1>2, <1>3, <1>10 DEF IsSession
  <2>4. \A n \in DOMAIN g : g[n].kind # "font"
    BY <1>5, <1>10 DEF Fonts, Live
  <2>5. \A n \in DOMAIN g : g[n].kind = "copying" => g[n].of = None
    BY <1>2, <1>10
  <2>. QED  BY <2>1, <2>2, <2>3, <2>4, <2>5 DEF IsSession
<1>15. ~thrown => IsBusy(g, vs, event, busy)
  <2>1. ~WriterHeld(wrappers)
    BY <1>1, <1>2, <1>3 DEF WriterHeld, IsSession, IsWrapped, OwnersDiffer
  <2>2. ~thrown => busy = {} /\ event = NoEvent
    BY <2>1 DEF DInv, IsBusy
  <2>. QED  BY <2>2, BusyWith
<1>16. thrown' \in BOOLEAN
  BY <1>1 DEF DInv
<1>. QED  BY <1>1, <1>4, <1>12, <1>13, <1>14, <1>15, <1>16 DEF DInv

-----------------------------------------------------------------------------
(***************************************************************************)
(* The document ends.                                                      *)
(***************************************************************************)

\* What is left of the objects: the fonts have gone, and perhaps the writer's proxies.
Remains(g) ==
    /\ g \in [DOMAIN g -> Record] /\ DOMAIN g \subseteq DOMAIN heap
    /\ \A n \in DOMAIN g :
          /\ g[n].kind = heap[n].kind /\ g[n].parts \subseteq heap[n].parts
          /\ g[n].of = (IF n \in registered THEN None ELSE heap[n].of)
          /\ heap[n].kind = "copying" => g[n].parts = heap[n].parts
          /\ g[n].parts \cap (DOMAIN heap \ DOMAIN g) = {}
    /\ \A n \in DOMAIN heap \ DOMAIN g :
          heap[n].kind = "font" \/ (heap[n].kind = "proxy" /\ heap[n].of # None)
    /\ \A n \in DOMAIN g : heap[n].kind # "font"

LEMMA RemainsOf ==
    ASSUME DInv, WriterHeld(wrappers)
    PROVE  /\ Remains(CleanedUp(heap))
           /\ Remains([Freed(CleanedUp(heap), heap[session.writer].parts \ Fonts)
                          EXCEPT ![session.writer].parts = {}])
<1>. DEFINE k == CleanedUp(heap)
            a == session.writer
            P == heap[a].parts \ Fonts
            f == Freed(k, P)
            g == [f EXCEPT ![a].parts = {}]
<1>1. /\ IsHeap(heap) /\ IsSession(heap, wrappers, session, registered)
      /\ registered = {n \in DOMAIN heap : heap[n].kind = "copying" /\ heap[n].of # None}
  BY DEF DInv, IsSession
<1>2. a \in DOMAIN heap /\ heap[a].kind = "writer" /\ a # None
  BY WriterIsSafe DEF Live
<1>3. DOMAIN k = DOMAIN heap \ Fonts /\ \A n \in DOMAIN heap \ Fonts : Cleaned(n)
  BY CleanedIs
<1>4. k = [n \in DOMAIN k |-> k[n]]
  BY DEF CleanedUp, Freed, Restrict
<1>5. DOMAIN f = DOMAIN k \ P /\ \A n \in DOMAIN k \ P : f[n] = k[n]
  BY FreedIs
<1>6. f = [n \in DOMAIN k \ P |-> k[n]]
  BY DEF Freed, Restrict
<1>7. ASSUME NEW n \in DOMAIN heap \ Fonts
      PROVE  /\ k[n] \in Record /\ k[n].kind = heap[n].kind
             /\ k[n].parts = heap[n].parts \ Fonts
             /\ k[n].of = (IF n \in registered THEN None ELSE heap[n].of)
             /\ heap[n].kind = "copying" => k[n].parts = heap[n].parts
             /\ heap[n].kind # "font"
  <2>1. Cleaned(n)
    BY <1>3
  <2>2. n # a => heap[n].parts \ Fonts = heap[n].parts
    BY FontsAre
  <2>3. heap[n].kind = "copying" => n # a
    BY <1>2
  <2>4. n \in registered => n # a
    BY <1>1, <1>2
  <2>5. heap[n].kind # "font"
    BY DEF Fonts, Live
  <2>. QED  BY <2>1, <2>2, <2>3, <2>4, <2>5 DEF Cleaned
<1>8. \A n \in Fonts : n \in DOMAIN heap /\ heap[n].kind = "font"
  BY FontsAre
<1>9. ASSUME NEW p \in P, p \in DOMAIN heap
      PROVE  /\ heap[p].kind = "proxy" /\ heap[p].of = a
             /\ \A n \in DOMAIN heap : p \in heap[n].parts => n = a
  <2>1. p \in heap[a].parts /\ heap[p].kind # "font"
    BY <1>9 DEF Fonts, Live
  <2>2. heap[p].kind = "proxy" /\ heap[p].of = a
    BY <1>1, <1>2, <1>9, <2>1 DEF IsHeap, PartsFit, HasPart, Deletable, Lent
  <2>3. ASSUME NEW n \in DOMAIN heap, p \in heap[n].parts
        PROVE  n = a
    <3>1. /\ HasPart(heap[n].kind, "proxy")
          /\ Deletable(heap[n].kind, "proxy") => heap[p].of = n
          /\ Lent(heap[n].kind, "proxy") => heap[p].of = None
      BY <1>1, <1>9, <2>2, <2>3 DEF IsHeap, PartsFit
    <3>. QED  BY <1>2, <2>2, <3>1 DEF HasPart
  <2>. QED  BY <2>2, <2>3
<1>10. a \in DOMAIN f
  <2>1. a \notin Fonts /\ a \notin P
    BY <1>2, <1>8, <1>9
  <2>. QED  BY <1>2, <1>3, <1>5, <2>1
<1>. HIDE DEF k, P, f, a
<1>11. Remains(k)
  <2>1. k \in [DOMAIN k -> Record]
    BY <1>3, <1>4, <1>7
  <2>2. DOMAIN heap \ DOMAIN k \subseteq Fonts
    BY <1>3
  <2>3. \A n \in DOMAIN k : n \in DOMAIN heap \ Fonts
    BY <1>3
  <2>4. \A n \in DOMAIN k : k[n].parts \cap (DOMAIN heap \ DOMAIN k) = {}
    BY <1>7, <2>2, <2>3
  <2>. QED  BY <1>7, <1>8, <2>1, <2>2, <2>3, <2>4 DEF Remains
<1>12. DOMAIN g = DOMAIN f /\ \A n \in DOMAIN f : n # a => g[n] = k[n]
  BY <1>5
<1>13. g[a].kind = k[a].kind /\ g[a].of = k[a].of /\ g[a].parts = {} /\ g[a] \in Record
  <2>1. f[a] \in Record /\ f[a] = k[a]
    BY <1>3, <1>5, <1>7, <1>10
  <2>2. g[a] = [f[a] EXCEPT !.parts = {}]
    BY <1>10
  <2>. HIDE DEF g
  <2>. QED  BY <2>1, <2>2 DEF Record
<1>14. g = [n \in DOMAIN g |-> g[n]]
  BY <1>6
<1>. HIDE DEF g
<1>15. Remains(g)
  <2>1. \A n \in DOMAIN g : n \in DOMAIN heap \ Fonts /\ n \notin P
    BY <1>3, <1>5, <1>12
  <2>2. \A n \in DOMAIN heap \ DOMAIN g : n \in Fonts \/ n \in P
    BY <1>3, <1>5, <1>12
  <2>3. \A n \in DOMAIN g : /\ g[n] \in Record /\ g[n].kind = heap[n].kind
                            /\ g[n].parts \subseteq heap[n].parts
                            /\ g[n].of = (IF n \in registered THEN None ELSE heap[n].of)
                            /\ heap[n].kind = "copying" => g[n].parts = heap[n].parts
    BY <1>2, <1>7, <1>12, <1>13, <2>1
  <2>4. \A n \in DOMAIN g : g[n].parts \cap (DOMAIN heap \ DOMAIN g) = {}
    <3>1. ASSUME NEW n \in DOMAIN g, NEW p \in g[n].parts, p \in DOMAIN heap \ DOMAIN g
          PROVE  FALSE
      <4>1. n # a
        BY <1>13, <3>1
      <4>2. g[n].parts = heap[n].parts \ Fonts
        BY <1>7, <1>12, <2>1, <4>1
      <4>3. p \in P
        BY <2>2, <3>1, <4>2
      <4>. QED  BY <1>9, <2>1, <3>1, <4>1, <4>2, <4>3
    <3>. QED  BY <3>1
  <2>5. g \in [DOMAIN g -> Record]
    BY <1>14, <2>3
  <2>6. \A n \in DOMAIN heap \ DOMAIN g :
          heap[n].kind = "font" \/ (heap[n].kind = "proxy" /\ heap[n].of # None)
    BY <1>2, <1>8, <1>9, <2>2
  <2>7. \A n \in DOMAIN g : heap[n].kind # "font"
    BY <1>7, <2>1
  <2>. QED  BY <2>1, <2>3, <2>4, <2>5, <2>6, <2>7 DEF Remains
<1>. QED  BY <1>11, <1>15 DEF k, g, f, P, a

LEMMA RemainsSound ==
    ASSUME DInv, WriterHeld(wrappers), NEW g, Remains(g)
    PROVE  IsHeap(g) /\ IsWrapped(g, wrappers \ Of("UsedFont"))
<1>. DEFINE vs == wrappers \ Of("UsedFont")
            dead == DOMAIN heap \ DOMAIN g
<1>1. /\ IsHeap(heap) /\ IsWrapped(heap, wrappers) /\ None \notin DOMAIN heap
      /\ registered = {n \in DOMAIN heap : heap[n].kind = "copying" /\ heap[n].of # None}
  BY DEF DInv, IsSession, IsHeap, None
<1>2. \A n \in DOMAIN g : n \in DOMAIN heap
  BY DEF Remains
<1>3. Shrinks(heap, g)
  <2>1. \A n \in DOMAIN g : \/ g[n].of = heap[n].of
                            \/ g[n].of = None /\ g[n].kind = "copying"
    BY <1>1 DEF Remains
  <2>2. \A n \in DOMAIN g : g[n].kind = "pageContext" => g[n].parts \subseteq DOMAIN g
    <3>1. ASSUME NEW n \in DOMAIN g, g[n].kind = "pageContext"
          PROVE  g[n].parts \subseteq DOMAIN g
      <4>1. heap[n].parts \subseteq DOMAIN heap /\ g[n].parts \subseteq heap[n].parts
        BY <1>1, <1>2, <3>1 DEF Remains, IsHeap, ContextFits
      <4>. QED  BY <4>1 DEF Remains
    <3>. QED  BY <3>1
  <2>. QED  BY <2>1, <2>2 DEF Remains, Shrinks
<1>4. IsHeap(g)
  BY <1>1, <1>3, ShrinksHeap
<1>5. ASSUME NEW v \in vs
      PROVE  /\ v \in wrappers /\ v.native \in DOMAIN heap /\ v.native \in DOMAIN g
             /\ v.owns => OwnerFits(heap, v)
  <2>1. v \in wrappers /\ (v.owns => OwnerFits(heap, v)) /\ (~v.owns => BorrowerFits(heap, wrappers, v))
    BY <1>1 DEF IsWrapped
  <2>2. v.native \in DOMAIN heap /\ (OwnerOf(v.class, heap[v.native].kind) \/
                                     (BorrowerOf(v.class, heap[v.native].kind) /\ v.held))
    BY <2>1 DEF OwnerFits, BorrowerFits
  <2>3. heap[v.native].kind \notin {"font", "proxy"}
    BY <2>1, <2>2 DEF OwnerOf, BorrowerOf, Of
  <2>. QED  BY <2>1, <2>2, <2>3 DEF Remains
<1>6. \A v \in vs : v.owns /\ v.class \in WithProxy /\ v.also # None => v.also \in DOMAIN g
  BY <1>5 DEF OwnerFits, Remains
<1>7. \A v \in vs : v.owns /\ v.class = "PDFPage" => v.also = g[v.native].of
  <2>1. \A v \in vs : v.owns /\ v.class = "PDFPage" => heap[v.native].kind = "page"
    BY <1>5 DEF OwnerFits, OwnerOf
  <2>. QED  BY <1>1, <1>5, <2>1 DEF OwnerFits, Remains
<1>8. ASSUME NEW v \in vs, v.held
      PROVE  ReachIn(g, v.native) \subseteq DOMAIN g
  <2>1. /\ v.native \in DOMAIN g /\ v.native \in DOMAIN heap
        /\ ReachIn(heap, v.native) \subseteq DOMAIN heap
    BY <1>1, <1>5, <1>8 DEF IsWrapped, Safe
  <2>2. ReachIn(g, v.native) \subseteq DOMAIN heap
    BY <1>1, <1>3, <2>1, ShrinksReachOf
  <2>3. ASSUME NEW p \in ReachIn(g, v.native)
        PROVE  p \in DOMAIN g
    <3>1. p # None /\ (\/ p = v.native \/ p = g[v.native].of \/ p \in g[v.native].parts
                       \/ \E q \in g[v.native].parts \cap DOMAIN g : p \in g[q].parts)
      BY <2>1, ReachOf
    <3>2. \A n \in DOMAIN g : p \in g[n].parts => p \notin dead
      BY DEF Remains
    <3>3. p = g[v.native].of => heap[p].kind \notin {"font", "proxy"}
      <4>1. ASSUME p = g[v.native].of
            PROVE  heap[p].kind \notin {"font", "proxy"}
        <5>1. p = heap[v.native].of /\ p \in DOMAIN heap
          BY <2>1, <2>2, <3>1, <4>1 DEF Remains
        <5>2. PointsBack(heap[v.native].kind, heap[p].kind)
          BY <1>1, <2>1, <5>1 DEF IsHeap, OfFits
        <5>. QED  BY <5>2 DEF PointsBack
      <4>. QED  BY <4>1
    <3>4. p \in DOMAIN heap
      BY <2>2
    <3>. QED  BY <2>1, <3>1, <3>2, <3>3, <3>4 DEF Remains
  <2>. QED  BY <2>3
<1>9. \A v \in wrappers : v.owns => v \in vs
  <2>1. \A v \in wrappers : v.owns => v.class # "UsedFont"
    BY <1>1 DEF IsWrapped, OwnerFits, OwnerOf
  <2>. QED  BY <2>1 DEF Of
<1>10. ParsersOwned(g, vs)
  <2>1. \A n \in DOMAIN heap : heap[n].kind = "copying" => n \in DOMAIN g /\ g[n].parts = heap[n].parts
    BY DEF Remains
  <2>. HIDE DEF vs
  <2>. QED  BY <1>1, <1>3, <1>9, <2>1, ParsersStay
<1>11. vs \subseteq wrappers
  OBVIOUS
<1>12. IsWrapped(g, vs)
  <2>. HIDE DEF vs
  <2>. QED  BY <1>1, <1>3, <1>5, <1>6, <1>7, <1>8, <1>9, <1>10, <1>11, ShrinksWrapped
<1>. QED  BY <1>4, <1>12

LEMMA FinishingEnd ==
    ASSUME DInv, ~thrown, FinishEnd
    PROVE  DInv'
<1>1. WriterHeld(wrappers)
  <2>1. event # NoEvent
    BY DEF FinishEnd, NoEvent
  <2>. QED  BY <2>1, WhenRunning
<1>2. PICK works \in Outcomes :
        /\ heap' = IF works
                   THEN [Freed(CleanedUp(heap), heap[session.writer].parts \ Fonts)
                            EXCEPT ![session.writer].parts = {}]
                   ELSE CleanedUp(heap)
        /\ session' = [session EXCEPT !.state = IF works THEN "over" ELSE "failed"]
        /\ Throws(~works)
  BY DEF FinishEnd
<1>3. /\ Touches(Writer \cup registered \cup Fonts) /\ registered' = {}
      /\ wrappers' = wrappers \ Of("UsedFont") /\ event' = NoEvent /\ busy' = {}
  BY DEF FinishEnd
<1>4. Remains(heap')
  BY <1>1, <1>2, RemainsOf
<1>5. /\ IsHeap(heap) /\ IsWrapped(heap, wrappers) /\ IsSession(heap, wrappers, session, registered)
      /\ registered = {n \in DOMAIN heap : heap[n].kind = "copying" /\ heap[n].of # None}
  BY DEF DInv, IsSession
<1>6. dangling' = FALSE
  <2>1. Writer \cup registered \cup Fonts \subseteq Live
    BY <1>1, <1>5, WriterIsSafe DEF Live, Fonts
  <2>. QED  BY <1>3, <2>1, Untouched
<1>7. IsHeap(heap') /\ IsWrapped(heap', wrappers')
  BY <1>1, <1>3, <1>4, RemainsSound
<1>8. IsSession(heap', wrappers', session', {})
  <2>1. /\ session' \in [writer : Nat, state : States, modifies : BOOLEAN]
        /\ session'.writer = session.writer
    BY <1>2, <1>5 DEF IsSession, States
  <2>2. \A v \in wrappers : v.class = "PDFWriter" => v \in wrappers'
    BY <1>3 DEF Of
  <2>3. wrappers' \subseteq wrappers
    BY <1>3
  <2>4. \A n \in DOMAIN heap' : /\ n \in DOMAIN heap /\ heap'[n].kind = heap[n].kind
                                /\ heap[n].kind # "font"
                                /\ heap[n].kind = "copying" => heap'[n].of = None
    BY <1>4, <1>5 DEF Remains
  <2>. QED  BY <1>5, <2>1, <2>2, <2>3, <2>4 DEF IsSession
<1>9. thrown' \in BOOLEAN
  BY <1>2, ThrownIs
<1>10. IsEvent(heap', wrappers', event') /\ IsBusy(heap', wrappers', event', busy')
  BY <1>3, NothingPending, BusyWith
<1>. QED  BY <1>3, <1>6, <1>7, <1>8, <1>9, <1>10 DEF DInv

-----------------------------------------------------------------------------
(***************************************************************************)
(* Writers, readers and copying contexts.                                  *)
(***************************************************************************)

\* New objects that a new wrapper owns, which the program may be given or not.
LEMMA GrowsOwned ==
    ASSUME NEW h, NEW g, NEW ws, NEW N, NEW x \in Wrapper,
           IsHeap(h), IsWrapped(h, ws), IsFresh(h, ws, N), Grows(h, g, N),
           x.owns, OwnerFits(g, x), x.native \in N, x.also \in N \cup {None},
           DeletesIn(g, x) \subseteq N,
           \A n \in N : /\ g[n].kind = "parser" => n \in DeletesIn(g, x)
                        /\ \A w \in ws : w.owns /\ w.class = "PDFStream" => w.native \notin g[n].parts,
           x.held => \A p \in ReachIn(g, x.native) :
                        p \in N \/ \E m : Safe(h, ws, m) /\ p \in ReachIn(h, m)
    PROVE  IsWrapped(g, ws \cup {x})
<1>. DEFINE vs == ws \cup {x}
<1>1. \A w \in ws : /\ w.native \in DOMAIN h /\ w.native \notin N
                    /\ w.owns => OwnerFits(h, w)
                    /\ ~w.owns => BorrowerFits(h, ws, w)
                    /\ w.also \notin N
  BY DEF IsWrapped, OwnerFits, BorrowerFits, IsFresh
<1>2. \A w \in ws : DeletesIn(g, w) = DeletesIn(h, w) /\ DeletesIn(h, w) \subseteq DOMAIN h
  BY <1>1, GrowsDeletes, DeletesExist
<1>3. \A n \in DOMAIN h : /\ n \in DOMAIN g /\ g[n] = h[n] /\ n \notin N
                          /\ ReachIn(g, n) = ReachIn(h, n)
  BY GrowsReach DEF Grows, IsFresh
<1>4. ASSUME NEW w \in ws, w.owns
      PROVE  OwnerFits(g, w)
  <2>1. OwnerFits(h, w) /\ w.native \in DOMAIN h /\ g[w.native] = h[w.native] /\ w.native \in DOMAIN g
    BY <1>1, <1>3, <1>4
  <2>2. w.class = "PDFStream" => \A n \in DOMAIN g : w.native \notin g[n].parts
    BY <1>3, <1>4, <2>1 DEF OwnerFits, Grows
  <2>3. w.also \in DOMAIN h => w.also \in DOMAIN g /\ g[w.also] = h[w.also]
    BY <1>3
  <2>. QED  BY <2>1, <2>2, <2>3 DEF OwnerFits
<1>5. \A w \in vs : w.owns => OwnerFits(g, w)
  BY <1>4
<1>6. ASSUME NEW w \in vs, ~w.owns
      PROVE  BorrowerFits(g, vs, w)
  <2>1. w \in ws
    BY <1>6
  <2>2. BorrowerFits(h, ws, w) /\ w.native \in DOMAIN h /\ g[w.native] = h[w.native] /\ w.native \in DOMAIN g
    BY <1>1, <1>3, <1>6, <2>1
  <2>. QED  BY <2>2 DEF BorrowerFits
<1>7. OwnersDiffer(vs)
  <2>1. \A w \in ws : w.native # x.native /\ (x.also # None => w.also # x.also)
    BY <1>1
  <2>. QED  BY <2>1 DEF IsWrapped, OwnersDiffer
<1>8. OneDictionary(vs)
  <2>1. \A w \in ws : w.native # x.native
    BY <1>1
  <2>. QED  BY <2>1 DEF IsWrapped, OneDictionary
<1>9. ParsersOwned(g, vs)
  <2>1. ASSUME NEW p \in DOMAIN g, g[p].kind = "parser"
        PROVE  \E w \in vs : w.owns /\ p \in DeletesIn(g, w)
    <3>1. CASE p \in N
      BY <2>1, <3>1
    <3>2. CASE p \in DOMAIN h
      <4>1. \E w \in ws : w.owns /\ p \in DeletesIn(h, w)
        BY <1>3, <2>1, <3>2 DEF IsWrapped, ParsersOwned
      <4>. QED  BY <1>2, <4>1
    <3>. QED  BY <3>1, <3>2 DEF Grows
  <2>. QED  BY <2>1 DEF ParsersOwned
<1>10. ASSUME NEW w \in ws, w.held
       PROVE  Safe(g, vs, w.native)
  <2>1. /\ Safe(h, ws, w.native) /\ w.native \in DOMAIN h
        /\ ReachIn(g, w.native) = ReachIn(h, w.native) /\ w.native \in DOMAIN g
    BY <1>1, <1>3, <1>10 DEF IsWrapped
  <2>2. ReachIn(h, w.native) \subseteq DOMAIN h
    BY <2>1 DEF Safe
  <2>3. \A v \in vs : ~v.held => ReachIn(h, w.native) \cap DeletesIn(g, v) = {}
    <3>1. ReachIn(h, w.native) \cap DeletesIn(g, x) = {}
      BY <1>3, <2>2
    <3>2. \A v \in ws : ~v.held => ReachIn(h, w.native) \cap DeletesIn(g, v) = {}
      BY <1>2, <2>1 DEF Safe
    <3>. QED  BY <3>1, <3>2
  <2>. QED  BY <1>3, <2>1, <2>2, <2>3 DEF Safe
<1>11. x.held => Safe(g, vs, x.native)
  <2>1. ASSUME x.held
        PROVE  Safe(g, vs, x.native)
    <3>1. \A p \in ReachIn(g, x.native) : p \in N \/ \E m : Safe(h, ws, m) /\ p \in ReachIn(h, m)
      BY <2>1
    <3>2. \A p \in ReachIn(g, x.native) : p \in DOMAIN g
      BY <1>3, <3>1 DEF Safe, Grows
    <3>3. \A v \in ws : ~v.held => ReachIn(g, x.native) \cap DeletesIn(g, v) = {}
      BY <1>2, <1>3, <3>1 DEF Safe
    <3>4. x.native \in DOMAIN g
      BY DEF OwnerFits
    <3>. QED  BY <2>1, <3>2, <3>3, <3>4 DEF Safe
  <2>. QED  BY <2>1
<1>12. vs \subseteq Wrapper
  BY DEF IsWrapped
<1>. QED  BY <1>5, <1>6, <1>7, <1>8, <1>9, <1>10, <1>11, <1>12 DEF IsWrapped

\* The call that waits and what the program draws on have nothing to do with new objects.
LEMMA GrowsEvent ==
    ASSUME DInv, NEW g, NEW N, IsFresh(heap, wrappers, N), Grows(heap, g, N),
           \A n \in N : g[n].of \notin DOMAIN heap \/ heap[g[n].of].kind \in {"writer", "copying"},
           NEW x, x.native \in N
    PROVE  /\ IsEvent(g, wrappers \cup {x}, event)
           /\ ~thrown => IsBusy(g, wrappers \cup {x}, event, busy)
<1>1. IsEvent(heap, wrappers, event) /\ (~thrown => IsBusy(heap, wrappers, event, busy))
  BY DEF DInv
<1>2. \A n \in Pending(event) : n \in DOMAIN heap /\ heap[n].kind \in {"dictionary", "page", "form"}
  BY <1>1, PendingKinds
<1>3. \A n \in DOMAIN heap : n \in DOMAIN g /\ g[n] = heap[n] /\ n \notin N
  BY DEF Grows, IsFresh
<1>4. \A m \in DOMAIN g : g[m].of \in Pending(event) => m \in DOMAIN heap /\ g[m].of = heap[m].of
  BY <1>2, <1>3 DEF Grows
<1>5. \A v \in wrappers \cup {x} : v \in wrappers \/ v.native \notin Pending(event)
  BY <1>2, <1>3
<1>6. IsEvent(g, wrappers \cup {x}, event)
  BY <1>1, <1>2, <1>3, <1>4, <1>5, EventStays
<1>7. ~thrown => IsBusy(g, wrappers \cup {x}, event, busy)
  BY <1>1, <1>3, BusyStays
<1>. QED  BY <1>6, <1>7

\* A new object and the proxies that it points to.
Proxies(k) == {New(1 + i) : i \in 1 .. k}
IsMadeWith(g, a, p, k) ==
    /\ Grows(heap, g, {New(1)} \cup Proxies(k)) /\ IsFresh(heap, wrappers, {New(1)} \cup Proxies(k))
    /\ g[New(1)] = a /\ \A q \in Proxies(k) : g[q] = p
    /\ New(1) \notin Proxies(k) /\ New(1) \in Nat \ {None}
    /\ New(1) \in DOMAIN g /\ None \notin DOMAIN g

LEMMA ProxiesAre ==
    ASSUME NEW k \in 0 .. 2, Room(1 + k)
    PROVE  Proxies(k) \in SUBSET (Nat \ {None}) /\ New(1) \in Nat \ {None} /\ New(1) \notin Proxies(k)
<1>1. 1 + k \in 1 .. 3 /\ 1 \in 1 .. (1 + k)
  OBVIOUS
<1>2. /\ \A i \in 1 .. (1 + k) : New(i) \in Unused
      /\ \A i, j \in 1 .. (1 + k) : New(i) = New(j) => i = j
  BY <1>1, NewAddresses
<1>3. Unused \subseteq Nat \ {None}
  BY DEF Unused, None
<1>4. \A q \in Proxies(k) : \E i \in 1 .. k : q = New(1 + i) /\ 1 + i \in 1 .. (1 + k) /\ 1 + i # 1
  BY DEF Proxies
<1>. QED  BY <1>1, <1>2, <1>3, <1>4

LEMMA MadeWith ==
    ASSUME DInv, NEW k \in 0 .. 2, Room(1 + k), NEW a \in Record, NEW p \in Record
    PROVE  IsMadeWith(Created(heap, <<a>> \o [i \in 1 .. k |-> p]), a, p, k)
<1>. DEFINE f == [i \in 1 .. k |-> p]
            rs == <<a>> \o f
            g == Created(heap, rs)
<1>1. 1 + k \in 1 .. 3 /\ k \in Nat /\ f \in [1 .. k -> Record] /\ k + 1 = 1 + k
  OBVIOUS
<1>2. /\ DOMAIN rs = 1 .. (1 + k) /\ rs[1] = a /\ \A i \in 1 .. k : rs[1 + i] = p
  <2>1. DOMAIN rs = 1 .. (k + 1) /\ rs[1] = a /\ \A i \in 1 .. k : rs[1 + i] = f[i]
    <3>. HIDE DEF f
    <3>. QED  BY <1>1, Joined
  <2>. QED  BY <1>1, <2>1
<1>3. \A i \in 1 .. (1 + k) : i = 1 \/ \E j \in 1 .. k : i = 1 + j
  <2>1. ASSUME NEW i \in 1 .. (1 + k), i # 1
        PROVE  i - 1 \in 1 .. k /\ i = 1 + (i - 1)
    BY <2>1
  <2>. QED  BY <2>1
<1>. HIDE DEF f, rs
<1>4. \A i \in 1 .. (1 + k) : rs[i] \in Record
  BY <1>2, <1>3
<1>5. /\ Grows(heap, g, NewOnes(1 + k)) /\ IsFresh(heap, wrappers, NewOnes(1 + k))
      /\ \A i \in 1 .. (1 + k) : /\ New(i) \in Nat \ {None} /\ g[New(i)] = rs[i]
                                 /\ New(i) \in NewOnes(1 + k)
  BY <1>1, <1>2, <1>4, Made
<1>6. NewOnes(1 + k) = {New(1)} \cup Proxies(k)
  <2>1. \A i \in 1 .. k : 1 + i \in 1 .. (1 + k)
    OBVIOUS
  <2>2. 1 \in 1 .. (1 + k)
    OBVIOUS
  <2>. QED  BY <1>3, <2>1, <2>2 DEF NewOnes, Proxies
<1>7. \A q \in Proxies(k) : g[q] = p
  <2>1. \A i \in 1 .. k : 1 + i \in 1 .. (1 + k)
    OBVIOUS
  <2>. QED  BY <1>2, <1>5, <2>1 DEF Proxies
<1>8. 1 \in 1 .. (1 + k)
  OBVIOUS
<1>. HIDE DEF g
<1>9. New(1) \in DOMAIN g
  BY <1>5, <1>6 DEF Grows
<1>10. None \notin DOMAIN g
  BY <1>5, <1>6, ProxiesAre DEF Grows, DInv, IsHeap, None
<1>11. IsMadeWith(g, a, p, k)
  BY <1>2, <1>5, <1>6, <1>7, <1>8, <1>9, <1>10, ProxiesAre DEF IsMadeWith
<1>. QED  BY <1>11 DEF g, rs, f

\* A wrapper that owns its native and may not be given to the program.
MadeBy(class, n, also, works) == [Wrap(class, n, TRUE, also) EXCEPT !.held = works]

LEMMA MadeByIs ==
    ASSUME NEW class \in Classes, NEW n \in Nat, NEW also \in Nat, NEW works \in BOOLEAN
    PROVE  /\ MadeBy(class, n, also, works) \in Wrapper /\ MadeBy(class, n, also, works).class = class
           /\ MadeBy(class, n, also, works).native = n /\ MadeBy(class, n, also, works).owns
           /\ MadeBy(class, n, also, works).held = works /\ MadeBy(class, n, also, works).also = also
BY DEF MadeBy, Wrap, Wrapper

LEMMA StartingWriter ==
    ASSUME DInv, ~thrown, NEW modifies \in BOOLEAN, NEW k \in 0 .. 2, Starts(modifies, k)
    PROVE  DInv'
<1>. DEFINE a == Native("writer", None, Proxies(k))
            p == Native("proxy", New(1), {})
            N == {New(1)} \cup Proxies(k)
<1>1. /\ session.writer = None /\ Room(1 + k)
      /\ heap' = Created(heap, <<a>> \o [i \in 1 .. k |-> p])
      /\ UNCHANGED <<registered, dangling, busy, event>>
  BY DEF Starts, Proxies
<1>2. PICK works \in Outcomes :
        /\ session' = [writer |-> New(1), state |-> IF works THEN "on" ELSE "failed",
                       modifies |-> modifies]
        /\ wrappers' = wrappers \cup {MadeBy("PDFWriter", New(1), None, works)}
        /\ Throws(~works)
  BY DEF Starts, MadeBy
<1>3. /\ IsHeap(heap) /\ IsWrapped(heap, wrappers) /\ IsSession(heap, wrappers, session, registered)
      /\ None \notin DOMAIN heap
  BY DEF DInv, IsHeap, None
<1>4. New(1) \in Nat \ {None} /\ Proxies(k) \in SUBSET (Nat \ {None}) /\ None \in Nat
  BY <1>1, ProxiesAre DEF None
<1>5. /\ a \in Record /\ a.kind = "writer" /\ a.of = None /\ a.parts = Proxies(k)
      /\ p \in Record /\ p.kind = "proxy" /\ p.of = New(1) /\ p.parts = {}
  BY <1>4, NativeIs DEF Kinds
<1>. DEFINE g == Created(heap, <<a>> \o [i \in 1 .. k |-> p])
<1>. HIDE DEF a, p
<1>6. IsMadeWith(g, a, p, k)
  BY <1>1, <1>5, MadeWith
<1>. HIDE DEF g
<1>7. /\ Grows(heap, g, N) /\ IsFresh(heap, wrappers, N) /\ New(1) \in DOMAIN g /\ None \notin DOMAIN g
      /\ g[New(1)] = a /\ \A q \in Proxies(k) : g[q] = p /\ q \in DOMAIN g
      /\ New(1) \notin Proxies(k)
  BY <1>6 DEF IsMadeWith, Grows
<1>8. \A n \in N : PartsFit(g, n) /\ OfFits(g, n) /\ g[n].kind \notin {"pageContext", "parser"}
  <2>1. PartsFit(g, New(1)) /\ OfFits(g, New(1))
    BY <1>5, <1>7 DEF PartsFit, OfFits, HasPart, Deletable, Lent, Childless, Rootless
  <2>2. \A q \in Proxies(k) : PartsFit(g, q) /\ OfFits(g, q)
    BY <1>5, <1>7 DEF PartsFit, OfFits, PointsBack, Childless, Rootless
  <2>. QED  BY <1>5, <1>7, <2>1, <2>2
<1>9. IsHeap(g)
  BY <1>3, <1>7, <1>8, GrowsHeap
<1>. DEFINE x == MadeBy("PDFWriter", New(1), None, works)
<1>10. /\ x \in Wrapper /\ x.class = "PDFWriter" /\ x.native = New(1) /\ x.owns /\ x.held = works
       /\ x.also = None /\ works \in BOOLEAN
  <2>1. "PDFWriter" \in Classes
    BY DEF Classes
  <2>2. works \in BOOLEAN
    BY OutcomesAreBoolean
  <2>3. New(1) \in Nat
    BY <1>4
  <2>. QED  BY <1>4, <2>1, <2>2, <2>3, MadeByIs
<1>. HIDE DEF x
<1>11. OwnerFits(g, x)
  BY <1>5, <1>7, <1>10 DEF OwnerFits, OwnerOf, WithProxy
<1>12. DeletesIn(g, x) \subseteq N
  BY <1>5, <1>7, <1>10 DEF DeletesIn, OwnedIn, WithProxy
<1>13. \A n \in N : g[n].kind # "parser" /\ \A w \in wrappers : w.owns /\ w.class = "PDFStream" =>
                                                 w.native \notin g[n].parts
  <2>1. \A w \in wrappers : w.native \notin N
    BY <1>7 DEF IsFresh
  <2>. QED  BY <1>5, <1>7, <1>8, <2>1
<1>14. \A q \in ReachIn(g, New(1)) : q \in N
  BY <1>5, <1>7, ReachOf
<1>15. IsWrapped(g, wrappers \cup {x})
  BY <1>3, <1>7, <1>10, <1>11, <1>12, <1>13, <1>14, GrowsOwned
<1>16. /\ IsEvent(g, wrappers \cup {x}, event)
       /\ IsBusy(g, wrappers \cup {x}, event, busy)
  <2>1. \A n \in N : g[n].of \notin DOMAIN heap
    BY <1>3, <1>5, <1>7 DEF IsFresh
  <2>. QED  BY <1>7, <1>10, <2>1, GrowsEvent
<1>17. IsSession(g, wrappers \cup {x}, session', registered)
  <2>1. /\ session' \in [writer : Nat, state : States, modifies : BOOLEAN]
        /\ session'.writer = New(1)
    BY <1>2, <1>4 DEF States
  <2>2. \A w \in wrappers : w.class # "PDFWriter"
    <3>1. \A w \in wrappers : w.native # None
      BY <1>3 DEF IsWrapped, OwnerFits, BorrowerFits
    <3>. QED  BY <1>1, <1>3, <3>1 DEF IsSession
  <2>3. \A n \in DOMAIN heap : heap[n].kind \notin {"writer", "font"}
    BY <1>1, <1>3 DEF IsSession
  <2>4. \A n \in DOMAIN heap : g[n] = heap[n] /\ n \in DOMAIN g
    BY <1>7 DEF Grows
  <2>5. \A n \in DOMAIN g : n \in DOMAIN heap \/ n = New(1) \/ (n \in Proxies(k) /\ g[n].kind = "proxy")
    BY <1>5, <1>7 DEF Grows
  <2>6. registered = {}
    BY <1>1, <1>3 DEF IsSession
  <2>7. registered = {n \in DOMAIN g : g[n].kind = "copying" /\ g[n].of # None}
    BY <1>3, <1>5, <1>7, <2>4, <2>5 DEF IsSession
  <2>8. \A n \in DOMAIN g : g[n].kind # "font" /\ (g[n].kind = "writer" => n = New(1))
    BY <1>5, <1>7, <2>3, <2>4, <2>5
  <2>9. \A w \in wrappers \cup {x} : w.class = "PDFWriter" => w.owns /\ w.native = New(1)
    BY <1>10, <2>2
  <2>10. \E w \in wrappers \cup {x} : w.class = "PDFWriter" /\ w.native = New(1)
    BY <1>10
  <2>. QED  BY <2>1, <2>6, <2>7, <2>8, <2>9, <2>10 DEF IsSession
<1>18. thrown' \in BOOLEAN /\ heap' = g /\ wrappers' = wrappers \cup {x}
  BY <1>1, <1>2, ThrownIs DEF g, x
<1>19. dangling' = FALSE
  BY <1>1 DEF DInv
<1>. QED  BY <1>1, <1>9, <1>15, <1>16, <1>17, <1>18, <1>19 DEF DInv

LEMMA ReaderMade ==
    ASSUME DInv, ~thrown, CreateReader
    PROVE  DInv'
<1>1. PICK k \in {0, 1} :
        /\ Room(1 + k)
        /\ heap' = Created(heap, <<Native("parser", None, {New(1 + i) : i \in 1 .. k})>>
                                     \o [i \in 1 .. k |-> Native("proxy", None, {})])
        /\ \E works \in Outcomes :
              /\ wrappers' = wrappers \cup
                    {[Wrap("PDFReader", New(1), TRUE, IF k = 0 THEN None ELSE New(2))
                         EXCEPT !.held = works]}
              /\ Throws(~works)
        /\ UNCHANGED <<registered, session, dangling, out, busy, event>>
  BY DEF CreateReader
<1>. DEFINE a == Native("parser", None, Proxies(k))
            p == Native("proxy", None, {})
            also == IF k = 0 THEN None ELSE New(2)
            N == {New(1)} \cup Proxies(k)
<1>2. PICK works \in Outcomes :
        wrappers' = wrappers \cup {MadeBy("PDFReader", New(1), also, works)} /\ Throws(~works)
  BY <1>1 DEF MadeBy
<1>3. /\ IsHeap(heap) /\ IsWrapped(heap, wrappers) /\ IsSession(heap, wrappers, session, registered)
      /\ None \notin DOMAIN heap /\ k \in 0 .. 2
  BY <1>1 DEF DInv, IsHeap, None
<1>4. New(1) \in Nat \ {None} /\ Proxies(k) \in SUBSET (Nat \ {None}) /\ None \in Nat
  BY <1>1, <1>3, ProxiesAre DEF None
<1>5. also \in Proxies(k) \cup {None} /\ also \in Nat
  <2>1. k = 1 => New(2) \in Proxies(k)
    <3>1. k = 1 => 1 \in 1 .. k /\ 1 + 1 = 2
      OBVIOUS
    <3>. QED  BY <3>1 DEF Proxies
  <2>. QED  BY <1>1, <1>4, <2>1
<1>6. /\ a \in Record /\ a.kind = "parser" /\ a.of = None /\ a.parts = Proxies(k)
      /\ p \in Record /\ p.kind = "proxy" /\ p.of = None /\ p.parts = {}
  BY <1>4, NativeIs DEF Kinds
<1>. DEFINE g == Created(heap, <<a>> \o [i \in 1 .. k |-> p])
<1>7. heap' = g
  BY <1>1 DEF Proxies
<1>. HIDE DEF a, p, also
<1>8. IsMadeWith(g, a, p, k)
  BY <1>1, <1>3, <1>6, MadeWith
<1>. HIDE DEF g
<1>9. /\ Grows(heap, g, N) /\ IsFresh(heap, wrappers, N) /\ New(1) \in DOMAIN g /\ None \notin DOMAIN g
      /\ g[New(1)] = a /\ \A q \in Proxies(k) : g[q] = p /\ q \in DOMAIN g
      /\ New(1) \notin Proxies(k)
  BY <1>8 DEF IsMadeWith, Grows
<1>10. \A n \in N : PartsFit(g, n) /\ OfFits(g, n) /\ g[n].kind \notin {"pageContext"}
  <2>1. PartsFit(g, New(1)) /\ OfFits(g, New(1))
    BY <1>6, <1>9 DEF PartsFit, OfFits, HasPart, Deletable, Lent, Childless, Rootless
  <2>2. \A q \in Proxies(k) : PartsFit(g, q) /\ OfFits(g, q)
    BY <1>6, <1>9 DEF PartsFit, OfFits, PointsBack, Childless, Rootless
  <2>. QED  BY <1>6, <1>9, <2>1, <2>2
<1>11. IsHeap(g)
  BY <1>3, <1>9, <1>10, GrowsHeap
<1>. DEFINE x == MadeBy("PDFReader", New(1), also, works)
<1>12. /\ x \in Wrapper /\ x.class = "PDFReader" /\ x.native = New(1) /\ x.owns /\ x.held = works
       /\ x.also = also /\ works \in BOOLEAN
  <2>1. "PDFReader" \in Classes
    BY DEF Classes
  <2>2. works \in BOOLEAN
    BY OutcomesAreBoolean
  <2>3. New(1) \in Nat
    BY <1>4
  <2>. QED  BY <1>5, <2>1, <2>2, <2>3, MadeByIs
<1>. HIDE DEF x
<1>13. OwnerFits(g, x)
  BY <1>5, <1>6, <1>9, <1>12 DEF OwnerFits, OwnerOf
<1>14. DeletesIn(g, x) \subseteq N /\ New(1) \in DeletesIn(g, x)
  BY <1>4, <1>5, <1>6, <1>9, <1>12 DEF DeletesIn, OwnedIn
<1>15. \A n \in N : /\ g[n].kind = "parser" => n \in DeletesIn(g, x)
                    /\ \A w \in wrappers : w.owns /\ w.class = "PDFStream" => w.native \notin g[n].parts
  <2>1. \A w \in wrappers : w.native \notin N
    BY <1>9 DEF IsFresh
  <2>. QED  BY <1>6, <1>9, <1>14, <2>1
<1>16. \A q \in ReachIn(g, New(1)) : q \in N
  BY <1>6, <1>9, ReachOf
<1>17. IsWrapped(g, wrappers \cup {x})
  BY <1>3, <1>5, <1>9, <1>12, <1>13, <1>14, <1>15, <1>16, GrowsOwned
<1>18. /\ IsEvent(g, wrappers \cup {x}, event)
       /\ IsBusy(g, wrappers \cup {x}, event, busy)
  <2>1. \A n \in N : g[n].of \notin DOMAIN heap
    BY <1>3, <1>6, <1>9
  <2>. QED  BY <1>9, <1>12, <2>1, GrowsEvent
<1>19. IsSession(g, wrappers \cup {x}, session, registered)
  <2>1. \A n \in DOMAIN heap : n \in DOMAIN g /\ g[n] = heap[n]
    BY <1>9 DEF Grows
  <2>2. \A n \in DOMAIN g : g[n].kind \in {"writer", "font", "copying"} => n \in DOMAIN heap /\ g[n] = heap[n]
    BY <1>6, <1>9, <2>1 DEF Grows
  <2>3. SameWriters(wrappers, wrappers \cup {x})
    BY <1>12 DEF SameWriters
  <2>. QED  BY <1>3, <2>1, <2>2, <2>3, SessionStays
<1>20. thrown' \in BOOLEAN /\ wrappers' = wrappers \cup {x}
  BY <1>2, ThrownIs DEF x
<1>21. dangling' = FALSE /\ UNCHANGED <<registered, session, busy, event>>
  BY <1>1 DEF DInv
<1>. QED  BY <1>7, <1>11, <1>17, <1>18, <1>19, <1>20, <1>21 DEF DInv

\* The proxy of a stream that no copying context came of.
LEMMA ProxyLeft ==
    ASSUME DInv, ~thrown, Room(1), heap' = Created(heap, <<Native("proxy", None, {})>>),
           UNCHANGED <<wrappers, registered, session, event, busy>>, dangling' = FALSE,
           thrown' \in BOOLEAN
    PROVE  DInv'
<1>. DEFINE p == Native("proxy", None, {})
            rs == <<p>>
            g == Created(heap, rs)
            N == NewOnes(1)
<1>1. p \in Record /\ p.kind = "proxy" /\ p.of = None /\ p.parts = {}
  BY NativeIs DEF Kinds, None
<1>. HIDE DEF p
<1>2. DOMAIN rs = 1 .. 1 /\ rs[1] = p /\ \A i \in 1 .. 1 : rs[i] \in Record
  BY <1>1
<1>. HIDE DEF rs
<1>3. /\ Grows(heap, g, N) /\ IsFresh(heap, wrappers, N)
      /\ \A i \in 1 .. 1 : g[New(i)] = rs[i]
  <2>1. 1 \in 1 .. 3
    OBVIOUS
  <2>. QED  BY <1>2, <2>1, Made
<1>4. \A n \in N : g[n] = p /\ n \in DOMAIN g
  <2>1. \A n \in N : n = New(1)
    BY DEF NewOnes
  <2>2. g[New(1)] = p
    BY <1>2, <1>3
  <2>. QED  BY <1>3, <2>1, <2>2 DEF Grows
<1>. HIDE DEF N, g
<1>5. None \notin DOMAIN g
  <2>1. None \notin N
    BY <1>3 DEF IsFresh, None
  <2>. QED  BY <1>3, <2>1 DEF Grows, DInv, IsHeap, None
<1>6. \A n \in N :
         /\ PartsFit(g, n) /\ OfFits(g, n)
         /\ g[n].kind \notin {"pageContext", "parser", "writer", "font", "copying"}
         /\ g[n].of \in N \cup {None} \/ g[g[n].of].kind = "writer"
         /\ \A w \in wrappers : w.owns /\ w.class = "PDFStream" => w.native \notin g[n].parts
  BY <1>1, <1>4, <1>5 DEF PartsFit, OfFits, PointsBack, Childless, Rootless
<1>7. Sound(heap, wrappers, session, registered)
  BY DEF DInv, Sound
<1>8. /\ Sound(g, wrappers, session, registered) /\ BusyStill(heap, wrappers, g, wrappers)
      /\ IsEvent(g, wrappers, event)
  BY <1>3, <1>6, <1>7, GrowsSound DEF DInv
<1>9. IsBusy(g, wrappers, event, busy)
  BY <1>8 DEF DInv, BusyStill
<1>10. heap' = g
  BY DEF g, rs, p
<1>. QED  BY <1>8, <1>9, <1>10 DEF DInv, Sound

\* A new copying context with a parser of its own, or of the program, and perhaps a proxy.
IsCopying(g, N, c, also) ==
    /\ Grows(heap, g, N) /\ IsFresh(heap, wrappers, N)
    /\ c \in N /\ g[c].kind = "copying" /\ g[c].of = session.writer
    /\ also \in N \cup {None} /\ (also # None => g[also].kind = "proxy")
    /\ \A n \in N : n # c => \/ g[n].kind = "parser" /\ g[n].of = c /\ n \in g[c].parts
                             \/ g[n].kind = "proxy" /\ g[n].of = None
    /\ \A n \in N : PartsFit(g, n) /\ OfFits(g, n)
    /\ \A n \in N : \A w \in wrappers : w.owns /\ w.class = "PDFStream" => w.native \notin g[n].parts
    /\ \A p \in ReachIn(g, c) : p \in N \/ \E m : Safe(heap, wrappers, m) /\ p \in ReachIn(heap, m)

LEMMA CopyingMade ==
    ASSUME DInv, ~thrown, WriterHeld(wrappers), NEW g, NEW N, NEW c, NEW also, IsCopying(g, N, c, also),
           heap' = g, wrappers' = wrappers \cup {Wrap("DocumentCopyingContext", c, TRUE, also)},
           registered' = registered \cup {c},
           UNCHANGED <<session, event, busy>>, dangling' = FALSE, thrown' \in BOOLEAN
    PROVE  DInv'
<1>. DEFINE x == Wrap("DocumentCopyingContext", c, TRUE, also)
<1>1. /\ IsHeap(heap) /\ IsWrapped(heap, wrappers) /\ IsSession(heap, wrappers, session, registered)
      /\ None \notin DOMAIN heap
  BY DEF DInv, IsHeap, None
<1>2. session.writer \in DOMAIN heap /\ heap[session.writer].kind = "writer" /\ session.writer # None
  BY WriterIsSafe DEF Live
<1>3. /\ Grows(heap, g, N) /\ IsFresh(heap, wrappers, N) /\ N \subseteq Nat \ {None}
      /\ c \in N /\ also \in N \cup {None} /\ N \subseteq DOMAIN g
  BY DEF IsCopying, IsFresh, Grows, None
<1>4. /\ x \in Wrapper /\ x.class = "DocumentCopyingContext" /\ x.native = c /\ x.owns /\ x.held
      /\ x.also = also
  BY <1>3 DEF Wrap, Wrapper, Classes, None
<1>. HIDE DEF x
<1>5. \A n \in DOMAIN heap : n \in DOMAIN g /\ g[n] = heap[n] /\ n \notin N /\ heap[n].of \notin N
  BY <1>3 DEF Grows, IsFresh
<1>6. IsHeap(g)
  <2>1. \A n \in N : PartsFit(g, n) /\ OfFits(g, n) /\ g[n].kind # "pageContext"
    BY DEF IsCopying
  <2>. QED  BY <1>1, <1>3, <2>1, GrowsHeap
<1>7. /\ \A n \in N : n # c => \/ g[n].kind = "parser" /\ g[n].of = c /\ n \in g[c].parts
                               \/ g[n].kind = "proxy" /\ g[n].of = None
      /\ g[c].kind = "copying" /\ g[c].of = session.writer
      /\ also # None => g[also].kind = "proxy"
  BY DEF IsCopying
<1>8. OwnerFits(g, x)
  <2>1. also # None => also \in DOMAIN g /\ g[also].kind = "proxy" /\ g[also].of = None
    BY <1>3, <1>7
  <2>. QED  BY <1>3, <1>4, <1>7, <2>1 DEF OwnerFits, OwnerOf
<1>9. DeletesIn(g, x) \subseteq N
  <2>1. \A p \in DOMAIN g : g[p].of = c => p \in N
    BY <1>3, <1>5 DEF Grows
  <2>. QED  BY <1>3, <1>4, <2>1 DEF DeletesIn, OwnedIn
<1>10. \A n \in N : g[n].kind = "parser" => n \in DeletesIn(g, x)
  BY <1>3, <1>4, <1>7 DEF DeletesIn, OwnedIn
<1>11. IsWrapped(g, wrappers \cup {x})
  <2>1. \A n \in N : /\ g[n].kind = "parser" => n \in DeletesIn(g, x)
                     /\ \A w \in wrappers : w.owns /\ w.class = "PDFStream" => w.native \notin g[n].parts
    BY <1>10 DEF IsCopying
  <2>2. \A p \in ReachIn(g, x.native) : p \in N \/ \E m : Safe(heap, wrappers, m) /\ p \in ReachIn(heap, m)
    BY <1>4 DEF IsCopying
  <2>. QED  BY <1>1, <1>3, <1>4, <1>8, <1>9, <2>1, <2>2, GrowsOwned
<1>12. /\ IsEvent(g, wrappers \cup {x}, event)
       /\ IsBusy(g, wrappers \cup {x}, event, busy)
  <2>1. \A n \in N : g[n].of \notin DOMAIN heap \/ heap[g[n].of].kind \in {"writer", "copying"}
    BY <1>1, <1>2, <1>3, <1>5, <1>7
  <2>. QED  BY <1>3, <1>4, <2>1, GrowsEvent
<1>13. IsSession(g, wrappers \cup {x}, session, registered \cup {c})
  <2>1. registered = {n \in DOMAIN heap : heap[n].kind = "copying" /\ heap[n].of # None}
    BY <1>1 DEF IsSession
  <2>2. registered \cup {c} = {n \in DOMAIN g : g[n].kind = "copying" /\ g[n].of # None}
    <3>1. \A n \in DOMAIN g : n \in DOMAIN heap \/ n \in N
      BY <1>3 DEF Grows
    <3>2. \A n \in N : g[n].kind = "copying" => n = c
      BY <1>7
    <3>. QED  BY <1>2, <1>3, <1>5, <1>7, <2>1, <3>1, <3>2
  <2>3. \A n \in DOMAIN g : n \in DOMAIN heap \/ g[n].kind \in {"parser", "proxy", "copying"}
    BY <1>3, <1>7 DEF Grows
  <2>4. \A n \in DOMAIN g : /\ g[n].kind = "writer" => n = session.writer
                            /\ g[n].kind = "font" => /\ g[n].of = session.writer
                                                     /\ n \in g[session.writer].parts
    BY <1>1, <1>2, <1>5, <2>3 DEF IsSession
  <2>5. \A n \in registered \cup {c} : g[n].of = session.writer
    BY <1>1, <1>5, <1>7, <2>1 DEF IsSession
  <2>6. \A w \in wrappers \cup {x} : w.class = "PDFWriter" => w.owns /\ w.native = session.writer
    BY <1>1, <1>4 DEF IsSession
  <2>7. /\ session \in [writer : Nat, state : States, modifies : BOOLEAN]
        /\ session.writer # None => \E w \in wrappers \cup {x} : w.class = "PDFWriter" /\ w.native = session.writer
    BY <1>1 DEF IsSession
  <2>8. session.writer \in DOMAIN g
    BY <1>2, <1>5
  <2>. QED  BY <2>2, <2>4, <2>5, <2>6, <2>7, <2>8 DEF IsSession
<1>14. wrappers' = wrappers \cup {x}
  BY DEF x
<1>. QED  BY <1>6, <1>11, <1>12, <1>13, <1>14 DEF DInv

LEMMA RoomForLess ==
    ASSUME Room(3), NEW k \in 1 .. 3
    PROVE  Room(k)
<1>1. Cardinality(Unused) \in Nat
  BY UnusedIsFinite, FS_CardinalityType
<1>. QED  BY <1>1 DEF Room

\* The objects of a context that reads a path, a stream or what it is given.
LEMMA CopiesPath ==
    ASSUME DInv, WriterHeld(wrappers), Room(2), NEW g,
           g = Created(heap, <<Native("copying", session.writer, {New(2)}), Native("parser", New(1), {})>>)
    PROVE  IsCopying(g, NewOnes(2), New(1), None)
<1>. DEFINE a == Native("copying", session.writer, {New(2)})
            b == Native("parser", New(1), {})
            rs == <<a, b>>
            N == NewOnes(2)
<1>1. New(1) \in Nat \ {None} /\ New(2) \in Nat \ {None}
  BY NewAddresses DEF Unused, None
<1>2. /\ session.writer \in DOMAIN heap /\ heap[session.writer].kind = "writer"
      /\ session.writer \in Nat \ {None} /\ Safe(heap, wrappers, session.writer)
  BY WriterIsSafe DEF Live, DInv, IsSession
<1>3. /\ a \in Record /\ a.kind = "copying" /\ a.of = session.writer /\ a.parts = {New(2)}
      /\ b \in Record /\ b.kind = "parser" /\ b.of = New(1) /\ b.parts = {}
  BY <1>1, <1>2, NativeIs DEF Kinds
<1>. HIDE DEF a, b
<1>4. DOMAIN rs = 1 .. 2 /\ rs[1] = a /\ rs[2] = b /\ 2 \in 1 .. 3 /\ 1 \in 1 .. 2 /\ 2 \in 1 .. 2
  OBVIOUS
<1>5. \A i \in 1 .. 2 : rs[i] \in Record
  BY <1>3
<1>6. g = Created(heap, rs)
  BY DEF a, b
<1>. HIDE DEF rs
<1>7. /\ Grows(heap, g, N) /\ IsFresh(heap, wrappers, N) /\ g[New(1)] = a /\ g[New(2)] = b
      /\ New(1) \in N /\ New(2) \in N /\ New(1) # New(2)
  BY <1>4, <1>5, <1>6, Made
<1>8. \A n \in N : n = New(1) \/ n = New(2)
  BY DEF NewOnes
<1>. HIDE DEF N
<1>9. /\ N \subseteq DOMAIN g /\ None \notin DOMAIN g
      /\ session.writer \in DOMAIN g /\ g[session.writer] = heap[session.writer]
  BY <1>2, <1>7 DEF Grows, IsFresh, DInv, IsHeap, None
<1>10. PartsFit(g, New(1)) /\ OfFits(g, New(1))
  BY <1>2, <1>3, <1>7, <1>9 DEF PartsFit, OfFits, HasPart, Deletable, Lent, PointsBack, Childless, Rootless
<1>11. PartsFit(g, New(2)) /\ OfFits(g, New(2))
  BY <1>3, <1>7, <1>9 DEF PartsFit, OfFits, PointsBack, Childless, Rootless
<1>12. \A w \in wrappers : w.native \notin N
  BY <1>7 DEF IsFresh
<1>13. ASSUME NEW p \in ReachIn(g, New(1))
       PROVE  p \in N \/ \E m : Safe(heap, wrappers, m) /\ p \in ReachIn(heap, m)
  <2>1. p = New(1) \/ p = session.writer \/ p = New(2)
    BY <1>3, <1>7, <1>9, ReachOf
  <2>2. session.writer \in ReachIn(heap, session.writer)
    BY <1>2 DEF ReachIn
  <2>. QED  BY <1>2, <1>7, <2>1, <2>2
<1>14. IsCopying(g, N, New(1), None)
  BY <1>3, <1>7, <1>8, <1>10, <1>11, <1>12, <1>13 DEF IsCopying
<1>. QED  BY <1>14 DEF N

LEMMA CopiesStream ==
    ASSUME DInv, WriterHeld(wrappers), Room(3), NEW g,
           g = Created(heap, <<Native("copying", session.writer, {New(2)}),
                               Native("parser", New(1), {New(3)}), Native("proxy", None, {})>>)
    PROVE  IsCopying(g, NewOnes(3), New(1), New(3))
<1>. DEFINE a == Native("copying", session.writer, {New(2)})
            b == Native("parser", New(1), {New(3)})
            c == Native("proxy", None, {})
            rs == <<a, b, c>>
            N == NewOnes(3)
<1>1. New(1) \in Nat \ {None} /\ New(2) \in Nat \ {None} /\ New(3) \in Nat \ {None}
  BY NewAddresses DEF Unused, None
<1>2. /\ session.writer \in DOMAIN heap /\ heap[session.writer].kind = "writer"
      /\ session.writer \in Nat \ {None} /\ Safe(heap, wrappers, session.writer)
  BY WriterIsSafe DEF Live, DInv, IsSession
<1>3. /\ a \in Record /\ a.kind = "copying" /\ a.of = session.writer /\ a.parts = {New(2)}
      /\ b \in Record /\ b.kind = "parser" /\ b.of = New(1) /\ b.parts = {New(3)}
      /\ c \in Record /\ c.kind = "proxy" /\ c.of = None /\ c.parts = {}
  BY <1>1, <1>2, NativeIs DEF Kinds, None
<1>. HIDE DEF a, b, c
<1>4. /\ DOMAIN rs = 1 .. 3 /\ rs[1] = a /\ rs[2] = b /\ rs[3] = c
      /\ 3 \in 1 .. 3 /\ 1 \in 1 .. 3 /\ 2 \in 1 .. 3
  OBVIOUS
<1>5. \A i \in 1 .. 3 : rs[i] \in Record
  BY <1>3
<1>6. g = Created(heap, rs)
  BY DEF a, b, c
<1>. HIDE DEF rs
<1>7. /\ Grows(heap, g, N) /\ IsFresh(heap, wrappers, N)
      /\ g[New(1)] = a /\ g[New(2)] = b /\ g[New(3)] = c
      /\ New(1) \in N /\ New(2) \in N /\ New(3) \in N
      /\ New(1) # New(2) /\ New(1) # New(3) /\ New(2) # New(3)
  BY <1>4, <1>5, <1>6, Made
<1>8. \A n \in N : n = New(1) \/ n = New(2) \/ n = New(3)
  BY DEF NewOnes
<1>. HIDE DEF N
<1>9. /\ N \subseteq DOMAIN g /\ None \notin DOMAIN g
      /\ session.writer \in DOMAIN g /\ g[session.writer] = heap[session.writer]
  BY <1>2, <1>7 DEF Grows, IsFresh, DInv, IsHeap, None
<1>10. PartsFit(g, New(1)) /\ OfFits(g, New(1))
  BY <1>2, <1>3, <1>7, <1>9 DEF PartsFit, OfFits, HasPart, Deletable, Lent, PointsBack, Childless, Rootless
<1>11. PartsFit(g, New(2)) /\ OfFits(g, New(2))
  BY <1>3, <1>7, <1>9 DEF PartsFit, OfFits, HasPart, Deletable, Lent, PointsBack, Childless, Rootless
<1>12. PartsFit(g, New(3)) /\ OfFits(g, New(3))
  BY <1>3, <1>7, <1>9 DEF PartsFit, OfFits, PointsBack, Childless, Rootless
<1>13. \A w \in wrappers : w.native \notin N
  BY <1>7 DEF IsFresh
<1>14. ASSUME NEW p \in ReachIn(g, New(1))
       PROVE  p \in N \/ \E m : Safe(heap, wrappers, m) /\ p \in ReachIn(heap, m)
  <2>1. p = New(1) \/ p = session.writer \/ p = New(2) \/ p = New(3)
    BY <1>3, <1>7, <1>9, ReachOf
  <2>2. session.writer \in ReachIn(heap, session.writer)
    BY <1>2 DEF ReachIn
  <2>. QED  BY <1>2, <1>7, <2>1, <2>2
<1>15. IsCopying(g, N, New(1), New(3))
  BY <1>3, <1>7, <1>8, <1>10, <1>11, <1>12, <1>13, <1>14 DEF IsCopying
<1>. QED  BY <1>15 DEF N

LEMMA CopiesParser ==
    ASSUME DInv, WriterHeld(wrappers), Room(1), NEW g, NEW r, Safe(heap, wrappers, r),
           heap[r].kind \in {"parser", "writer"},
           g = Created(heap, <<Native("copying", session.writer, {r})>>)
    PROVE  IsCopying(g, NewOnes(1), New(1), None)
<1>. DEFINE a == Native("copying", session.writer, {r})
            rs == <<a>>
            N == NewOnes(1)
<1>1. New(1) \in Nat \ {None}
  BY NewAddresses DEF Unused, None
<1>2. /\ session.writer \in DOMAIN heap /\ heap[session.writer].kind = "writer"
      /\ session.writer \in Nat \ {None} /\ Safe(heap, wrappers, session.writer)
  BY WriterIsSafe DEF Live, DInv, IsSession
<1>3. r \in DOMAIN heap /\ r \in Nat \ {None}
  BY DEF Safe, DInv, IsHeap, None
<1>4. a \in Record /\ a.kind = "copying" /\ a.of = session.writer /\ a.parts = {r}
  BY <1>2, <1>3, NativeIs DEF Kinds
<1>. HIDE DEF a
<1>5. DOMAIN rs = 1 .. 1 /\ rs[1] = a /\ 1 \in 1 .. 3 /\ 1 \in 1 .. 1
  OBVIOUS
<1>6. \A i \in 1 .. 1 : rs[i] \in Record
  BY <1>4
<1>7. g = Created(heap, rs)
  BY DEF a
<1>. HIDE DEF rs
<1>8. /\ Grows(heap, g, N) /\ IsFresh(heap, wrappers, N) /\ g[New(1)] = a /\ New(1) \in N
  BY <1>5, <1>6, <1>7, Made
<1>9. \A n \in N : n = New(1)
  BY DEF NewOnes
<1>. HIDE DEF N
<1>10. /\ New(1) \in DOMAIN g /\ None \notin DOMAIN g
       /\ session.writer \in DOMAIN g /\ g[session.writer] = heap[session.writer]
       /\ r \in DOMAIN g /\ g[r] = heap[r]
  BY <1>2, <1>3, <1>8 DEF Grows, IsFresh, DInv, IsHeap, None
<1>11. PartsFit(g, New(1)) /\ OfFits(g, New(1))
  BY <1>2, <1>4, <1>8, <1>10 DEF PartsFit, OfFits, HasPart, Deletable, Lent, PointsBack, Childless, Rootless
<1>12. \A w \in wrappers : w.owns /\ w.class = "PDFStream" => w.native # r
  BY DEF DInv, IsWrapped, OwnerFits, OwnerOf
<1>13. ASSUME NEW p \in ReachIn(g, New(1))
       PROVE  p \in N \/ \E m : Safe(heap, wrappers, m) /\ p \in ReachIn(heap, m)
  <2>1. p # None /\ (p = New(1) \/ p = session.writer \/ p = r \/ p \in heap[r].parts)
    BY <1>4, <1>8, <1>10, ReachOf
  <2>2. session.writer \in ReachIn(heap, session.writer)
    BY <1>2 DEF ReachIn
  <2>3. r \in ReachIn(heap, r) /\ (p \in heap[r].parts => p \in ReachIn(heap, r))
    BY <1>3, <2>1 DEF ReachIn
  <2>. QED  BY <1>2, <1>8, <2>1, <2>2, <2>3
<1>14. IsCopying(g, N, New(1), None)
  BY <1>4, <1>8, <1>9, <1>11, <1>12, <1>13 DEF IsCopying
<1>. QED  BY <1>14 DEF N

\* What the context reads from, if it is given a parser.
LEMMA CopiesMade ==
    ASSUME DInv, ~thrown, NEW source \in {"path", "stream", "parser"}, NEW given,
           source = "parser" => \E r : /\ given = {r} /\ Safe(heap, wrappers, r)
                                       /\ heap[r].kind \in {"parser", "writer"},
           source # "parser" => given = {},
           Copies(source, given)
    PROVE  DInv'
<1>1. /\ IsRunning /\ Room(3) /\ Touches(Writer \cup UNION {Reach(p) : p \in given})
      /\ UNCHANGED <<session, busy, event>>
  BY DEF Copies, IsFree
<1>2. WriterHeld(wrappers) /\ Writer \subseteq Live
  BY <1>1, WhenRunning, WriterIsSafe
<1>3. dangling' = FALSE
  <2>1. \A p \in given : Reach(p) \subseteq Live
    BY Reaches DEF Safe, Live
  <2>2. Writer \cup UNION {Reach(p) : p \in given} \subseteq Live
    BY <1>2, <2>1
  <2>. QED  BY <1>1, <2>2, Untouched
<1>4. PICK works \in Outcomes :
        /\ Throws(~works)
        /\ works =>
             /\ source = "path" => heap' = Created(heap,
                   <<Native("copying", session.writer, {New(2)}), Native("parser", New(1), {})>>)
             /\ source = "stream" => heap' = Created(heap,
                   <<Native("copying", session.writer, {New(2)}), Native("parser", New(1), {New(3)}),
                     Native("proxy", None, {})>>)
             /\ source = "parser" => heap' = Created(heap, <<Native("copying", session.writer, given)>>)
             /\ wrappers' = wrappers \cup
                   {Wrap("DocumentCopyingContext", New(1), TRUE, IF source = "stream" THEN New(3) ELSE None)}
             /\ registered' = registered \cup {New(1)}
        /\ ~works => /\ heap' = IF source = "stream"
                                THEN Created(heap, <<Native("proxy", None, {})>>) ELSE heap
                     /\ UNCHANGED <<wrappers, registered>>
  BY DEF Copies
<1>5. Room(1) /\ Room(2)
  BY <1>1, RoomForLess
<1>6. thrown' \in BOOLEAN
  BY <1>4, ThrownIs
<1>7. CASE works /\ source = "path"
  <2>1. IsCopying(heap', NewOnes(2), New(1), None)
    BY <1>2, <1>4, <1>5, <1>7, CopiesPath
  <2>2. wrappers' = wrappers \cup {Wrap("DocumentCopyingContext", New(1), TRUE, None)}
    BY <1>4, <1>7
  <2>3. registered' = registered \cup {New(1)}
    BY <1>4, <1>7
  <2>. QED  BY <1>1, <1>2, <1>3, <1>6, <2>1, <2>2, <2>3, CopyingMade
<1>8. CASE works /\ source = "stream"
  <2>1. IsCopying(heap', NewOnes(3), New(1), New(3))
    BY <1>1, <1>2, <1>4, <1>8, CopiesStream
  <2>2. wrappers' = wrappers \cup {Wrap("DocumentCopyingContext", New(1), TRUE, New(3))}
    BY <1>4, <1>8
  <2>3. registered' = registered \cup {New(1)}
    BY <1>4, <1>8
  <2>. QED  BY <1>1, <1>2, <1>3, <1>6, <2>1, <2>2, <2>3, CopyingMade
<1>9. CASE works /\ source = "parser"
  <2>. PICK r : given = {r} /\ Safe(heap, wrappers, r) /\ heap[r].kind \in {"parser", "writer"}
    BY <1>9
  <2>1. IsCopying(heap', NewOnes(1), New(1), None)
    BY <1>2, <1>4, <1>5, <1>9, CopiesParser
  <2>2. wrappers' = wrappers \cup {Wrap("DocumentCopyingContext", New(1), TRUE, None)}
    BY <1>4, <1>9
  <2>3. registered' = registered \cup {New(1)}
    BY <1>4, <1>9
  <2>. QED  BY <1>1, <1>2, <1>3, <1>6, <2>1, <2>2, <2>3, CopyingMade
<1>10. CASE ~works /\ source = "stream"
  <2>1. /\ heap' = Created(heap, <<Native("proxy", None, {})>>)
        /\ UNCHANGED <<wrappers, registered>>
    BY <1>4, <1>10
  <2>. QED  BY <1>1, <1>3, <1>5, <1>6, <2>1, ProxyLeft
<1>11. CASE ~works /\ source # "stream"
  <2>1. UNCHANGED <<heap, wrappers, registered>>
    BY <1>4, <1>11
  <2>. QED  BY <1>1, <1>3, <1>6, <2>1 DEF DInv
<1>12. works \in BOOLEAN
  BY OutcomesAreBoolean
<1>. QED  BY <1>7, <1>8, <1>9, <1>10, <1>11, <1>12

LEMMA CopyingContextMade ==
    ASSUME DInv, ~thrown, CreatePDFCopyingContext \/ CreatePDFCopyingContextForModifiedFile
    PROVE  DInv'
<1>1. CASE Copies("path", {}) \/ Copies("stream", {})
  BY <1>1, CopiesMade
<1>2. CASE \E r \in Of("PDFReader") : Copies("parser", {r.native})
  <2>. PICK r \in Of("PDFReader") : Copies("parser", {r.native})
    BY <1>2
  <2>1. Safe(heap, wrappers, r.native) /\ heap[r.native].kind \in {"parser", "writer"}
    BY Used DEF OwnerFits, BorrowerFits, OwnerOf, BorrowerOf
  <2>. QED  BY <2>1, CopiesMade
<1>3. CASE CreatePDFCopyingContextForModifiedFile
  <2>1. Copies("parser", {session.writer})
    BY <1>3 DEF CreatePDFCopyingContextForModifiedFile
  <2>2. WriterHeld(wrappers)
    BY <2>1, WhenRunning DEF Copies, IsFree
  <2>3. Safe(heap, wrappers, session.writer) /\ heap[session.writer].kind = "writer"
    BY <2>2, WriterIsSafe
  <2>. QED  BY <2>1, <2>3, CopiesMade
<1>. QED  BY <1>1, <1>2, <1>3 DEF CreatePDFCopyingContext

-----------------------------------------------------------------------------
(***************************************************************************)
(* New parts of objects of the program.                                    *)
(***************************************************************************)

\* What an object may get as a part: objects of the records, of which Q are its parts then.
MayAttach(h, n, rs, k, Q) ==
    /\ h[n].kind \in {"modifier", "file", "pageContext", "writer", "form"}
    /\ h[n].kind = "pageContext" => Q \subseteq NewOnes(k)
    /\ h[n].kind = "writer" => h[n].parts \subseteq Q
    /\ Q \in SUBSET (Nat \ {None}) /\ Q \subseteq h[n].parts \cup NewOnes(k)
    /\ \A i \in 1 .. k :
          /\ rs[i] \in Record /\ rs[i].parts = {} /\ rs[i].of \in {n, None}
          /\ rs[i].kind \in {"formContext", "stream", "fileStream", "font"}
          /\ rs[i].of = n => PointsBack(rs[i].kind, h[n].kind)
          /\ rs[i].kind = "font" => rs[i].of = n /\ New(i) \in Q
          /\ HasPart(h[n].kind, rs[i].kind)
          /\ Deletable(h[n].kind, rs[i].kind) => rs[i].of = n
          /\ Lent(h[n].kind, rs[i].kind) => rs[i].of = None

\* The objects f are h with perhaps other parts for n; those get new ones, of which Q are its parts.
Alike(h, f, n) ==
    /\ DOMAIN f = DOMAIN h /\ \A m \in DOMAIN h : m # n => f[m] = h[m]
    /\ f[n] \in Record /\ f[n].kind = h[n].kind /\ f[n].of = h[n].of
GivenParts(f, rs, n, Q) == [Created(f, rs) EXCEPT ![n].parts = Q]
Attached(h, g, rs, k, n, Q) ==
    /\ Attaches(h, g, NewOnes(k), n, {})
    /\ \A i \in 1 .. k : g[New(i)] = rs[i]
    /\ g[n].parts = Q

LEMMA AttachedIs ==
    ASSUME NEW k \in 1 .. 3, Room(k), NEW h, NEW vs, IsHeap(h), DOMAIN h \subseteq Live,
           IsFresh(h, vs, NewOnes(k)), NEW n \in DOMAIN h, NEW f, Alike(h, f, n),
           NEW rs, DOMAIN rs = 1 .. k, NEW Q, MayAttach(h, n, rs, k, Q)
    PROVE  Attached(h, GivenParts(f, rs, n, Q), rs, k, n, Q)
<1>0. /\ DOMAIN f = DOMAIN h /\ \A m \in DOMAIN h : m # n => f[m] = h[m]
      /\ f[n] \in Record /\ f[n].kind = h[n].kind /\ f[n].of = h[n].of
  BY DEF Alike
<1>. DEFINE N == NewOnes(k)
            c == Created(f, rs)
            g == GivenParts(f, rs, n, Q)
<1>1. IsMade(f, c, rs, k)
  <2>1. DOMAIN f \subseteq Live
    BY <1>0
  <2>. QED  BY <2>1, CreatedIs
<1>2. /\ DOMAIN c = DOMAIN h \cup N /\ c = [m \in DOMAIN c |-> c[m]]
      /\ \A m \in DOMAIN h : c[m] = f[m]
      /\ \A i \in 1 .. k : c[New(i)] = rs[i]
  BY <1>0, <1>1 DEF IsMade
<1>20. g = [c EXCEPT ![n].parts = Q]
  BY DEF GivenParts
<1>. HIDE DEF c, g
<1>3. \A i \in 1 .. k : New(i) \in N /\ New(i) # n
  BY DEF NewOnes, IsFresh
<1>4. \A m \in N : \E i \in 1 .. k : m = New(i)
  BY DEF NewOnes
<1>5. /\ DOMAIN g = DOMAIN c /\ g = [m \in DOMAIN g |-> g[m]]
      /\ \A m \in DOMAIN c : m # n => g[m] = c[m]
      /\ g[n] = [f[n] EXCEPT !.parts = Q]
  BY <1>2, <1>20
<1>6. /\ g[n] \in Record /\ g[n].kind = h[n].kind /\ g[n].of = h[n].of /\ g[n].parts = Q
  <2>1. Q \in SUBSET (Nat \ {None})
    BY DEF MayAttach
  <2>. QED  BY <1>0, <1>5, <2>1 DEF Record
<1>. HIDE DEF N
<1>7. \A m \in DOMAIN h : m # n => g[m] = h[m]
  BY <1>0, <1>2, <1>5
<1>8. \A i \in 1 .. k : g[New(i)] = rs[i]
  BY <1>2, <1>3, <1>5
<1>9. g \in [DOMAIN g -> Record]
  <2>1. \A m \in DOMAIN h : h[m] \in Record
    BY DEF IsHeap
  <2>2. \A i \in 1 .. k : rs[i] \in Record
    BY DEF MayAttach
  <2>3. \A m \in DOMAIN g : g[m] \in Record
    BY <1>2, <1>4, <1>5, <1>6, <1>7, <1>8, <2>1, <2>2
  <2>. QED  BY <1>5, <2>3
<1>10. PartsFit(g, n)
  <2>1. h[n].kind \notin Childless
    BY DEF MayAttach, Childless
  <2>2. ASSUME NEW p \in Q, p \in DOMAIN g
        PROVE  /\ HasPart(h[n].kind, g[p].kind)
               /\ Deletable(h[n].kind, g[p].kind) => g[p].of = n
               /\ Lent(h[n].kind, g[p].kind) => g[p].of = None
    <3>1. CASE p \in N
      <4>1. PICK i \in 1 .. k : p = New(i)
        BY <1>4, <3>1
      <4>2. g[p] = rs[i]
        BY <1>8, <4>1
      <4>3. /\ HasPart(h[n].kind, rs[i].kind)
            /\ Deletable(h[n].kind, rs[i].kind) => rs[i].of = n
            /\ Lent(h[n].kind, rs[i].kind) => rs[i].of = None
        BY DEF MayAttach
      <4>. QED  BY <4>2, <4>3
    <3>2. CASE p \notin N
      <4>1. p \in h[n].parts /\ p \in DOMAIN h
        BY <1>2, <1>5, <2>2, <3>2 DEF MayAttach, N
      <4>2. g[p].kind = h[p].kind /\ g[p].of = h[p].of
        BY <1>6, <1>7, <4>1
      <4>. QED  BY <4>1, <4>2 DEF IsHeap, PartsFit
    <3>. QED  BY <3>1, <3>2
  <2>. QED  BY <1>6, <2>1, <2>2 DEF PartsFit
<1>11. ASSUME NEW m \in N
       PROVE  /\ g[m].parts = {} /\ g[m].of \in {n, None}
              /\ g[m].kind \in {"formContext", "stream", "fileStream", "font"}
              /\ g[m].of = n => PointsBack(g[m].kind, h[n].kind)
              /\ g[m].kind = "font" => m \in g[n].parts /\ g[m].of = n
  <2>1. PICK i \in 1 .. k : m = New(i)
    BY <1>4
  <2>2. g[m] = rs[i]
    BY <1>8, <2>1
  <2>3. /\ rs[i].parts = {} /\ rs[i].of \in {n, None}
        /\ rs[i].kind \in {"formContext", "stream", "fileStream", "font"}
        /\ rs[i].of = n => PointsBack(rs[i].kind, h[n].kind)
        /\ rs[i].kind = "font" => rs[i].of = n /\ New(i) \in Q
    BY DEF MayAttach
  <2>. QED  BY <1>6, <2>1, <2>2, <2>3
<1>12. /\ h[n].kind \in {"modifier", "file", "pageContext", "writer", "form"}
       /\ h[n].kind = "pageContext" => Q \subseteq N
       /\ h[n].kind = "writer" => h[n].parts \subseteq Q
       /\ Q \subseteq h[n].parts \cup N
  BY DEF MayAttach, N
<1>13. Attaches(h, g, N, n, {})
  BY <1>2, <1>5, <1>6, <1>7, <1>9, <1>10, <1>11, <1>12 DEF Attaches
<1>14. Attached(h, g, rs, k, n, Q)
  BY <1>6, <1>8, <1>13 DEF Attached, N
<1>. QED  BY <1>14 DEF g

LEMMA OwnersAreHeld ==
    ASSUME NEW h, NEW ws, IsHeap(h), NEW n, Safe(h, ws, n)
    PROVE  /\ n \in DOMAIN h /\ n # None
           /\ \A w \in ws : w.owns /\ w.native = n => w.held
<1>1. n \in DOMAIN h /\ n # None
  BY DEF Safe, IsHeap, None
<1>2. n \in ReachIn(h, n)
  BY <1>1 DEF ReachIn
<1>3. \A w \in ws : w.owns /\ w.native = n => n \in DeletesIn(h, w)
  BY <1>1 DEF DeletesIn, OwnedIn
<1>. QED  BY <1>1, <1>2, <1>3 DEF Safe

AttachedSound(h, g, ws, n, s, reg) ==
    /\ Sound(g, ws, s, reg) /\ SafeStays(h, ws, g, ws)
    /\ \A e : IsEvent(h, ws, e) /\ n \notin Pending(e) => IsEvent(g, ws, e)
    /\ h[n].parts \subseteq g[n].parts \/ h[n].kind \in {"file", "writer"} => BusyStill(h, ws, g, ws)

LEMMA AttachingSound ==
    ASSUME NEW h, NEW g, NEW ws, NEW rs, NEW k, NEW n \in DOMAIN h, NEW Q, NEW s, NEW reg,
           Sound(h, ws, s, reg), IsFresh(h, ws, NewOnes(k)), Attached(h, g, rs, k, n, Q),
           Safe(h, ws, n), \A i \in 1 .. k : rs[i].kind = "font" => n = s.writer
    PROVE  AttachedSound(h, g, ws, n, s, reg)
<1>. DEFINE N == NewOnes(k)
            X == {}
<1>1. /\ Attaches(h, g, N, n, X) /\ IsFresh(h, ws, N)
      /\ \A m \in N : g[m].kind = "font" => n = s.writer
      /\ \A p \in X : Safe(h, ws, p) /\ h[p].kind = "copying"
  BY DEF Attached, NewOnes
<1>2. \A w \in ws : w.owns /\ w.native = n => w.held
  BY OwnersAreHeld DEF Sound
<1>. HIDE DEF N, X
<1>3. /\ Sound(g, ws, s, reg) /\ SafeStays(h, ws, g, ws)
      /\ \A e : IsEvent(h, ws, e) /\ n \notin Pending(e) => IsEvent(g, ws, e)
      /\ h[n].parts \subseteq g[n].parts \/ h[n].kind \in {"file", "writer"} => BusyStill(h, ws, g, ws)
  BY <1>1, <1>2, AttachesSound
<1>. QED  BY <1>3 DEF AttachedSound

\* New parts of an object that is safe.
Extended(g, rs, k, n, Q) ==
    /\ Sound(g, wrappers, session, registered) /\ SafeStays(heap, wrappers, g, wrappers)
    /\ IsEvent(g, wrappers, event)
    /\ heap[n].parts \subseteq Q \/ heap[n].kind = "writer" => BusyStill(heap, wrappers, g, wrappers)
    /\ \A i \in 1 .. k : g[New(i)] = rs[i] /\ New(i) \in DOMAIN g
    /\ g[n].parts = Q /\ n \in DOMAIN g /\ g[n].kind = heap[n].kind

LEMMA AttachingNew ==
    ASSUME DInv, NEW k \in 1 .. 3, Room(k), NEW n, Safe(heap, wrappers, n), heap[n].kind # "form",
           NEW rs, DOMAIN rs = 1 .. k, NEW Q, MayAttach(heap, n, rs, k, Q),
           \A i \in 1 .. k : rs[i].kind = "font" => n = session.writer
    PROVE  Extended(GivenParts(heap, rs, n, Q), rs, k, n, Q)
<1>. DEFINE g == GivenParts(heap, rs, n, Q)
<1>1. IsHeap(heap) /\ Sound(heap, wrappers, session, registered) /\ n \in DOMAIN heap
  BY OwnersAreHeld DEF DInv, Sound
<1>2. IsFresh(heap, wrappers, NewOnes(k))
  BY NewAreFresh DEF NewOnes
<1>3. Attached(heap, g, rs, k, n, Q)
  <2>1. DOMAIN heap \subseteq Live
    BY DEF Live
  <2>2. Alike(heap, heap, n)
    BY <1>1 DEF Alike, IsHeap
  <2>. QED  BY <1>1, <1>2, <2>1, <2>2, AttachedIs
<1>. HIDE DEF g
<1>4. /\ DOMAIN g = DOMAIN heap \cup NewOnes(k) /\ g[n].kind = heap[n].kind /\ g[n].parts = Q
      /\ \A i \in 1 .. k : g[New(i)] = rs[i]
  BY <1>3 DEF Attached, Attaches
<1>5. n \notin Pending(event)
  <2>1. n \in Pending(event) => heap[n].kind \in {"dictionary", "page", "form"}
    BY PendingKinds DEF DInv
  <2>2. heap[n].kind \in {"modifier", "file", "pageContext", "writer", "form"}
    BY DEF MayAttach
  <2>. QED  BY <2>1, <2>2
<1>6. AttachedSound(heap, g, wrappers, n, session, registered)
  BY <1>1, <1>2, <1>3, AttachingSound
<1>7. IsEvent(g, wrappers, event)
  BY <1>5, <1>6 DEF DInv, AttachedSound
<1>8. Extended(g, rs, k, n, Q)
  BY <1>1, <1>4, <1>6, <1>7 DEF NewOnes, AttachedSound, Extended
<1>. QED  BY <1>8 DEF g

\* The stream of a page's context, if it is to be started.
StartsStream(c) ==
    /\ heap[c].parts = {} => Room(1)
    /\ heap' = IF heap[c].parts # {} THEN heap
               ELSE [Created(heap, <<Native("stream", None, {})>>) EXCEPT ![c].parts = {New(1)}]

LEMMA StreamStarts ==
    ASSUME DInv, ~thrown, NEW c, Safe(heap, wrappers, c), heap[c].kind = "pageContext",
           StartsStream(c)
    PROVE  /\ Sound(heap', wrappers, session, registered) /\ IsEvent(heap', wrappers, event)
           /\ StreamOf(c) \in heap'[c].parts /\ heap'[StreamOf(c)].kind = "stream"
           /\ heap'[StreamOf(c)].of = None /\ StreamOf(c) \in DOMAIN heap'
           /\ Safe(heap', wrappers, c) /\ c \in DOMAIN heap' /\ heap'[c].kind = "pageContext"
<1>1. c \in DOMAIN heap /\ IsHeap(heap)
  BY DEF Safe, DInv
<1>2. CASE heap[c].parts # {}
  <2>1. heap' = heap
    BY <1>2 DEF StartsStream
  <2>2. StreamOf(c) \in heap[c].parts
    BY <1>2 DEF StreamOf
  <2>3. StreamOf(c) \in DOMAIN heap
    BY <1>1, <2>2 DEF IsHeap, ContextFits
  <2>4. heap[StreamOf(c)].kind = "stream" /\ heap[StreamOf(c)].of = None
    <3>1. PartsFit(heap, c)
      BY <1>1 DEF IsHeap
    <3>. QED  BY <2>2, <2>3, <3>1 DEF PartsFit, HasPart, Deletable, Lent
  <2>. QED  BY <1>1, <2>1, <2>2, <2>3, <2>4 DEF DInv, Sound
<1>3. CASE heap[c].parts = {}
  <2>. DEFINE r == Native("stream", None, {})
  <2>1. /\ StreamOf(c) = New(1) /\ Room(1)
        /\ heap' = [Created(heap, <<r>>) EXCEPT ![c].parts = {New(1)}]
    BY <1>3 DEF StreamOf, StartsStream
  <2>2. r \in Record /\ r.kind = "stream" /\ r.of = None /\ r.parts = {}
    BY DEF Native, Record, Kinds, None
  <2>3. New(1) \in Nat \ {None}
    BY <2>1, NewAddresses DEF Unused, None
  <2>. HIDE DEF r
  <2>. DEFINE rs == <<r>>
  <2>4. DOMAIN rs = 1 .. 1 /\ rs[1] = r
    OBVIOUS
  <2>. HIDE DEF rs
  <2>5. MayAttach(heap, c, rs, 1, {New(1)})
    <3>1. HasPart("pageContext", "stream") /\ ~Deletable("pageContext", "stream")
      BY DEF HasPart, Deletable, Lent
    <3>2. {New(1)} \subseteq NewOnes(1) /\ {New(1)} \in SUBSET (Nat \ {None})
      BY <2>3 DEF NewOnes
    <3>3. c # None
      BY <1>1 DEF IsHeap, None
    <3>4. \A i \in 1 .. 1 : rs[i] = r
      BY <2>4
    <3>. QED  BY <2>2, <3>1, <3>2, <3>3, <3>4 DEF MayAttach
  <2>6. \A i \in 1 .. 1 : rs[i].kind = "font" => c = session.writer
    BY <2>2, <2>4
  <2>7. heap' = GivenParts(heap, rs, c, {New(1)})
    BY <2>1 DEF rs, GivenParts
  <2>8. 1 \in 1 .. 3 /\ heap[c].kind # "form"
    OBVIOUS
  <2>9. /\ Sound(heap', wrappers, session, registered) /\ SafeStays(heap, wrappers, heap', wrappers)
        /\ IsEvent(heap', wrappers, event)
        /\ \A i \in 1 .. 1 : heap'[New(i)] = rs[i] /\ New(i) \in DOMAIN heap'
        /\ heap'[c].parts = {New(1)} /\ c \in DOMAIN heap' /\ heap'[c].kind = heap[c].kind
    <3>1. Room(1)
      BY <2>1
    <3>2. DOMAIN rs = 1 .. 1
      BY <2>4
    <3>3. Extended(GivenParts(heap, rs, c, {New(1)}), rs, 1, c, {New(1)})
      BY <2>5, <2>6, <2>8, <3>1, <3>2, AttachingNew, Zenon
    <3>. QED  BY <2>7, <3>3 DEF Extended
  <2>10. Safe(heap', wrappers, c)
    BY <1>1, <2>9 DEF SafeStays
  <2>11. /\ StreamOf(c) \in heap'[c].parts /\ heap'[StreamOf(c)].kind = "stream"
         /\ heap'[StreamOf(c)].of = None /\ StreamOf(c) \in DOMAIN heap'
    <3>1. heap'[New(1)] = r /\ New(1) \in DOMAIN heap'
      BY <2>4, <2>9
    <3>. QED  BY <2>1, <2>2, <2>9, <3>1
  <2>. QED  BY <2>9, <2>10, <2>11
<1>. QED  BY <1>2, <1>3

LEMMA DrawingOnPage ==
    ASSUME DInv, ~thrown, NEW x \in Of("PageContentContext"),
           DrawOnPage(x) \/ GetCurrentPageContentStream(x)
    PROVE  DInv'
<1>1. /\ WriterHeld(wrappers) /\ UNCHANGED <<registered, session, thrown, event>>
      /\ busy' = {x.native} /\ event = NoEvent
      /\ Touches(Reach(x.native) \cup Writer) /\ StartsStream(x.native)
      /\ \/ wrappers' = wrappers
         \/ wrappers' = wrappers \cup {BorrowedOf("PDFStream", StreamOf(x.native))}
  <2>1. IsFree
    BY DEF DrawOnPage, GetCurrentPageContentStream
  <2>2. WriterHeld(wrappers) /\ event = NoEvent
    BY <2>1, WhenRunning DEF IsFree
  <2>. QED  BY <2>2 DEF DrawOnPage, GetCurrentPageContentStream, StartAStreamIfRequired, StartsStream, BorrowedOf
<1>2. dangling' = FALSE
  <2>1. Reach(x.native) \cup Writer \subseteq Live
    BY <1>1, Used, WriterIsSafe
  <2>. QED  BY <1>1, <2>1, Untouched
<1>3. heap[x.native].kind = "pageContext" /\ Safe(heap, wrappers, x.native)
  <2>1. x.class = "PageContentContext" /\ (x.owns => OwnerFits(heap, x))
        /\ (~x.owns => BorrowerFits(heap, wrappers, x)) /\ Safe(heap, wrappers, x.native)
    BY Used
  <2>. QED  BY <2>1 DEF OwnerFits, OwnerOf, BorrowerFits, BorrowerOf
<1>. DEFINE s == StreamOf(x.native)
            y == BorrowedOf("PDFStream", s)
<1>4. /\ Sound(heap', wrappers, session, registered) /\ IsEvent(heap', wrappers, event)
      /\ s \in heap'[x.native].parts /\ heap'[s].kind = "stream"
      /\ heap'[s].of = None /\ s \in DOMAIN heap'
      /\ Safe(heap', wrappers, x.native) /\ x.native \in DOMAIN heap'
      /\ heap'[x.native].kind = "pageContext"
  BY <1>1, <1>3, StreamStarts
<1>5. Sound(heap', wrappers', session, registered) /\ WriterHeld(wrappers')
  <2>1. CASE wrappers' = wrappers
    BY <1>1, <1>4, <2>1
  <2>2. CASE wrappers' = wrappers \cup {y}
    <3>1. s \in Nat /\ IsHeap(heap') /\ IsWrapped(heap', wrappers)
      BY <1>4 DEF Sound, IsHeap
    <3>2. "PDFStream" \in Classes
      BY DEF Classes
    <3>3. /\ y \in Wrapper /\ y.class = "PDFStream" /\ y.native = s /\ ~y.owns
          /\ y.held /\ y.also = None
      BY <3>1, <3>2, BorrowedIs
    <3>4. Safe(heap', wrappers, s)
      <4>1. heap'[s].kind \in Childless
        BY <1>4 DEF Childless
      <4>. QED  BY <1>4, <3>1, <4>1, PartIsSafe
    <3>. HIDE DEF y
    <3>5. BorrowerFits(heap', wrappers, y)
      BY <1>4, <3>3 DEF BorrowerFits, BorrowerOf
    <3>6. IsWrapped(heap', wrappers \cup {y})
      <4>1. {y} \in SUBSET Wrapper
        BY <3>3
      <4>2. \A z \in {y} : /\ ~z.owns /\ BorrowerFits(heap', wrappers, z) /\ Safe(heap', wrappers, z.native)
                           /\ z.class # "DictionaryContext"
        BY <3>3, <3>4, <3>5
      <4>. QED  BY <3>1, <4>1, <4>2, AddsBorrowers
    <3>7. SameWriters(wrappers, wrappers \cup {y})
      BY <3>3 DEF SameWriters
    <3>8. IsSession(heap', wrappers \cup {y}, session, registered)
      <4>1. IsSession(heap', wrappers, session, registered)
        BY <1>4 DEF Sound
      <4>. QED  BY <3>7, <4>1 DEF IsSession, SameWriters
    <3>. QED  BY <1>1, <2>2, <3>1, <3>6, <3>8 DEF Sound, WriterHeld
  <2>. QED  BY <1>1, <2>1, <2>2
<1>6. IsEvent(heap', wrappers', NoEvent)
  BY NothingPending
<1>7. IsBusy(heap', wrappers', NoEvent, {x.native})
  BY <1>4, <1>5 DEF IsBusy
<1>. QED  BY <1>1, <1>2, <1>5, <1>6, <1>7 DEF DInv, Sound

\* A file that is open is closed, and its new stream is a part of it.
LEMMA OpeningFile ==
    ASSUME OwnersOnly, DInv, ~thrown, NEW w \in Of("InputFile") \cup Of("OutputFile"), OpenFile(w)
    PROVE  DInv'
<1>. DEFINE n == w.native
            S == StreamsOf(n)
            vs == wrappers \ About(S)
            h == WithoutStream(n)
            f == Freed(heap, S)
            r == Native("fileStream", n, {})
            rs == <<r>>
            Q == {New(1)}
            g == GivenParts(f, rs, n, Q)
<1>1. /\ w.owns /\ Room(1) /\ UNCHANGED <<registered, session, event, busy>>
      /\ Touches(Reach(n)) /\ thrown' \in BOOLEAN
      /\ heap' = g \/ heap' = h
      /\ wrappers' = (wrappers \ (About(S) \cup {w})) \cup {[w EXCEPT !.owns = TRUE]}
  <2>1. w.owns
    BY DEF OpenFile, OwnersOnly
  <2>2. PICK works \in Outcomes : Throws(~works) /\ heap' = IF works THEN g ELSE h
    BY <2>1 DEF OpenFile, GivenParts
  <2>3. thrown' \in BOOLEAN
    BY <2>2, ThrownIs
  <2>. HIDE DEF g, h
  <2>. QED  BY <2>1, <2>2, <2>3 DEF OpenFile
<1>2. /\ w \in wrappers /\ w.held /\ n \in DOMAIN heap /\ heap[n].kind = "file"
      /\ Reach(n) \subseteq Live /\ heap[n].parts \subseteq DOMAIN heap
      /\ S = heap[n].parts /\ \A p \in S : heap[p].kind = "fileStream"
  BY <1>1, FileIs DEF Live, StreamsOf
<1>3. /\ IsHeap(heap) /\ None \notin DOMAIN heap /\ heap[n] \in Record /\ w \in Wrapper
      /\ n \notin S /\ n \in Nat \ {None}
  BY <1>2 DEF DInv, IsHeap, IsWrapped, None
<1>4. dangling' = FALSE
  BY <1>1, <1>2, Untouched
<1>5. wrappers' = vs /\ w \in vs
  <2>1. [w EXCEPT !.owns = TRUE] = w
    BY <1>1, <1>3 DEF Wrapper
  <2>2. w \notin About(S)
    BY <1>1 DEF About
  <2>3. wrappers' = (wrappers \ (About(S) \cup {w})) \cup {w}
    BY <1>1, <2>1
  <2>4. w \in wrappers
    BY <1>2
  <2>. HIDE DEF S
  <2>. QED  BY <2>2, <2>3, <2>4
<1>6. /\ Sound(h, vs, session, registered) /\ IsEvent(h, vs, event)
      /\ BusyStill(heap, wrappers, h, vs)
  BY <1>2, StreamGoes
<1>7. /\ DOMAIN h = DOMAIN heap \ S
      /\ \A m \in DOMAIN heap \ S : m # n => h[m] = heap[m]
      /\ n \in DOMAIN heap \ S => h[n] = [heap[n] EXCEPT !.parts = {}]
  <2>. DEFINE k == [m \in DOMAIN heap |-> IF m = n THEN [heap[m] EXCEPT !.parts = {}] ELSE heap[m]]
  <2>1. \A m \in DOMAIN heap : m # n => k[m] = heap[m]
    OBVIOUS
  <2>2. DOMAIN k = DOMAIN heap /\ (n \in DOMAIN heap => k[n] = [heap[n] EXCEPT !.parts = {}])
    OBVIOUS
  <2>3. h = Freed(k, S)
    BY DEF WithoutStream, Live
  <2>. HIDE DEF k, S, h
  <2>4. DOMAIN Freed(k, S) = DOMAIN k \ S /\ \A m \in DOMAIN k \ S : Freed(k, S)[m] = k[m]
    BY FreedIs
  <2>. QED  BY <2>1, <2>2, <2>3, <2>4
<1>8. DOMAIN f = DOMAIN heap \ S /\ \A m \in DOMAIN heap \ S : f[m] = heap[m]
  <2>. HIDE DEF S
  <2>. QED  BY FreedIs
<1>9. r \in Record /\ r.kind = "fileStream" /\ r.of = n /\ r.parts = {}
  BY <1>3 DEF Native, Record, Kinds
<1>10. DOMAIN rs = 1 .. 1 /\ rs[1] = r
  OBVIOUS
<1>11. New(1) \in Nat \ {None} /\ IsFresh(heap, wrappers, NewOnes(1))
  <2>1. New(1) \in Nat \ {None}
    BY <1>1, NewAddresses DEF Unused, None
  <2>2. IsFresh(heap, wrappers, NewOnes(1))
    BY <1>1, NewAreFresh DEF NewOnes
  <2>. QED  BY <2>1, <2>2
<1>. HIDE DEF r, rs, h, f, S
<1>12. n \in DOMAIN h /\ h[n].kind = "file" /\ h[n].of = heap[n].of /\ h[n].parts = {}
  BY <1>2, <1>3, <1>7 DEF Record
<1>13. Alike(h, f, n)
  BY <1>2, <1>3, <1>7, <1>8, <1>12 DEF Alike
<1>14. IsFresh(h, vs, NewOnes(1))
  <2>1. \A m \in DOMAIN h : h[m].of \in {heap[m].of, None} /\ h[m].parts \subseteq heap[m].parts
    BY <1>7, <1>12
  <2>2. \A v \in vs : /\ v.native = None \/ \E u \in wrappers : v.native \in {u.native, u.also}
                      /\ v.also = None \/ \E u \in wrappers : v.also \in {u.native, u.also}
    OBVIOUS
  <2>3. DOMAIN h \subseteq DOMAIN heap
    BY <1>7
  <2>. HIDE DEF vs
  <2>. QED  BY <1>3, <1>11, <2>1, <2>2, <2>3, FreshStays
<1>15. MayAttach(h, n, rs, 1, Q)
  <2>1. HasPart("file", "fileStream") /\ ~Lent("file", "fileStream")
    BY DEF HasPart, Deletable, Lent
  <2>2. Q \subseteq NewOnes(1) /\ Q \in SUBSET (Nat \ {None})
    BY <1>11 DEF NewOnes
  <2>3. PointsBack("fileStream", "file")
    BY DEF PointsBack
  <2>4. \A i \in 1 .. 1 : rs[i] = r
    BY <1>10
  <2>. QED  BY <1>9, <1>12, <2>1, <2>2, <2>3, <2>4 DEF MayAttach
<1>16. Attached(h, g, rs, 1, n, Q)
  <2>1. IsHeap(h) /\ DOMAIN h \subseteq Live /\ 1 \in 1 .. 3
    BY <1>6, <1>7 DEF Sound, Live
  <2>2. DOMAIN rs = 1 .. 1
    BY <1>10
  <2>. HIDE DEF Q, vs
  <2>3. Attached(h, GivenParts(f, rs, n, Q), rs, 1, n, Q)
    BY <1>1, <1>12, <1>13, <1>14, <1>15, <2>1, <2>2, AttachedIs
  <2>. QED  BY <2>3
<1>17. AttachedSound(h, g, vs, n, session, registered)
  <2>1. Safe(h, vs, n)
    BY <1>2, <1>5, <1>6 DEF Sound, IsWrapped
  <2>2. \A i \in 1 .. 1 : rs[i].kind = "font" => n = session.writer
    BY <1>9, <1>10
  <2>. HIDE DEF g, vs, Q
  <2>. QED  BY <1>6, <1>12, <1>14, <1>16, <2>1, <2>2, AttachingSound
<1>18. n \notin Pending(event)
  BY <1>2, <1>1, OwnersAreNotPending
<1>. HIDE DEF g, vs
<1>19. /\ Sound(g, vs, session, registered) /\ IsEvent(g, vs, event)
       /\ BusyStill(h, vs, g, vs)
  BY <1>6, <1>12, <1>17, <1>18 DEF AttachedSound
<1>20. IsBusy(heap, wrappers, event, busy) => IsBusy(g, vs, event, busy) /\ IsBusy(h, vs, event, busy)
  BY <1>6, <1>19 DEF BusyStill
<1>21. CASE heap' = g
  BY <1>1, <1>4, <1>5, <1>19, <1>20, <1>21 DEF DInv, Sound
<1>22. CASE heap' = h
  BY <1>1, <1>4, <1>5, <1>6, <1>20, <1>22 DEF DInv, Sound
<1>. QED  BY <1>1, <1>21, <1>22

\* A modifier's form, if it has none.
LEMMA StartingContext ==
    ASSUME DInv, ~thrown, NEW w \in Of("PDFPageModifier"), StartContext(w)
    PROVE  DInv'
<1>. DEFINE n == w.native
            a == Native("formContext", n, {})
            b == Native("stream", n, {})
            rs == <<a, b>>
            Q == {New(1), New(2)}
            g == GivenParts(heap, rs, n, Q)
<1>1. /\ WriterHeld(wrappers) /\ UNCHANGED <<wrappers, registered, session, event>>
      /\ thrown' \in BOOLEAN /\ event = NoEvent /\ Touches(Reach(n) \cup Writer)
  <2>1. IsFree
    BY DEF StartContext
  <2>2. thrown' \in BOOLEAN
    BY DEF StartContext, Throws
  <2>. QED  BY <2>1, <2>2, WhenRunning DEF IsFree, StartContext
<1>2. /\ w \in wrappers /\ w.held /\ w.owns /\ n \in DOMAIN heap /\ heap[n].kind = "modifier"
      /\ Safe(heap, wrappers, n) /\ Reach(n) \subseteq Live
  <2>1. /\ w \in wrappers /\ w.held /\ w.class = "PDFPageModifier" /\ Safe(heap, wrappers, n)
        /\ n \in Live /\ Reach(n) \subseteq Live
        /\ w.owns => OwnerFits(heap, w)
        /\ ~w.owns => BorrowerFits(heap, wrappers, w)
    BY Used
  <2>. QED  BY <2>1 DEF OwnerFits, OwnerOf, BorrowerFits, BorrowerOf, Live
<1>3. dangling' = FALSE
  <2>1. Reach(n) \cup Writer \subseteq Live
    BY <1>1, <1>2, WriterIsSafe
  <2>. QED  BY <1>1, <2>1, Untouched
<1>4. CASE UNCHANGED <<heap, busy>>
  BY <1>1, <1>3, <1>4 DEF DInv
<1>5. CASE Room(2) /\ heap' = g /\ busy' = {n}
  <2>1. Room(2) /\ heap' = g /\ busy' = {n}
    BY <1>5
  <2>2. New(1) \in Nat \ {None} /\ New(2) \in Nat \ {None} /\ n \in Nat \ {None}
    <3>1. 1 \in 1 .. 2 /\ 2 \in 1 .. 2 /\ 2 \in 1 .. 3
      OBVIOUS
    <3>2. \A i \in 1 .. 2 : New(i) \in Unused
      BY <2>1, <3>1, NewAddresses
    <3>. QED  BY <1>2, <3>1, <3>2 DEF Unused, None, DInv, IsHeap
  <2>3. /\ a \in Record /\ a.kind = "formContext" /\ a.of = n /\ a.parts = {}
        /\ b \in Record /\ b.kind = "stream" /\ b.of = n /\ b.parts = {}
    BY <2>2 DEF Native, Record, Kinds
  <2>4. DOMAIN rs = 1 .. 2 /\ rs[1] = a /\ rs[2] = b /\ \A i \in 1 .. 2 : rs[i] \in {a, b}
    <3>1. rs \in Seq({a, b}) /\ Len(rs) = 2
      OBVIOUS
    <3>. QED  BY <3>1
  <2>. HIDE DEF a, b, rs
  <2>5. MayAttach(heap, n, rs, 2, Q)
    <3>1. /\ HasPart("modifier", "stream") /\ HasPart("modifier", "formContext")
          /\ ~Lent("modifier", "stream") /\ ~Lent("modifier", "formContext")
          /\ PointsBack("stream", "modifier") /\ PointsBack("formContext", "modifier")
      BY DEF HasPart, Deletable, Lent, PointsBack
    <3>2. Q \subseteq NewOnes(2) /\ Q \in SUBSET (Nat \ {None})
      BY <2>2 DEF NewOnes
    <3>3. ASSUME NEW i \in 1 .. 2
          PROVE  /\ rs[i] \in Record /\ rs[i].parts = {} /\ rs[i].of = n
                 /\ rs[i].kind \in {"formContext", "stream"}
      BY <2>3, <2>4
    <3>. QED  BY <1>2, <3>1, <3>2, <3>3 DEF MayAttach
  <2>6. \A i \in 1 .. 2 : rs[i].kind = "font" => n = session.writer
    BY <2>3, <2>4
  <2>7. Extended(g, rs, 2, n, Q)
    <3>1. 2 \in 1 .. 3 /\ heap[n].kind # "form" /\ DOMAIN rs = 1 .. 2 /\ Room(2)
      BY <1>2, <2>1, <2>4
    <3>. HIDE DEF Q
    <3>2. Extended(GivenParts(heap, rs, n, Q), rs, 2, n, Q)
      BY <1>2, <2>5, <2>6, <3>1, AttachingNew, Zenon
    <3>. QED  BY <3>2
  <2>. HIDE DEF g
  <2>8. /\ Sound(g, wrappers, session, registered)
        /\ g[New(1)] = a /\ New(1) \in DOMAIN g /\ g[New(2)] = b /\ New(2) \in DOMAIN g
        /\ g[n].parts = Q /\ n \in DOMAIN g /\ g[n].kind = "modifier"
    <3>1. 1 \in 1 .. 2 /\ 2 \in 1 .. 2
      OBVIOUS
    <3>. QED  BY <1>2, <2>4, <2>7, <3>1 DEF Extended
  <2>9. HasForm(g, wrappers, n)
    BY <1>2, <2>3, <2>8 DEF HasForm
  <2>10. IsEvent(g, wrappers, NoEvent) /\ IsBusy(g, wrappers, NoEvent, {n})
    <3>1. IsEvent(g, wrappers, NoEvent)
      BY NothingPending
    <3>. QED  BY <1>1, <2>8, <2>9, <3>1 DEF IsBusy
  <2>. QED  BY <1>1, <1>3, <2>1, <2>8, <2>10 DEF DInv, Sound
<1>6. UNCHANGED <<heap, busy>> \/ (Room(2) /\ heap' = g /\ busy' = {n})
  BY DEF StartContext, GivenParts
<1>. QED  BY <1>4, <1>5, <1>6

\* What is lent to the program.
LEMMA LentSound ==
    ASSUME NEW h, NEW ws, NEW s, NEW reg, Sound(h, ws, s, reg),
           NEW class \in Classes \ {"PDFWriter", "DictionaryContext", "XObjectContentContext"},
           NEW n, Safe(h, ws, n), BorrowerOf(class, h[n].kind)
    PROVE  /\ Sound(h, ws \cup {BorrowedOf(class, n)}, s, reg)
           /\ BusyStill(h, ws, h, ws \cup {BorrowedOf(class, n)})
<1>. DEFINE y == BorrowedOf(class, n)
<1>1. n \in Nat /\ n \in DOMAIN h /\ IsHeap(h) /\ IsWrapped(h, ws) /\ IsSession(h, ws, s, reg)
  BY DEF Safe, Sound, IsHeap
<1>2. /\ y \in Wrapper /\ y.class = class /\ y.native = n /\ ~y.owns
      /\ y.held /\ y.also = None
  BY <1>1, BorrowedIs
<1>. HIDE DEF y
<1>3. BorrowerFits(h, ws, y)
  BY <1>1, <1>2 DEF BorrowerFits
<1>4. IsWrapped(h, ws \cup {y})
  <2>1. {y} \in SUBSET Wrapper
    BY <1>2
  <2>2. \A z \in {y} : /\ ~z.owns /\ BorrowerFits(h, ws, z) /\ Safe(h, ws, z.native)
                       /\ z.class # "DictionaryContext"
    BY <1>2, <1>3
  <2>. QED  BY <1>1, <2>1, <2>2, AddsBorrowers
<1>5. SameWriters(ws, ws \cup {y})
  BY <1>2 DEF SameWriters
<1>6. IsSession(h, ws \cup {y}, s, reg)
  BY <1>1, <1>5 DEF IsSession, SameWriters
<1>7. BusyStill(h, ws, h, ws \cup {y})
  <2>. SUFFICES ASSUME NEW e, NEW b, IsBusy(h, ws, e, b)
                PROVE  IsBusy(h, ws \cup {y}, e, b)
    BY DEF BusyStill
  <2>. QED  BY BusyStays
<1>8. Sound(h, ws \cup {y}, s, reg)
  BY <1>1, <1>4, <1>6 DEF Sound
<1>. QED  BY <1>7, <1>8 DEF y

\* A font of the document, which is a part of the writer.
LEMMA GettingFont ==
    ASSUME DInv, ~thrown, GetFontForFile
    PROVE  DInv'
<1>. DEFINE n == session.writer
            r == Native("font", n, {})
            rs == <<r>>
            Q == heap[n].parts \cup {New(1)}
            g == GivenParts(heap, rs, n, Q)
<1>1. /\ WriterHeld(wrappers) /\ UNCHANGED <<registered, session, busy, event>> /\ event = NoEvent
      /\ Touches(Writer)
  <2>1. IsFree
    BY DEF GetFontForFile
  <2>. QED  BY <2>1, WhenRunning DEF IsFree, GetFontForFile
<1>2. /\ Safe(heap, wrappers, n) /\ n \in DOMAIN heap /\ heap[n].kind = "writer"
      /\ n \in Nat \ {None} /\ heap[n] \in Record /\ IsHeap(heap)
      /\ heap[n].parts \in SUBSET (Nat \ {None})
  <2>1. Safe(heap, wrappers, n) /\ n \in DOMAIN heap /\ heap[n].kind = "writer" /\ n # None
    BY <1>1, WriterIsSafe DEF Live
  <2>2. n \in Nat /\ heap[n] \in Record /\ IsHeap(heap)
    BY <2>1 DEF DInv, IsHeap
  <2>. QED  BY <2>1, <2>2 DEF Record
<1>3. dangling' = FALSE
  BY <1>1, WriterIsSafe, Untouched
<1>4. "UsedFont" \in Classes \ {"PDFWriter", "DictionaryContext", "XObjectContentContext"}
      /\ BorrowerOf("UsedFont", "font")
  BY DEF Classes, BorrowerOf
<1>5. PICK works \in Outcomes : /\ Throws(~works)
                                /\ ~works => UNCHANGED <<heap, wrappers>>
  BY DEF GetFontForFile
<1>6. CASE UNCHANGED <<heap, wrappers>>
  <2>1. thrown' \in BOOLEAN
    BY <1>5, ThrownIs
  <2>. QED  BY <1>1, <1>3, <1>6, <2>1 DEF DInv
<1>7. ASSUME thrown' = thrown, Fonts # {}, NEW f \in Fonts,
             heap' = [heap EXCEPT ![n].parts = @ \cup {f}],
             wrappers' = wrappers \cup {BorrowedOf("UsedFont", f)}
      PROVE  DInv'
  <2>1. f \in heap[n].parts /\ f \in DOMAIN heap /\ heap[f].kind = "font" /\ heap[f].of = n
    BY FontsAre
  <2>2. heap' = heap
    <3>1. heap[n].parts \cup {f} = heap[n].parts
      BY <2>1
    <3>2. [heap[n] EXCEPT !.parts = @ \cup {f}] = heap[n]
      BY <1>2, <3>1 DEF Record
    <3>3. heap \in [DOMAIN heap -> Record]
      BY <1>2 DEF IsHeap
    <3>4. heap' = [heap EXCEPT ![n] = [heap[n] EXCEPT !.parts = @ \cup {f}]]
      BY <1>7
    <3>. QED  BY <1>2, <3>2, <3>3, <3>4
  <2>3. Safe(heap, wrappers, f)
    <3>1. f \in DOMAIN heap => heap[f].kind \in Childless /\ heap[f].of \in {n, None}
      BY <2>1 DEF Childless
    <3>. QED  BY <1>2, <2>1, <3>1, PartIsSafe
  <2>4. heap[f].kind = "font" /\ UNCHANGED <<heap, registered, session, thrown, busy, event>>
    BY <1>1, <1>7, <2>1, <2>2
  <2>. QED  BY <1>1, <1>3, <1>4, <1>7, <2>3, <2>4, LendsOne
<1>8. ASSUME thrown' = thrown, Room(1),
             heap' = [Created(heap, rs) EXCEPT ![n].parts = @ \cup {New(1)}],
             wrappers' = wrappers \cup {BorrowedOf("UsedFont", New(1))}
      PROVE  DInv'
  <2>1. New(1) \in Nat \ {None}
    BY <1>8, NewAddresses DEF Unused, None
  <2>2. r \in Record /\ r.kind = "font" /\ r.of = n /\ r.parts = {}
    BY <1>2 DEF Native, Record, Kinds
  <2>3. DOMAIN rs = 1 .. 1 /\ rs[1] = r
    OBVIOUS
  <2>. HIDE DEF r, rs
  <2>4. heap' = g
    <3>1. Created(heap, rs)[n] = heap[n]
      <4>1. DOMAIN heap \subseteq Live /\ 1 \in 1 .. 3
        BY DEF Live
      <4>2. IsMade(heap, Created(heap, rs), rs, 1)
        BY <1>8, <2>3, <4>1, CreatedIs
      <4>. QED  BY <1>2, <4>2 DEF IsMade
    <3>. QED  BY <1>8, <3>1 DEF GivenParts
  <2>5. MayAttach(heap, n, rs, 1, Q)
    <3>1. /\ HasPart("writer", "font") /\ ~Lent("writer", "font") /\ PointsBack("font", "writer")
      BY DEF HasPart, Deletable, Lent, PointsBack
    <3>2. /\ Q \subseteq heap[n].parts \cup NewOnes(1) /\ Q \in SUBSET (Nat \ {None})
          /\ heap[n].parts \subseteq Q /\ New(1) \in Q
      BY <1>2, <2>1 DEF NewOnes
    <3>3. \A i \in 1 .. 1 : rs[i] = r /\ New(i) = New(1)
      BY <2>3
    <3>. HIDE DEF Q
    <3>. QED  BY <1>2, <2>2, <3>1, <3>2, <3>3 DEF MayAttach
  <2>6. Extended(g, rs, 1, n, Q)
    <3>1. 1 \in 1 .. 3 /\ heap[n].kind # "form" /\ DOMAIN rs = 1 .. 1 /\ Room(1)
      BY <1>2, <1>8, <2>3
    <3>2. \A i \in 1 .. 1 : rs[i].kind = "font" => n = session.writer
      OBVIOUS
    <3>. HIDE DEF Q, n
    <3>3. Extended(GivenParts(heap, rs, n, Q), rs, 1, n, Q)
      BY <1>2, <2>5, <3>1, <3>2, AttachingNew, Zenon
    <3>. QED  BY <3>3
  <2>. HIDE DEF g
  <2>7. /\ Sound(g, wrappers, session, registered) /\ BusyStill(heap, wrappers, g, wrappers)
        /\ Safe(g, wrappers, n) /\ New(1) \in g[n].parts /\ g[New(1)] = r
    <3>1. 1 \in 1 .. 1
      OBVIOUS
    <3>2. Safe(g, wrappers, n)
      BY <1>2, <2>6 DEF Extended, SafeStays
    <3>. QED  BY <1>2, <2>3, <2>6, <3>1, <3>2 DEF Extended
  <2>8. Safe(g, wrappers, New(1))
    <3>1. g[New(1)].kind \in Childless /\ g[New(1)].of \in {n, None}
      BY <2>2, <2>7 DEF Childless
    <3>. HIDE DEF n
    <3>. QED  BY <2>7, <3>1, PartIsSafe DEF Sound
  <2>9. /\ Sound(g, wrappers', session, registered)
        /\ BusyStill(g, wrappers, g, wrappers')
    <3>1. BorrowerOf("UsedFont", g[New(1)].kind)
      BY <1>4, <2>2, <2>7
    <3>. QED  BY <1>4, <1>8, <2>7, <2>8, <3>1, LentSound
  <2>10. IsEvent(g, wrappers', NoEvent)
    BY NothingPending
  <2>11. IsBusy(g, wrappers', event, busy)
    BY <2>7, <2>9 DEF DInv, BusyStill
  <2>. QED  BY <1>1, <1>3, <1>8, <2>4, <2>9, <2>10, <2>11 DEF DInv, Sound
<1>9. CASE ~UNCHANGED <<heap, wrappers>>
  <2>1. PICK d \in Outcomes :
           /\ Throws(~d) /\ d
           /\ LET f == IF Fonts = {} THEN New(1) ELSE CHOOSE f \in Fonts : TRUE
                  h == IF Fonts = {} THEN Created(heap, rs) ELSE heap
              IN  /\ Fonts # {} \/ Room(1)
                  /\ heap' = [h EXCEPT ![n].parts = @ \cup {f}]
                  /\ wrappers' = wrappers \cup {BorrowedOf("UsedFont", f)}
    BY <1>9 DEF GetFontForFile, BorrowedOf
  <2>2. thrown' = thrown
    BY <2>1 DEF Throws, DInv
  <2>3. CASE Fonts = {}
    BY <1>8, <2>1, <2>2, <2>3
  <2>4. CASE Fonts # {}
    <3>1. PICK f \in Fonts : f = CHOOSE x \in Fonts : TRUE
      BY <2>4
    <3>2. heap' = [heap EXCEPT ![n].parts = @ \cup {f}]
          /\ wrappers' = wrappers \cup {BorrowedOf("UsedFont", f)}
      BY <2>1, <2>4, <3>1
    <3>. QED  BY <1>7, <2>2, <2>4, <3>2
  <2>. QED  BY <2>3, <2>4
<1>. QED  BY <1>6, <1>9

LEMMA AttachingOld ==
    ASSUME NEW h, NEW g, NEW ws, NEW n \in DOMAIN h, NEW X, NEW s, NEW reg,
           Sound(h, ws, s, reg), Attaches(h, g, {}, n, X),
           \A p \in X : Safe(h, ws, p) /\ h[p].kind = "copying", Safe(h, ws, n)
    PROVE  AttachedSound(h, g, ws, n, s, reg)
<1>. DEFINE N == {}
<1>1. /\ Attaches(h, g, N, n, X) /\ IsFresh(h, ws, N)
      /\ \A m \in N : g[m].kind = "font" => n = s.writer
  BY DEF IsFresh
<1>2. \A w \in ws : w.owns /\ w.native = n => w.held
  BY OwnersAreHeld DEF Sound
<1>. HIDE DEF N
<1>3. /\ Sound(g, ws, s, reg) /\ SafeStays(h, ws, g, ws)
      /\ \A e : IsEvent(h, ws, e) /\ n \notin Pending(e) => IsEvent(g, ws, e)
      /\ h[n].parts \subseteq g[n].parts \/ h[n].kind \in {"file", "writer"} => BusyStill(h, ws, g, ws)
  BY <1>1, <1>2, AttachesSound
<1>. QED  BY <1>3 DEF AttachedSound

\* A form that is drawn on refers to the context that a page is merged from.
LEMMA MergingToForm ==
    ASSUME DInv, ~thrown, NEW x \in Of("DocumentCopyingContext"), NEW f \in Of("FormXObject"),
           MergePDFPageToFormXObject(x, f)
    PROVE  DInv'
<1>. DEFINE n == f.native
            X == {x.native}
            g == [heap EXCEPT ![n].parts = @ \cup X]
<1>1. /\ WriterHeld(wrappers) /\ UNCHANGED <<wrappers, registered, session, busy, event>>
      /\ event = NoEvent /\ heap' = g /\ thrown' \in BOOLEAN
      /\ Touches(Reach(x.native) \cup Reach(f.native) \cup Writer)
  <2>1. PICK works \in Outcomes : Throws(~works)
    BY DEF MergePDFPageToFormXObject
  <2>. QED  BY <2>1, ThrownIs, WhenRunning DEF MergePDFPageToFormXObject, IsFree
<1>2. dangling' = FALSE
  <2>1. Reach(x.native) \cup Reach(f.native) \cup Writer \subseteq Live
    BY <1>1, Used, WriterIsSafe
  <2>. QED  BY <1>1, <2>1, Untouched
<1>3. /\ n \in DOMAIN heap /\ heap[n].kind = "form" /\ Safe(heap, wrappers, n)
  <2>1. /\ f.class = "FormXObject" /\ (f.owns => OwnerFits(heap, f))
        /\ (~f.owns => BorrowerFits(heap, wrappers, f)) /\ Safe(heap, wrappers, n)
    BY Used
  <2>. QED  BY <2>1 DEF OwnerFits, OwnerOf, BorrowerFits, BorrowerOf, Safe
<1>4. /\ x.native \in DOMAIN heap /\ heap[x.native].kind = "copying"
      /\ Safe(heap, wrappers, x.native)
  <2>1. /\ x.class = "DocumentCopyingContext" /\ (x.owns => OwnerFits(heap, x))
        /\ (~x.owns => BorrowerFits(heap, wrappers, x)) /\ Safe(heap, wrappers, x.native)
    BY Used
  <2>. QED  BY <2>1 DEF OwnerFits, OwnerOf, BorrowerFits, BorrowerOf, Safe
<1>5. /\ IsHeap(heap) /\ heap \in [DOMAIN heap -> Record] /\ heap[n] \in Record
      /\ x.native \in Nat \ {None} /\ Sound(heap, wrappers, session, registered)
  BY <1>3, <1>4 DEF DInv, IsHeap, None, Sound
<1>6. /\ DOMAIN g = DOMAIN heap /\ g \in [DOMAIN g -> Record]
      /\ \A m \in DOMAIN heap : m # n => g[m] = heap[m]
      /\ g[n].kind = heap[n].kind /\ g[n].of = heap[n].of /\ g[n].parts = heap[n].parts \cup X
  <2>1. [heap[n] EXCEPT !.parts = @ \cup X] \in Record
    BY <1>5 DEF Record
  <2>2. g = [heap EXCEPT ![n] = [heap[n] EXCEPT !.parts = @ \cup X]]
    OBVIOUS
  <2>3. /\ [heap[n] EXCEPT !.parts = @ \cup X].kind = heap[n].kind
        /\ [heap[n] EXCEPT !.parts = @ \cup X].of = heap[n].of
        /\ [heap[n] EXCEPT !.parts = @ \cup X].parts = heap[n].parts \cup X
    BY <1>5 DEF Record
  <2>. DEFINE r == [heap[n] EXCEPT !.parts = @ \cup X]
  <2>4. g = [heap EXCEPT ![n] = r] /\ r \in Record
    BY <2>1, <2>2
  <2>. HIDE DEF g, r
  <2>5. g[n] = r /\ DOMAIN g = DOMAIN heap /\ g \in [DOMAIN g -> Record]
        /\ \A m \in DOMAIN heap : m # n => g[m] = heap[m]
    BY <1>3, <1>5, <2>4
  <2>. QED  BY <2>3, <2>5 DEF r
<1>. HIDE DEF g
<1>7. PartsFit(g, n)
  <2>1. "form" \notin Childless
    BY DEF Childless
  <2>2. /\ HasPart("form", "copying") /\ ~Deletable("form", "copying") /\ ~Lent("form", "copying")
    BY DEF HasPart, Deletable, Lent
  <2>3. ASSUME NEW p \in g[n].parts, p \in DOMAIN g
        PROVE  /\ HasPart(g[n].kind, g[p].kind)
               /\ Deletable(g[n].kind, g[p].kind) => g[p].of = n
               /\ Lent(g[n].kind, g[p].kind) => g[p].of = None
    <3>1. g[p].kind = heap[p].kind /\ g[p].of = heap[p].of /\ p \in DOMAIN heap
      BY <1>6, <2>3
    <3>2. CASE p \in heap[n].parts
      BY <1>3, <1>5, <1>6, <3>1, <3>2 DEF IsHeap, PartsFit
    <3>3. CASE p \in X
      BY <1>3, <1>4, <1>6, <2>2, <3>1, <3>3
    <3>. QED  BY <1>6, <3>2, <3>3
  <2>. QED  BY <1>3, <1>6, <2>1, <2>3 DEF PartsFit
<1>8. Attaches(heap, g, {}, n, X)
  BY <1>3, <1>6, <1>7 DEF Attaches
<1>10. Sound(g, wrappers, session, registered) /\ BusyStill(heap, wrappers, g, wrappers)
  <2>1. \A p \in X : Safe(heap, wrappers, p) /\ heap[p].kind = "copying"
    BY <1>4
  <2>4. heap[n].parts \subseteq g[n].parts
    BY <1>6
  <2>. HIDE DEF X, n
  <2>5. AttachedSound(heap, g, wrappers, n, session, registered)
    BY <1>3, <1>5, <1>8, <2>1, AttachingOld
  <2>. QED  BY <2>4, <2>5 DEF AttachedSound
<1>11. IsEvent(g, wrappers, NoEvent)
  BY NothingPending
<1>12. IsBusy(g, wrappers, event, busy)
  BY <1>10 DEF DInv, BusyStill
<1>. QED  BY <1>1, <1>2, <1>10, <1>11, <1>12 DEF DInv, Sound

\* A page's context is safe while the page is.
LEMMA ContextIsSafe ==
    ASSUME NEW h, NEW ws, IsHeap(h), IsWrapped(h, ws), NEW n, Safe(h, ws, n), h[n].kind = "page",
           h[n].of # None
    PROVE  Safe(h, ws, h[n].of) /\ h[h[n].of].kind = "pageContext"
<1>. DEFINE c == h[n].of
<1>1. n \in DOMAIN h /\ n # None /\ c \in ReachIn(h, n)
  BY DEF Safe, ReachIn, IsHeap, None
<1>2. c \in DOMAIN h
  BY <1>1 DEF Safe
<1>3. h[c].kind = "pageContext" /\ h[c].of = n
  BY <1>1, <1>2 DEF IsHeap, OfFits, PointsBack
<1>4. h[c].parts \subseteq DOMAIN h
  BY <1>2, <1>3 DEF IsHeap, ContextFits
<1>5. \A p \in h[c].parts : h[p].kind = "stream" /\ h[p].parts = {}
  <2>1. \A p \in h[c].parts : h[p].kind = "stream"
    BY <1>2, <1>3, <1>4 DEF IsHeap, PartsFit, HasPart, Deletable, Lent
  <2>. QED  BY <1>4, <2>1 DEF IsHeap, PartsFit, Childless
<1>6. ASSUME NEW p \in ReachIn(h, c)
      PROVE  p \in {c, n} \cup h[c].parts
  <2>1. \/ p = c
        \/ p = h[c].of
        \/ p \in h[c].parts
        \/ \E q \in h[c].parts \cap DOMAIN h : p \in h[q].parts
    BY <1>2, ReachOf
  <2>. QED  BY <1>3, <1>5, <2>1
<1>7. ASSUME NEW w \in ws, ~w.held
      PROVE  /\ n \notin DeletesIn(h, w) /\ c \notin DeletesIn(h, w)
             /\ h[c].parts \cap DeletesIn(h, w) = {}
  <2>1. n \in ReachIn(h, n)
    BY <1>1 DEF ReachIn
  <2>2. h[c].parts \cap DeletesIn(h, w) = {}
    BY <1>2, <1>3, PageStreamsStay
  <2>. QED  BY <1>1, <1>7, <2>1, <2>2 DEF Safe
<1>8. ReachIn(h, c) \subseteq DOMAIN h
  BY <1>1, <1>2, <1>4, <1>6
<1>9. \A w \in ws : ~w.held => ReachIn(h, c) \cap DeletesIn(h, w) = {}
  BY <1>6, <1>7
<1>. QED  BY <1>2, <1>3, <1>8, <1>9 DEF Safe

\* What a page of the program gets its context with.
StartsContext(w, a) ==
    /\ heap' = [Created(heap, <<Native("pageContext", w.native, {})>>) EXCEPT ![w.native].of = a]
    /\ wrappers' = ((wrappers \ {w}) \cup {[w EXCEPT !.also = a]})
                        \cup {BorrowedOf("PageContentContext", a)}

\* A page and its new context.
NewContext(g, w, a) ==
    /\ DOMAIN g = DOMAIN heap \cup {a} /\ g \in [DOMAIN g -> Record]
    /\ \A m \in DOMAIN heap : m # w.native => g[m] = heap[m]
    /\ g[w.native] = [heap[w.native] EXCEPT !.of = a]
    /\ g[a] = Native("pageContext", w.native, {})
    /\ IsFresh(heap, wrappers, {a}) /\ a \in Nat \ {None}

LEMMA NewContextIs ==
    ASSUME DInv, NEW w, w.native \in DOMAIN heap, Room(1), StartsContext(w, New(1))
    PROVE  NewContext(heap', w, New(1))
<1>. DEFINE n == w.native
            a == New(1)
            r == Native("pageContext", n, {})
            rs == <<r>>
            k == Created(heap, rs)
            g == [k EXCEPT ![n].of = a]
<1>1. n \in Nat \ {None} /\ a \in Nat \ {None} /\ heap[n] \in Record /\ heap \in [DOMAIN heap -> Record]
  <2>1. a \in Nat \ {None}
    BY NewAddresses DEF Unused, None
  <2>. QED  BY <2>1 DEF DInv, IsHeap, None
<1>2. IsFresh(heap, wrappers, {a}) /\ NewOnes(1) = {a}
  <2>1. NewOnes(1) = {a}
    BY DEF NewOnes
  <2>2. IsFresh(heap, wrappers, {New(i) : i \in 1 .. 1})
    BY NewAreFresh
  <2>. QED  BY <2>1, <2>2 DEF NewOnes
<1>3. r \in Record
  BY <1>1 DEF Native, Record, Kinds
<1>4. heap' = g
  BY DEF StartsContext
<1>5. DOMAIN rs = 1 .. 1 /\ rs[1] = r
  OBVIOUS
<1>. HIDE DEF r, rs, a
<1>6. IsMade(heap, k, rs, 1)
  <2>1. DOMAIN heap \subseteq Live /\ 1 \in 1 .. 3
    BY DEF Live
  <2>. QED  BY <1>5, <2>1, CreatedIs
<1>7. /\ DOMAIN k = DOMAIN heap \cup {a} /\ k = [m \in DOMAIN k |-> k[m]]
      /\ \A m \in DOMAIN heap : k[m] = heap[m]
      /\ k[a] = r
  <2>1. 1 \in 1 .. 1
    OBVIOUS
  <2>. QED  BY <1>2, <1>5, <1>6, <2>1 DEF IsMade, a
<1>8. a \notin DOMAIN heap
  BY <1>2 DEF IsFresh
<1>9. [heap[n] EXCEPT !.of = a] \in Record
  BY <1>1 DEF Record
<1>10. g = [k EXCEPT ![n] = [heap[n] EXCEPT !.of = a]]
  <2>1. k[n] = heap[n]
    BY <1>7
  <2>. QED  BY <2>1
<1>. DEFINE q == [heap[n] EXCEPT !.of = a]
<1>11. q \in Record /\ g = [k EXCEPT ![n] = q]
  BY <1>9, <1>10
<1>. HIDE DEF k, g, q
<1>12. /\ DOMAIN g = DOMAIN heap \cup {a}
       /\ \A m \in DOMAIN heap : m # n => g[m] = heap[m]
       /\ g[n] = q /\ g[a] = r
       /\ g = [m \in DOMAIN g |-> g[m]]
  BY <1>7, <1>8, <1>11
<1>13. \A m \in DOMAIN g : g[m] \in Record
  BY <1>1, <1>3, <1>11, <1>12
<1>14. g \in [DOMAIN g -> Record]
  BY <1>12, <1>13
<1>. QED  BY <1>1, <1>2, <1>4, <1>12, <1>14 DEF NewContext, q, r, a

\* The wrapper of a page that knows its context.
Knowing(w, a) == [w EXCEPT !.also = a]
Known(w, a) == (wrappers \ {w}) \cup {Knowing(w, a)}

LEMMA NewContextHeap ==
    ASSUME DInv, NEW w, NEW a, NEW g, w.native \in DOMAIN heap, heap[w.native].kind = "page",
           heap[w.native].of = None, NewContext(g, w, a)
    PROVE  /\ IsHeap(g) /\ g[w.native].kind = "page" /\ g[w.native].of = a /\ g[w.native].parts = {}
           /\ g[a].kind = "pageContext" /\ g[a].of = w.native /\ g[a].parts = {} /\ a # w.native
           /\ a \notin DOMAIN heap
           /\ \A m \in DOMAIN heap : w.native \notin heap[m].parts
<1>. DEFINE n == w.native
<1>1. /\ DOMAIN g = DOMAIN heap \cup {a} /\ g \in [DOMAIN g -> Record]
      /\ \A m \in DOMAIN heap : m # n => g[m] = heap[m]
      /\ g[n] = [heap[n] EXCEPT !.of = a]
      /\ g[a] = Native("pageContext", n, {})
      /\ IsFresh(heap, wrappers, {a}) /\ a \in Nat \ {None}
  BY DEF NewContext
<1>2. /\ IsHeap(heap) /\ heap[n] \in Record /\ n # None
      /\ \A m \in DOMAIN heap : PartsFit(heap, m) /\ OfFits(heap, m) /\ ContextFits(heap, m)
  BY DEF DInv, IsHeap, None
<1>3. /\ a \notin DOMAIN heap /\ a # n /\ a \in 1 .. MaxNatives
      /\ \A m \in DOMAIN heap : heap[m].of # a /\ a \notin heap[m].parts
  BY <1>1 DEF IsFresh
<1>4. heap[n].parts = {}
  BY <1>2 DEF PartsFit, Childless
<1>5. /\ g[n].kind = "page" /\ g[n].of = a /\ g[n].parts = {}
      /\ g[a].kind = "pageContext" /\ g[a].of = n /\ g[a].parts = {}
  BY <1>1, <1>2, <1>4 DEF Native, Record
<1>6. \A m \in DOMAIN heap : n \notin heap[m].parts
  BY <1>2 DEF PartsFit, HasPart, Deletable, Lent
<1>7. \A m \in DOMAIN heap : g[m].kind = heap[m].kind /\ g[m].parts = heap[m].parts
  BY <1>1, <1>4, <1>5
<1>8. ASSUME NEW m \in DOMAIN g
      PROVE  PartsFit(g, m)
  <2>1. CASE m = a
    BY <1>5, <2>1 DEF PartsFit
  <2>2. CASE m \in DOMAIN heap
    <3>1. PartsFit(heap, m)
      BY <1>2, <2>2
    <3>2. \A p \in heap[m].parts : p \in DOMAIN g => p \in DOMAIN heap /\ g[p] = heap[p]
      BY <1>1, <1>3, <1>6, <2>2
    <3>. QED  BY <1>7, <2>2, <3>1, <3>2 DEF PartsFit
  <2>. QED  BY <1>1, <2>1, <2>2
<1>9. ASSUME NEW m \in DOMAIN g
      PROVE  OfFits(g, m)
  <2>1. CASE m = a
    <3>1. PointsBack("pageContext", "page")
      BY DEF PointsBack
    <3>. QED  BY <1>2, <1>5, <2>1, <3>1 DEF OfFits, Rootless
  <2>2. CASE m = n
    <3>1. PointsBack("page", "pageContext")
      BY DEF PointsBack
    <3>. QED  BY <1>1, <1>5, <2>2, <3>1 DEF OfFits, Rootless
  <2>3. CASE m \in DOMAIN heap /\ m # n
    <3>1. OfFits(heap, m) /\ g[m] = heap[m] /\ heap[m].of # a
      BY <1>1, <1>2, <1>3, <2>3
    <3>2. ASSUME heap[m].of = n
          PROVE  heap[m].kind \notin {"page", "pageContext"}
      <4>1. n \in DOMAIN heap /\ heap[n].of # m
        BY <1>2, <2>3, None \notin DOMAIN heap DEF IsHeap, None
      <4>. QED  BY <3>1, <3>2, <4>1 DEF OfFits
    <3>3. heap[m].of \in DOMAIN g => heap[m].of \in DOMAIN heap /\ g[heap[m].of].kind = heap[heap[m].of].kind
      BY <1>1, <1>7, <3>1
    <3>4. heap[m].of \in DOMAIN heap /\ heap[m].of # n => g[heap[m].of] = heap[heap[m].of]
      BY <1>1
    <3>. QED  BY <3>1, <3>2, <3>3, <3>4 DEF OfFits
  <2>. QED  BY <1>1, <2>1, <2>2, <2>3
<1>10. ASSUME NEW m \in DOMAIN g
       PROVE  ContextFits(g, m)
  <2>1. CASE m = a
    BY <1>5, <2>1 DEF ContextFits
  <2>2. CASE m \in DOMAIN heap
    BY <1>1, <1>2, <1>5, <1>7, <2>2 DEF ContextFits
  <2>. QED  BY <1>1, <2>1, <2>2
<1>11. DOMAIN g \subseteq 1 .. MaxNatives
  BY <1>1, <1>2, <1>3 DEF IsHeap
<1>12. IsHeap(g)
  BY <1>1, <1>8, <1>9, <1>10, <1>11 DEF IsHeap
<1>. QED  BY <1>3, <1>5, <1>6, <1>12

LEMMA NewContextWrapped ==
    ASSUME DInv, NEW w \in wrappers, NEW a, NEW g, w.owns, w.class = "PDFPage", w.held, w.also = None,
           NewContext(g, w, a)
    PROVE  /\ IsWrapped(g, Known(w, a)) /\ IsHeap(g)
           /\ g[w.native].kind = "page" /\ g[w.native].of = a
<1>. DEFINE n == w.native
            r == Native("pageContext", n, {})
            k == [m \in DOMAIN g |-> IF m = n THEN heap[n] ELSE g[m]]
<1>1. /\ DOMAIN g = DOMAIN heap \cup {a} /\ g \in [DOMAIN g -> Record]
      /\ \A m \in DOMAIN heap : m # n => g[m] = heap[m]
      /\ IsFresh(heap, wrappers, {a}) /\ a \in Nat \ {None}
  BY DEF NewContext
<1>2. /\ IsHeap(heap) /\ IsWrapped(heap, wrappers) /\ OwnerFits(heap, w) /\ n \in DOMAIN heap
      /\ heap[n].kind = "page" /\ heap[n].of = None /\ heap[n] \in Record
  <2>1. OwnerFits(heap, w) /\ IsHeap(heap) /\ IsWrapped(heap, wrappers)
    BY DEF DInv, IsWrapped
  <2>. QED  BY <2>1 DEF OwnerFits, OwnerOf, IsHeap
<1>3. /\ IsHeap(g) /\ g[n].kind = "page" /\ g[n].of = a /\ g[n].parts = {}
      /\ g[a].kind = "pageContext" /\ g[a].of = n /\ g[a].parts = {} /\ a # n
      /\ a \notin DOMAIN heap
      /\ \A m \in DOMAIN heap : n \notin heap[m].parts
  BY <1>2, NewContextHeap
<1>4. heap[n].parts = {}
  BY <1>2 DEF IsHeap, PartsFit, Childless
<1>5. /\ DOMAIN k = DOMAIN heap \cup {a} /\ \A m \in DOMAIN heap : k[m] = heap[m]
      /\ k[a] = g[a] /\ k = [m \in DOMAIN k |-> k[m]]
      /\ \A m \in DOMAIN k : m # n => g[m] = k[m]
  BY <1>1, <1>3
<1>. HIDE DEF k
<1>6. Grows(heap, k, {a})
  <2>1. \A m \in DOMAIN k : k[m] \in Record
    BY <1>1, <1>2, <1>5 DEF IsHeap
  <2>. QED  BY <1>5, <2>1 DEF Grows
<1>7. IsWrapped(k, wrappers) /\ \A m \in DOMAIN heap : Safe(heap, wrappers, m) => Safe(k, wrappers, m)
  <2>1. \A m \in {a} : /\ k[m].kind # "parser"
                       /\ \A v \in wrappers : v.owns /\ v.class = "PDFStream" => v.native \notin k[m].parts
    BY <1>3, <1>5
  <2>. QED  BY <1>1, <1>2, <1>6, <2>1, GrowsWrapped
<1>8. ASSUME NEW u \in wrappers
      PROVE  a \notin DeletesIn(k, u)
  <2>1. DeletesIn(heap, u) \subseteq DOMAIN heap
    BY <1>2, DeletesExist
  <2>2. u.owns => u.native \in DOMAIN heap
    BY <1>2 DEF IsWrapped, OwnerFits
  <2>3. DeletesIn(k, u) = DeletesIn(heap, u)
    BY <1>1, <1>6, <2>2, GrowsDeletes
  <2>. QED  BY <1>3, <2>1, <2>3
<1>9. ASSUME NEW m \in DOMAIN heap, NEW p \in ReachIn(g, m)
      PROVE  p \in ReachIn(k, m) \/ p = a
  <2>1. /\ p # None
        /\ \/ p = m
           \/ p = g[m].of
           \/ p \in g[m].parts
           \/ \E q \in g[m].parts \cap DOMAIN g : p \in g[q].parts
    BY <1>1, <1>9, ReachOf
  <2>2. \A q \in DOMAIN g : g[q].parts = k[q].parts
    <3>1. g[n].parts = k[n].parts
      BY <1>2, <1>3, <1>4, <1>5
    <3>2. DOMAIN g = DOMAIN k
      BY <1>1, <1>5
    <3>. QED  BY <1>5, <3>1, <3>2
  <2>3. g[m].of = k[m].of \/ g[m].of = a
    BY <1>3, <1>5
  <2>4. m \in DOMAIN k /\ DOMAIN k = DOMAIN g
    BY <1>1, <1>5
  <2>5. CASE p = m
    BY <2>1, <2>4, <2>5 DEF ReachIn
  <2>6. CASE p = g[m].of
    BY <2>1, <2>3, <2>4, <2>6 DEF ReachIn
  <2>7. CASE p \in g[m].parts
    BY <2>1, <2>2, <2>4, <2>7 DEF ReachIn
  <2>8. CASE \E q \in g[m].parts \cap DOMAIN g : p \in g[q].parts
    BY <2>1, <2>2, <2>4, <2>8 DEF ReachIn
  <2>. QED  BY <2>1, <2>5, <2>6, <2>7, <2>8
<1>10. \A v \in wrappers : v.held => /\ ReachIn(g, v.native) \subseteq DOMAIN g
                                     /\ \A u \in wrappers : ~u.held =>
                                           ReachIn(g, v.native) \cap DeletesIn(k, u) = {}
  <2>. SUFFICES ASSUME NEW v \in wrappers, v.held
                PROVE  /\ ReachIn(g, v.native) \subseteq DOMAIN g
                       /\ \A u \in wrappers : ~u.held => ReachIn(g, v.native) \cap DeletesIn(k, u) = {}
    OBVIOUS
  <2>1. Safe(k, wrappers, v.native) /\ v.native \in DOMAIN heap
    BY <1>2, <1>7 DEF IsWrapped, Safe
  <2>2. DOMAIN k = DOMAIN g /\ a \in DOMAIN g
    BY <1>1, <1>5
  <2>3. \A p \in ReachIn(g, v.native) : p \in ReachIn(k, v.native) \/ p = a
    BY <1>9, <2>1
  <2>. QED  BY <1>8, <2>1, <2>2, <2>3 DEF Safe
<1>11. IsWrapped(g, (wrappers \ {w}) \cup {[w EXCEPT !.also = a]})
  <2>1. DOMAIN g = DOMAIN k /\ a \in Nat
    BY <1>1, <1>5
  <2>2. k[n].parts = {} /\ \A m \in DOMAIN k : n \notin k[m].parts
    BY <1>2, <1>3, <1>4, <1>5
  <2>. QED  BY <1>3, <1>5, <1>7, <1>10, <2>1, <2>2, Relinks
<1>. QED  BY <1>3, <1>11 DEF Known, Knowing

LEMMA NewContextSound ==
    ASSUME DInv, ~thrown, NEW w \in wrappers, NEW a, NEW g, w.owns, w.class = "PDFPage", w.held, w.also = None,
           NewContext(g, w, a)
    PROVE  /\ Sound(g, Known(w, a), session, registered)
           /\ Safe(g, Known(w, a), a) /\ g[a].kind = "pageContext"
           /\ IsBusy(g, Known(w, a), event, busy)
<1>. DEFINE n == w.native
            x == Knowing(w, a)
            vs == Known(w, a)
<1>1. /\ DOMAIN g = DOMAIN heap \cup {a}
      /\ \A m \in DOMAIN heap : m # n => g[m] = heap[m]
      /\ a \in Nat \ {None} /\ IsFresh(heap, wrappers, {a}) /\ g[a] = Native("pageContext", n, {})
  BY DEF NewContext
<1>2. /\ IsHeap(heap) /\ IsSession(heap, wrappers, session, registered) /\ OwnerFits(heap, w)
      /\ n \in DOMAIN heap /\ heap[n].kind = "page" /\ w \in Wrapper
  <2>1. OwnerFits(heap, w) /\ IsHeap(heap) /\ w \in Wrapper
    BY DEF DInv, IsWrapped
  <2>. QED  BY <2>1 DEF OwnerFits, OwnerOf, DInv
<1>3. IsWrapped(g, vs) /\ IsHeap(g) /\ g[n].kind = "page" /\ g[n].of = a
  BY NewContextWrapped
<1>4. /\ x.native = n /\ x.held /\ x.class = "PDFPage" /\ x \in vs
      /\ vs = (wrappers \ {w}) \cup {x}
  BY <1>2 DEF Knowing, Known, Wrapper
<1>5. Safe(g, vs, n)
  BY <1>3, <1>4 DEF IsWrapped
<1>. HIDE DEF x, vs
<1>6. Safe(g, vs, a) /\ g[a].kind = "pageContext"
  BY <1>1, <1>3, <1>5, ContextIsSafe
<1>7. IsSession(g, vs, session, registered)
  <2>1. SameWriters(wrappers, vs)
    BY <1>4 DEF SameWriters
  <2>2. \A m \in DOMAIN heap : heap[m].kind \in {"writer", "copying"} =>
                                   m \in DOMAIN g /\ g[m].kind = heap[m].kind /\ g[m].of = heap[m].of
    BY <1>1, <1>2
  <2>3. \A m \in DOMAIN g : g[m].kind \in {"writer", "font", "copying"} =>
                                m \in DOMAIN heap /\ g[m].kind = heap[m].kind /\ g[m].of = heap[m].of
    BY <1>1, <1>2, <1>3, <1>6
  <2>4. session.writer \in DOMAIN heap =>
            heap[session.writer].parts \subseteq g[session.writer].parts /\ session.writer \in DOMAIN g
    <3>1. ASSUME session.writer \in DOMAIN heap
          PROVE  session.writer # n
      <4>1. session.writer # None
        BY <1>2, <3>1 DEF IsHeap, None
      <4>. QED  BY <4>1, <1>2, WriterIs
    <3>. QED  BY <1>1, <3>1
  <2>. QED  BY <1>2, <2>1, <2>2, <2>3, <2>4, SessionStays
<1>8. IsBusy(g, vs, event, busy)
  <2>1. IsBusy(heap, wrappers, event, busy)
    BY DEF DInv
  <2>2. \A u \in wrappers : u.class = "PDFWriter" => u \in vs
    BY <1>4
  <2>3. ASSUME NEW b \in busy, b \in DOMAIN heap
        PROVE  /\ b \in DOMAIN g /\ g[b].kind = heap[b].kind
               /\ \A p \in heap[b].parts : p \in DOMAIN heap /\ heap[p].kind \in {"formContext", "stream"} =>
                     p \in g[b].parts /\ p \in DOMAIN g /\ g[p].kind = heap[p].kind
               /\ \A u \in wrappers : u.owns /\ u.held /\ u.native = b => u \in vs
    <3>1. b \notin {Own, Listening, Waiting}
      <4>1. b \in Nat
        BY <1>2, <2>3 DEF IsHeap
      <4>. QED  BY <4>1 DEF Own, Listening, Waiting
    <3>2. heap[b].kind \in {"pageContext", "form", "modifier"}
      BY <2>1, <2>3, <3>1 DEF IsBusy
    <3>3. b # n /\ g[b] = heap[b]
      BY <1>1, <1>2, <2>3, <3>2
    <3>4. \A p \in DOMAIN heap : p \in DOMAIN g /\ g[p].kind = heap[p].kind
      BY <1>1, <1>2, <1>3
    <3>. QED  BY <1>4, <2>3, <3>3, <3>4
  <2>. QED  BY <2>1, <2>2, <2>3, BusyStays
<1>9. Sound(g, vs, session, registered)
  BY <1>3, <1>7 DEF Sound, vs
<1>. QED  BY <1>6, <1>8, <1>9 DEF vs

LEMMA StartingPage ==
    ASSUME OwnersOnly, DInv, ~thrown, NEW w \in Of("PDFPage"), StartPageContentContext(w)
    PROVE  DInv'
<1>. DEFINE n == w.native
            a == New(1)
<1>1. /\ w.owns /\ IsFree /\ Touches({n} \cup Writer)
      /\ UNCHANGED <<registered, session, thrown, out, busy, event>>
  BY DEF StartPageContentContext, OwnersOnly
<1>2. /\ w \in wrappers /\ w.held /\ w.class = "PDFPage" /\ w \in Wrapper
      /\ OwnerFits(heap, w) /\ Safe(heap, wrappers, n) /\ n \in Live /\ n \in DOMAIN heap
      /\ heap[n].kind = "page" /\ w.also = heap[n].of
  <2>1. /\ w \in wrappers /\ w.held /\ w.class = "PDFPage" /\ w \in Wrapper
        /\ OwnerFits(heap, w) /\ Safe(heap, wrappers, n) /\ n \in Live
    BY <1>1, Used
  <2>. QED  BY <2>1 DEF OwnerFits, OwnerOf, Live
<1>3. dangling' = FALSE /\ WriterHeld(wrappers) /\ event = NoEvent
  <2>1. WriterHeld(wrappers) /\ event = NoEvent
    BY <1>1, WhenRunning DEF IsFree
  <2>2. {n} \cup Writer \subseteq Live
    BY <1>2, <2>1, WriterIsSafe
  <2>. QED  BY <1>1, <2>1, <2>2, Untouched
<1>4. /\ "PageContentContext" \in Classes \ {"PDFWriter", "DictionaryContext", "XObjectContentContext"}
      /\ BorrowerOf("PageContentContext", "pageContext")
  BY DEF Classes, BorrowerOf
<1>5. CASE heap[n].of # None
  <2>. DEFINE c == heap[n].of
  <2>1. /\ heap' = [heap EXCEPT ![n].of = c]
        /\ wrappers' = (wrappers \ {w}) \cup {[w EXCEPT !.also = c], BorrowedOf("PageContentContext", c)}
    BY <1>2, <1>5 DEF StartPageContentContext, BorrowedOf
  <2>2. heap' = heap
    <3>1. heap \in [DOMAIN heap -> Record] /\ heap[n] \in Record
      BY <1>2 DEF DInv, IsHeap
    <3>2. [heap[n] EXCEPT !.of = c] = heap[n]
      BY <3>1 DEF Record
    <3>3. heap' = [heap EXCEPT ![n] = [heap[n] EXCEPT !.of = c]]
      BY <2>1
    <3>. QED  BY <1>2, <3>1, <3>2, <3>3
  <2>3. wrappers' = wrappers \cup {BorrowedOf("PageContentContext", c)}
    <3>1. [w EXCEPT !.also = c] = w
      BY <1>2 DEF Wrapper
    <3>. QED  BY <1>2, <2>1, <3>1
  <2>4. Safe(heap, wrappers, c) /\ heap[c].kind = "pageContext"
    BY <1>2, <1>5, ContextIsSafe DEF DInv
  <2>. HIDE DEF c
  <2>5. BorrowerOf("PageContentContext", heap[c].kind)
    BY <1>4, <2>4
  <2>6. UNCHANGED <<heap, registered, session, thrown, busy, event>>
    BY <1>1, <2>2
  <2>. QED  BY <1>3, <1>4, <2>3, <2>4, <2>5, <2>6, LendsOne
<1>6. CASE heap[n].of = None
  <2>1. Room(1) /\ StartsContext(w, a)
    <3>1. /\ Room(1)
          /\ heap' = [Created(heap, <<Native("pageContext", n, {})>>) EXCEPT ![n].of = a]
          /\ wrappers' = (wrappers \ {w}) \cup {[w EXCEPT !.also = a], BorrowedOf("PageContentContext", a)}
      BY <1>2, <1>6 DEF StartPageContentContext, BorrowedOf
    <3>. QED  BY <3>1 DEF StartsContext
  <2>2. NewContext(heap', w, a)
    BY <1>2, <2>1, NewContextIs
  <2>3. wrappers' = Known(w, a) \cup {BorrowedOf("PageContentContext", a)}
    BY <2>1 DEF StartsContext, Known, Knowing
  <2>. HIDE DEF a
  <2>. DEFINE g == heap'
              vs == Known(w, a)
  <2>4. /\ Sound(g, vs, session, registered)
        /\ Safe(g, vs, a) /\ g[a].kind = "pageContext"
        /\ IsBusy(g, vs, event, busy)
    BY <1>1, <1>2, <1>6, <2>2, NewContextSound
  <2>. HIDE DEF g, vs
  <2>5. /\ Sound(g, vs \cup {BorrowedOf("PageContentContext", a)}, session, registered)
        /\ BusyStill(g, vs, g, vs \cup {BorrowedOf("PageContentContext", a)})
    <3>1. BorrowerOf("PageContentContext", g[a].kind)
      BY <1>4, <2>4
    <3>. QED  BY <1>4, <2>4, <3>1, LentSound
  <2>6. Sound(g, wrappers', session, registered) /\ IsBusy(g, wrappers', event, busy)
    BY <2>3, <2>4, <2>5 DEF BusyStill, vs
  <2>7. IsEvent(g, wrappers', NoEvent)
    BY NothingPending
  <2>. QED  BY <1>1, <1>3, <2>6, <2>7 DEF DInv, Sound, g
<1>. QED  BY <1>5, <1>6

-----------------------------------------------------------------------------
(***************************************************************************)
(* Every step.                                                             *)
(***************************************************************************)

LEMMA InitSound == Init => DInv
<1>. SUFFICES ASSUME Init
              PROVE  DInv
  OBVIOUS
<1>1. /\ DOMAIN heap = {} /\ heap \in [{} -> Record] /\ wrappers = {} /\ registered = {}
      /\ session = [writer |-> None, state |-> "none", modifies |-> FALSE]
      /\ ~dangling /\ thrown = FALSE /\ busy = {} /\ event = NoEvent
  BY DEF Init
<1>2. IsHeap(heap)
  BY <1>1 DEF IsHeap
<1>3. IsWrapped(heap, wrappers)
  BY <1>1 DEF IsWrapped, OwnersDiffer, OneDictionary, ParsersOwned
<1>4. IsSession(heap, wrappers, session, registered)
  BY <1>1 DEF IsSession, States, None
<1>5. IsEvent(heap, wrappers, event) /\ IsBusy(heap, wrappers, event, busy)
  BY <1>1, NothingPending, BusyWith
<1>. QED  BY <1>1, <1>2, <1>3, <1>4, <1>5 DEF DInv

LEMMA ObjectsKeep ==
    ASSUME DInv, ~thrown, WritesObjects
    PROVE  DInv'
<1>1. UNCHANGED event
  BY DEF WritesObjects
<1>2. CASE \/ StartNewIndirectObject \/ EndIndirectObject \/ StartArray \/ EndArray \/ WriteToken
           \/ \E x \in Of("DictionaryContext") : WriteInDictionary(x)
           \/ \E x \in Of("PDFStream") : WriteInStream(x) \/ EndPDFStream(x)
  BY <1>1, <1>2, ObjectsWritten
<1>3. CASE StartDictionary
  BY <1>1, <1>3, StartingDictionary
<1>4. CASE StartPDFStream
  BY <1>1, <1>4, StreamMade
<1>5. ASSUME NEW x \in Of("DictionaryContext"), EndDictionary(x) \/ StartPDFStreamWith(x)
      PROVE  DInv'
  BY <1>1, <1>5, EndingDictionary, StreamMadeWith
<1>. QED  BY <1>2, <1>3, <1>4, <1>5 DEF WritesObjects

LEMMA PagesKeep ==
    ASSUME OwnersOnly, DInv, ~thrown, DrawsPages
    PROVE  DInv'
<1>1. CASE CreatePage
  BY <1>1, PageMade
<1>2. ASSUME NEW w \in Of("PDFPage"),
             \/ UsePage(w) \/ StartPageContentContext(w)
             \/ WritePageAndReturnID(w) \/ MergePDFPagesToPage(w)
      PROVE  DInv'
  <2>1. CASE UsePage(w)
    BY <2>1, UsesKeep DEF Uses
  <2>2. CASE StartPageContentContext(w)
    BY <2>2, StartingPage
  <2>3. CASE WritePageAndReturnID(w)
    BY <2>3, WritingPage
  <2>4. CASE MergePDFPagesToPage(w)
    BY <2>4, MergingPages
  <2>. QED  BY <1>2, <2>1, <2>2, <2>3, <2>4
<1>3. ASSUME NEW x \in Of("PageContentContext"),
             \/ GetAssociatedPage(x) \/ DrawOnPage(x)
             \/ GetCurrentPageContentStream(x) \/ PausePageContentContext(x)
      PROVE  DInv'
  <2>1. CASE GetAssociatedPage(x)
    BY <2>1, GettingPage
  <2>2. CASE DrawOnPage(x) \/ GetCurrentPageContentStream(x)
    BY <2>2, DrawingOnPage
  <2>3. CASE PausePageContentContext(x)
    BY <2>3, PausingPage
  <2>. QED  BY <1>3, <2>1, <2>2, <2>3
<1>4. CASE AppendPDFPagesFromPDF
  BY <1>4, WritingObjectsWhole DEF WritesObjectsWhole
<1>5. CASE AttachURLLinktoCurrentPage
  BY <1>5, WritesMoreKeep DEF WritesMore
<1>. QED  BY <1>1, <1>2, <1>3, <1>4, <1>5 DEF DrawsPages

LEMMA FormsKeep ==
    ASSUME DInv, ~thrown, DrawsForms
    PROVE  DInv'
<1>1. CASE CreateFormXObject
  BY <1>1, FormMade
<1>2. ASSUME NEW w \in Of("FormXObject"),
             UseForm(w) \/ GetContentContext(w) \/ GetContentStream(w) \/ EndFormXObject(w)
      PROVE  DInv'
  <2>1. CASE UseForm(w)
    BY <2>1, UsesKeep DEF Uses
  <2>2. CASE GetContentContext(w) \/ GetContentStream(w)
    BY <2>2, GettingFormParts
  <2>3. CASE EndFormXObject(w)
    BY <2>3, EndingForm
  <2>. QED  BY <1>2, <2>1, <2>2, <2>3
<1>3. ASSUME NEW x \in Of("XObjectContentContext"), DrawOnForm(x)
      PROVE  DInv'
  BY <1>3, DrawingOnForm
<1>4. CASE CreateFormXObjectsFromPDF
  BY <1>4, WritingObjectsWhole DEF WritesObjectsWhole
<1>. QED  BY <1>1, <1>2, <1>3, <1>4 DEF DrawsForms

LEMMA ImagesKeep ==
    ASSUME DInv, ~thrown, UsesImages
    PROVE  DInv'
<1>1. CASE CreateFormXObjectFromJPG \/ CreateFormXObjectFromPNG \/ CreateFormXObjectFromTIFF
  BY <1>1, WritingObjectsWhole DEF WritesObjectsWhole
<1>2. CASE CreateImageXObjectFromJPG
  BY <1>2, ImageMade
<1>3. CASE \E w \in Of("ImageXObject") : UseImage(w)
  BY <1>3, UsesKeep DEF Uses
<1>4. CASE GetFontForFile
  BY <1>4, GettingFont
<1>5. CASE \E x \in Of("UsedFont") : UseFont(x)
  BY <1>5, UsesKeep DEF Uses
<1>. QED  BY <1>1, <1>2, <1>3, <1>4, <1>5 DEF UsesImages

LEMMA FilesKeep ==
    ASSUME OwnersOnly, DInv, ~thrown, UsesFiles
    PROVE  DInv'
<1>1. ASSUME NEW class \in {"InputFile", "OutputFile"}, NewFile(class) \/ GetMember(class)
      PROVE  DInv'
  BY <1>1, FileMade, GettingMember
<1>2. ASSUME NEW w \in Of("InputFile") \cup Of("OutputFile"),
             OpenFile(w) \/ CloseFile(w) \/ GetFileStream(w)
      PROVE  DInv'
  BY <1>2, OpeningFile, ClosingFile, GettingFileStream
<1>3. CASE \E x \in Of("ByteReaderWithPosition") \cup Of("ByteWriterWithPosition") : UseFileStream(x)
  BY <1>3, UsesKeep DEF Uses
<1>. QED  BY <1>1, <1>2, <1>3 DEF UsesFiles

LEMMA ReadsKeep ==
    ASSUME DInv, ~thrown, Reads \/ Parses
    PROVE  DInv'
<1>1. CASE CreateReader
  BY <1>1, ReaderMade
<1>2. CASE GetMember("PDFReader")
  BY <1>2, GettingMember
<1>3. CASE \/ \E w \in Of("PDFReader") : ParseObjects(w) \/ QueryReader(w)
           \/ \E w \in Of("PDFPageInput") : UsePageInput(w)
           \/ \E w \in Of("ByteReader") : ReadDecoded(w)
  BY <1>3, UsesKeep DEF Uses
<1>4. ASSUME NEW w \in Of("PDFReader"), ParsePage(w) \/ StartReadingFromStream(w)
      PROVE  DInv'
  <2>1. PICK class \in {"PDFPageInput", "ByteReader"} : Derived(w, class)
    BY <1>4 DEF ParsePage, StartReadingFromStream
  <2>. QED  BY <2>1, DerivedMade
<1>5. ASSUME NEW w \in Of("PDFReader"), GetParserStream(w)
      PROVE  DInv'
  BY <1>5, GettingParserStream
<1>. QED  BY <1>1, <1>2, <1>3, <1>4, <1>5 DEF Reads, Parses

LEMMA CopiesKeep ==
    ASSUME DInv, ~thrown, CopiesObjects
    PROVE  DInv'
<1>1. CASE CreatePDFCopyingContext \/ CreatePDFCopyingContextForModifiedFile
  BY <1>1, CopyingContextMade
<1>2. ASSUME NEW x \in Of("DocumentCopyingContext"),
             \/ CreateFormXObjectFromPDFPage(x) \/ AppendPDFPageFromPDF(x)
             \/ \E w \in Of("PDFPage") : MergePDFPageToPage(x, w)
             \/ \E f \in Of("FormXObject") : MergePDFPageToFormXObject(x, f)
             \/ GetSourceDocumentParser(x) \/ GetSourceDocumentStream(x)
             \/ CopyObject(x) \/ CopyNewObjectsForDirectObject(x)
             \/ CopyDirectObject(x) \/ UseCopiedObjects(x)
      PROVE  DInv'
  <2>1. CASE CreateFormXObjectFromPDFPage(x) \/ AppendPDFPageFromPDF(x)
    BY <2>1, WritingObjectsWhole DEF WritesObjectsWhole
  <2>2. ASSUME NEW w \in Of("PDFPage"), MergePDFPageToPage(x, w)
        PROVE  DInv'
    BY <2>2, MergingPages
  <2>3. ASSUME NEW f \in Of("FormXObject"), MergePDFPageToFormXObject(x, f)
        PROVE  DInv'
    BY <2>3, MergingToForm
  <2>4. CASE GetSourceDocumentParser(x) \/ GetSourceDocumentStream(x)
    BY <2>4, GettingSources
  <2>5. CASE CopyObject(x) \/ CopyNewObjectsForDirectObject(x) \/ CopyDirectObject(x)
    BY <2>5, WritesMoreKeep DEF WritesMore
  <2>6. CASE UseCopiedObjects(x)
    BY <2>6, UsesKeep DEF Uses
  <2>. QED  BY <1>2, <2>1, <2>2, <2>3, <2>4, <2>5, <2>6
<1>. QED  BY <1>1, <1>2 DEF CopiesObjects

LEMMA ModifiesKeep ==
    ASSUME DInv, ~thrown, ModifiesPages
    PROVE  DInv'
<1>1. CASE NewModifier
  BY <1>1, ModifierMade
<1>2. ASSUME NEW w \in Of("PDFPageModifier"),
             \/ StartContext(w) \/ GetContext(w) \/ EndContext(w)
             \/ WriteModifiedPage(w) \/ AttachURLLinkToModifiedPage(w)
      PROVE  DInv'
  <2>1. CASE StartContext(w)
    BY <2>1, StartingContext
  <2>2. CASE GetContext(w)
    BY <2>2, GettingFormParts
  <2>3. CASE EndContext(w) \/ WriteModifiedPage(w)
    BY <2>3, ModifiedPage
  <2>4. CASE AttachURLLinkToModifiedPage(w)
    BY <2>4, WritesMoreKeep DEF WritesMore
  <2>. QED  BY <1>2, <2>1, <2>2, <2>3, <2>4
<1>3. ASSUME NEW x \in Of("XObjectContentContext"), DrawOnForm(x)
      PROVE  DInv'
  BY <1>3, DrawingOnForm
<1>. QED  BY <1>1, <1>2, <1>3 DEF ModifiesPages

LEMMA WritersKeep ==
    ASSUME DInv, ~thrown, CreateWriter \/ CreateWriterToContinue \/ CreateWriterToModify
    PROVE  DInv'
<1>1. PICK modifies \in BOOLEAN : \E k \in 0 .. 2 : Starts(modifies, k)
  <2>1. {0, 1} \subseteq 0 .. 2 /\ {0, 2} \subseteq 0 .. 2
    OBVIOUS
  <2>2. CASE CreateWriter
    BY <2>1, <2>2 DEF CreateWriter
  <2>3. CASE CreateWriterToContinue
    BY <2>1, <2>3 DEF CreateWriterToContinue
  <2>4. CASE CreateWriterToModify
    BY <2>1, <2>4 DEF CreateWriterToModify
  <2>. QED  BY <2>2, <2>3, <2>4
<1>2. PICK k \in 0 .. 2 : Starts(modifies, k)
  BY <1>1
<1>. QED  BY <1>2, StartingWriter

\* What the program calls and what the collector does keep the invariant.
LEMMA CallsKeep ==
    ASSUME OwnersOnly, DInv, ~thrown, Calls
    PROVE  DInv'
<1>1. CASE CreateWriter \/ CreateWriterToContinue \/ CreateWriterToModify
  BY <1>1, WritersKeep
<1>2. CASE Shutdown
  BY <1>2, WritesMoreKeep DEF WritesMore
<1>3. CASE End
  BY <1>3, Ending
<1>4. CASE FinishEnd
  BY <1>4, FinishingEnd
<1>5. CASE ListenerReturns
  BY <1>5, ListenerReturning
<1>6. CASE CallReturns \/ PageFollows
  BY <1>6, CallReturning, PageFollowing
<1>7. CASE WritesObjects
  BY <1>7, ObjectsKeep
<1>8. CASE DrawsPages
  BY <1>8, PagesKeep
<1>9. CASE DrawsForms
  BY <1>9, FormsKeep
<1>10. CASE UsesImages
  BY <1>10, ImagesKeep
<1>11. CASE UsesFiles
  BY <1>11, FilesKeep
<1>12. CASE Reads \/ Parses
  BY <1>12, ReadsKeep
<1>13. CASE CopiesObjects
  BY <1>13, CopiesKeep
<1>14. CASE ModifiesPages
  BY <1>14, ModifiesKeep
<1>. QED  BY <1>1, <1>2, <1>3, <1>4, <1>5, <1>6, <1>7, <1>8, <1>9, <1>10, <1>11, <1>12, <1>13, <1>14
          DEF Calls

LEMMA StepsKeep ==
    ASSUME OwnersOnly, DInv, [Next]_vars
    PROVE  DInv'
<1>1. CASE UNCHANGED vars
  BY <1>1 DEF vars, DInv
<1>2. CASE ~thrown /\ Calls
  BY <1>2, CallsKeep
<1>3. ASSUME NEW w \in wrappers, LetGoOf(w)
      PROVE  DInv'
  BY <1>3, LettingGo
<1>4. ASSUME NEW w \in wrappers, Collect(w)
      PROVE  DInv'
  <2>1. UNCHANGED <<out, busy, event>>
    BY <1>4 DEF Collect
  <2>. QED  BY <1>4, <2>1, CollectingWriter, CollectingCopyingContext, CollectingOther DEF Collect
<1>. QED  BY <1>1, <1>2, <1>3, <1>4 DEF Next

\* The objects and the wrappers fit each other in every state that a program reaches which
\* writes pages, and opens files, by the wrappers that own them.
THEOREM HeapFits ==
    ASSUME OwnersOnly
    PROVE  Spec => []DInv
<1>1. Init => DInv
  BY InitSound
<1>2. DInv /\ [Next]_vars => DInv'
  BY StepsKeep
<1>. QED  BY <1>1, <1>2, PTL DEF Spec

\* No call of such a program, and no destructor that the collector runs, uses or deletes an
\* object that does not exist any more: for any programs, any bounds and any order.
THEOREM NothingDangles ==
    ASSUME OwnersOnly
    PROVE  Spec => []NoDanglingUse
<1>1. DInv => NoDanglingUse
  BY DEF DInv, NoDanglingUse
<1>. QED  BY <1>1, HeapFits, PTL
=============================================================================
