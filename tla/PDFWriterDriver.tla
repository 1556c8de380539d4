--------------------------- MODULE PDFWriterDriver ---------------------------
(***************************************************************************)
(* The writer of a document, its pages, forms, images and fonts, with the  *)
(* contexts and streams that the program draws on, and the calls back to   *)
(* its listener while a dictionary is written.                             *)
(*                                                                         *)
(*   event   the call that waits for the listener, which writes a page,    *)
(*           another object or the page of a modified file, or ends the    *)
(*           document: the dictionaries the listener is yet to be handed,  *)
(*           what is deleted at the end of the call and the wrappers that  *)
(*           it returns                                                    *)
(***************************************************************************)
EXTENDS ObjectsContextDriver

CONSTANTS
    Fails,                 \* whether a call may fail
    WritesBorrowedPages    \* whether pages are written by wrappers that borrow them

ASSUME WriterAssumption == Fails \in BOOLEAN /\ WritesBorrowedPages \in BOOLEAN

VARIABLE event

NoEvent == [call |-> "none", left |-> <<>>, frees |-> {}, gives |-> {}]

\* The program may call the writer. A call may fail.
IsFree == IsRunning /\ event = NoEvent
Outcomes == IF Fails THEN BOOLEAN ELSE {TRUE}

Handed(d) == Wrap("DictionaryContext", d, FALSE, d)
Called(call, left, frees, gives) ==
    [call |-> call, left |-> left, frees |-> frees, gives |-> gives]

\* Wrappers that the program has no more use for when natives have ended.
About(natives) == {w \in wrappers : ~w.owns /\ w.native \in natives}

-----------------------------------------------------------------------------
(* The session.                                                            *)

\* A writer for a path or, with the proxies of its streams, for streams.
Starts(modifies, proxies) ==
    /\ session.writer = None /\ Room(1 + proxies)
    /\ heap' = Created(heap,
            <<Native("writer", None, {New(1 + i) : i \in 1 .. proxies})>>
                \o [i \in 1 .. proxies |-> Native("proxy", New(1), {})])
    /\ \E works \in Outcomes :
          /\ session' = [writer |-> New(1), state |-> IF works THEN "on" ELSE "failed",
                         modifies |-> modifies]
          /\ wrappers' = wrappers \cup
                {[Wrap("PDFWriter", New(1), TRUE, None) EXCEPT !.held = works]}
          /\ Throws(~works)
    /\ out' = [open |-> <<>>, sound |-> out.sound]
    /\ UNCHANGED <<registered, dangling, busy, event>>

CreateWriter == \E proxies \in {0, 1} : Starts(FALSE, proxies)
\* The stream of a modified file is among the options, which are never read.
CreateWriterToContinue == \E modifies \in BOOLEAN, proxies \in {0, 1} : Starts(modifies, proxies)
CreateWriterToModify == \E proxies \in {0, 2} : Starts(TRUE, proxies)

\* The state is written and the file closed; the rest is as it was.
Shutdown ==
    /\ IsFree /\ busy = {}
    /\ Touches(Writer)
    /\ \E works \in Outcomes :
          /\ session' = [session EXCEPT !.state = IF works THEN "over" ELSE "failed"]
          /\ Throws(~works)
    /\ UNCHANGED <<heap, wrappers, registered, out, busy, event>>

\* The catalog is written, of a modified file if required, and the listener called.
End ==
    /\ IsFree /\ busy = {}
    /\ Touches(Writer)
    /\ \/ /\ Room(1)
          /\ heap' = Created(heap, <<Native("dictionary", None, {})>>)
          /\ wrappers' = wrappers \cup {Handed(New(1))}
          /\ out' = DictionaryStarted(ObjectStarted(out), New(1))
          /\ event' = Called("end", <<New(1)>>, {}, {}) /\ busy' = {Listening}
       \/ /\ session.modifies
          /\ event' = Called("end", <<>>, {}, {}) /\ busy' = {Waiting}
          /\ UNCHANGED <<heap, wrappers, out>>
    /\ UNCHANGED <<registered, session, thrown>>

\* The library's documents are cleaned up, and, unless that failed, the proxies go.
\* The writer stays in the list of its own listeners.
FinishEnd ==
    LET proxies == heap[session.writer].parts \ Fonts
        clean == CleanedUp(heap)
    IN  /\ event.call = "end" /\ event.left = <<>>
        /\ Touches(Writer \cup registered \cup Fonts)
        /\ out' = IF out.open = <<>> THEN WholeObject(out) ELSE ObjectEnded(out)
        /\ registered' = {}
        /\ \E works \in Outcomes :
              /\ heap' = IF works
                         THEN [Freed(clean, proxies) EXCEPT ![session.writer].parts = {}]
                         ELSE clean
              /\ session' = [session EXCEPT !.state = IF works THEN "over" ELSE "failed"]
              /\ Throws(~works)
        /\ wrappers' = wrappers \ Of("UsedFont")
        /\ event' = NoEvent /\ busy' = {}

-----------------------------------------------------------------------------
(* The listener.                                                           *)

\* The listener has ended what it started in the dictionary it was handed.
ListenerIsDone == event.left # <<>> => InnermostDictionary(out) = Head(event.left)

\* The listener returns, and the dictionary is ended if it is the innermost. If it is
\* not, it stays, and only the dictionary of a page itself makes the call fail; the
\* library goes on in what the listener left open otherwise.
ListenerReturns ==
    LET d == Head(event.left)
        rest == Tail(event.left)
        ended == IF InnermostDictionary(out) = d THEN {d} ELSE {}
        fails == ended = {} /\ event.call = "page" /\ rest = <<>>
    IN  /\ event.left # <<>> /\ Top(out)[1] = "dictionary"
        /\ IF fails
           THEN /\ Touches(Writer \cup event.frees)
                /\ heap' = Freed(heap, event.frees)
                /\ event' = NoEvent /\ busy' = {}
                /\ UNCHANGED <<out, wrappers>>
           ELSE /\ Touches(Writer)
                /\ heap' = Freed(heap, ended)
                /\ out' = IF ended = {} THEN out ELSE Closed(out, Dictionary(d))
                /\ wrappers' = (wrappers \ About(ended)) \cup
                                   (IF rest = <<>> THEN {} ELSE {Handed(Head(rest))})
                /\ event' = [event EXCEPT !.left = rest]
                /\ busy' = IF rest = <<>> THEN {Waiting} ELSE {Listening}
        /\ Throws(fails)
        /\ UNCHANGED <<registered, session>>

\* The object ends, and the call returns.
CallReturns ==
    /\ event.call \in {"write", "page"} /\ event.left = <<>>
    /\ Touches(Writer \cup event.frees)
    /\ out' = ObjectEnded(out)
    /\ heap' = Freed(heap, event.frees)
    /\ wrappers' = wrappers \cup event.gives
    /\ event' = NoEvent /\ busy' = {}
    /\ UNCHANGED <<registered, session, thrown>>

\* A page's object and that of a form's resources, up to the first call of the listener:
\* k is the number of dictionaries, New(first) the outermost.
Begun(o, first, k) ==
    LET one == DictionaryStarted(ObjectStarted(o), New(first))
    IN  IF k = 1 THEN one ELSE DictionaryStarted(one, New(first + 1))
Left(first, k) == IF k = 1 THEN <<New(first)>> ELSE <<New(first + 1), New(first)>>
Dictionaries(k) == [i \in 1 .. k |-> Native("dictionary", None, {})]

-----------------------------------------------------------------------------
(* Pages and their contexts.                                               *)

CreatePage ==
    /\ IsFree /\ Room(1)
    /\ heap' = Created(heap, <<Native("page", None, {})>>)
    /\ wrappers' = wrappers \cup {Wrap("PDFPage", New(1), TRUE, None)}
    /\ UNCHANGED <<registered, session, dangling, thrown, out, busy, event>>

\* Boxes and rotation are read and set, and the dictionary of resources is wrapped.
UsePage(w) ==
    /\ Touches({w.native})
    /\ UNCHANGED <<heap, wrappers, registered, session, thrown, out, busy, event>>

\* A page has one context, which is started when it is asked for first.
StartPageContentContext(w) ==
    LET known == w.native \in Live /\ heap[w.native].of # None
        c == IF known THEN heap[w.native].of ELSE New(1)
        h == IF known THEN heap
             ELSE Created(heap, <<Native("pageContext", w.native, {})>>)
    IN  /\ IsFree /\ (known \/ Room(1))
        /\ w.owns \/ WritesBorrowedPages
        /\ Touches({w.native} \cup Writer)
        /\ heap' = [h EXCEPT ![w.native].of = c]
        /\ wrappers' = (wrappers \ {w}) \cup
               {[w EXCEPT !.also = c], Wrap("PageContentContext", c, FALSE, None)}
        /\ UNCHANGED <<registered, session, thrown, out, busy, event>>

GetAssociatedPage(x) ==
    /\ IsFree
    /\ Touches(Reach(x.native))
    /\ wrappers' = wrappers \cup {Wrap("PDFPage", heap[x.native].of, FALSE, None)}
    /\ UNCHANGED <<heap, registered, session, thrown, out, busy, event>>

\* The stream of a context is started when something is drawn.
StreamOf(c) == IF heap[c].parts = {} THEN New(1) ELSE CHOOSE s \in heap[c].parts : TRUE
StartAStreamIfRequired(c) ==
    IF heap[c].parts # {} THEN UNCHANGED <<heap, out>>
    ELSE /\ Room(1)
         /\ heap' = [Created(heap, <<Native("stream", None, {})>>) EXCEPT ![c].parts = {New(1)}]
         /\ out' = StreamStarted(ObjectStarted(out), New(1))

DrawOnPage(x) ==
    /\ IsFree /\ busy \subseteq {x.native}
    /\ Touches(Reach(x.native) \cup Writer)
    /\ StartAStreamIfRequired(x.native)
    /\ busy' = {x.native}
    /\ UNCHANGED <<wrappers, registered, session, thrown, event>>

GetCurrentPageContentStream(x) ==
    /\ IsFree /\ busy \subseteq {x.native}
    /\ Touches(Reach(x.native) \cup Writer)
    /\ StartAStreamIfRequired(x.native)
    /\ wrappers' = wrappers \cup {Wrap("PDFStream", StreamOf(x.native), FALSE, None)}
    /\ busy' = {x.native}
    /\ UNCHANGED <<registered, session, thrown, event>>

\* The stream of a context is finalized and deleted, if there is one.
Finalized(o, c) ==
    IF c = None \/ c \notin Live \/ heap[c].parts = {} THEN o ELSE StreamEnded(o, StreamOf(c))
StreamsOf(c) == IF c \in Live THEN heap[c].parts ELSE {}
WithoutStream(c) ==
    Freed([n \in Live |-> IF n = c THEN [heap[n] EXCEPT !.parts = {}] ELSE heap[n]], StreamsOf(c))

PausePageContentContext(x) ==
    /\ IsFree /\ busy \subseteq {x.native}
    /\ Touches(Reach(x.native) \cup Writer)
    /\ out' = Finalized(out, x.native)
    /\ heap' = WithoutStream(x.native)
    /\ wrappers' = wrappers \ About(StreamsOf(x.native))
    /\ busy' = {}
    /\ UNCHANGED <<registered, session, thrown, event>>

\* (mutant: the pointer to the context that ended stays)
Written_Keeps(w) == w
Written(w) == [w EXCEPT !.also = None]
\* (mutant: a context ends without its stream)
EndedIn_Open(o, w) == o
\* The output when a page's context, as the wrapper knows it, has ended.
EndedIn(o, w) == Finalized(o, w.also)

\* The context ends, the page forgets it and is written; what the program had of the
\* context is of no more use.
WritePageAndReturnID(w) ==
    LET c == w.also
        ended == IF c = None THEN {} ELSE {c} \cup StreamsOf(c)
        h == Freed([n \in Live |-> IF c # None /\ heap[n].of = c
                                   THEN [heap[n] EXCEPT !.of = None] ELSE heap[n]], ended)
    IN  /\ IsFree /\ Room(2)
        /\ w.owns \/ WritesBorrowedPages
        /\ \A b \in busy : b \in Live /\ heap[b].of = w.native /\ heap[b].kind = "pageContext"
        /\ Touches({w.native} \cup (IF c = None THEN {} ELSE Reach(c)) \cup Writer)
        /\ heap' = Created(h, Dictionaries(2))
        /\ out' = Begun(EndedIn(out, w), 1, 2)
        /\ wrappers' = (wrappers \ (About(ended) \cup {w})) \cup {Written(w), Handed(New(2))}
        /\ event' = Called("page", Left(1, 2), {}, {})
        /\ busy' = {Listening}
        /\ UNCHANGED <<registered, session, thrown>>

\* The pages of a file are merged into a page: its own stream is finalized, if it has
\* one, and another is written. Between two pages the program's function is called.
Merges(w) ==
    LET c == heap[w.native].of
    IN  /\ IsFree /\ busy \subseteq {c}
        /\ out' = WholeObject(Finalized(out, c))
        /\ heap' = WithoutStream(c)
        /\ wrappers' = wrappers \ About(StreamsOf(c))
        /\ busy' = {}
        /\ \E works \in Outcomes : Throws(~works)
        /\ UNCHANGED <<registered, session, event>>

MergePDFPagesToPage(w) ==
    /\ Touches(Reach(w.native) \cup Writer)
    /\ Merges(w)

-----------------------------------------------------------------------------
(* Forms, images, fonts and objects of other documents.                    *)

FormParts == <<Native("formContext", New(1), {}), Native("stream", New(1), {})>>

CreateFormXObject ==
    /\ IsFree /\ busy = {} /\ Room(3)
    /\ Touches(Writer)
    /\ heap' = Created(heap, <<Native("form", None, {New(2), New(3)})>> \o FormParts)
    /\ out' = StreamStarted(ObjectStarted(out), New(3))
    /\ wrappers' = wrappers \cup {Wrap("FormXObject", New(1), TRUE, None)}
    /\ busy' = {New(1)}
    /\ UNCHANGED <<registered, session, thrown, event>>

PartOf(f, kind) == CHOOSE p \in heap[f].parts : heap[p].kind = kind

\* A form's own identifier and resources.
UseForm(w) ==
    /\ Touches({w.native})
    /\ UNCHANGED <<heap, wrappers, registered, session, thrown, out, busy, event>>

GetContentContext(w) ==
    /\ IsFree /\ w.native \in busy
    /\ Touches({w.native})
    /\ wrappers' = wrappers \cup
           {Wrap("XObjectContentContext", PartOf(w.native, "formContext"), FALSE, None)}
    /\ UNCHANGED <<heap, registered, session, thrown, out, busy, event>>

GetContentStream(w) ==
    /\ IsFree /\ w.native \in busy
    /\ Touches({w.native})
    /\ wrappers' = wrappers \cup {Wrap("PDFStream", PartOf(w.native, "stream"), FALSE, None)}
    /\ UNCHANGED <<heap, registered, session, thrown, out, busy, event>>

\* An operator of a form's context; its stream exists from the start.
DrawOnForm(x) ==
    /\ IsFree /\ Top(out)[2] \in Reach(heap[x.native].of)
    /\ Touches(Reach(x.native) \cup Reach(heap[x.native].of) \cup Writer)
    /\ UNCHANGED <<heap, wrappers, registered, session, thrown, out, busy, event>>

\* The form's stream ends and its resources are written. The status is ignored.
EndFormXObject(w) ==
    /\ IsFree /\ w.native \in busy /\ Room(1)
    /\ Touches(Reach(w.native) \cup Writer)
    /\ heap' = Created(heap, Dictionaries(1))
    /\ out' = Begun(StreamEnded(out, PartOf(w.native, "stream")), 1, 1)
    /\ wrappers' = (wrappers \ About(heap[w.native].parts)) \cup {Handed(New(1))}
    /\ event' = Called("write", Left(1, 1), {}, {})
    /\ busy' = {Listening}
    /\ UNCHANGED <<registered, session, thrown>>

\* Objects are written as a whole, with a native that the call keeps and k dictionaries
\* that the listener is handed. "gives" is the class of the wrapper returned, if any.
WritesWhole(kind, k, gives) ==
    /\ IsFree /\ busy = {} /\ Room(1 + k)
    /\ \E works \in Outcomes :
          /\ Throws(~works)
          /\ IF works
             THEN /\ heap' = Created(heap, <<Native(kind, None, {})>> \o Dictionaries(k))
                  /\ out' = Begun(WholeObject(out), 2, k)
                  /\ wrappers' = wrappers \cup {Handed(New(1 + k))}
                  /\ event' = Called(IF kind = "page" THEN "page" ELSE "write", Left(2, k),
                                     IF gives = {} THEN {New(1)} ELSE {},
                                     {Wrap(class, New(1), TRUE, None) : class \in gives})
                  /\ busy' = {Listening}
             ELSE UNCHANGED <<heap, out, wrappers, event, busy>>
    /\ UNCHANGED <<registered, session>>

CreateFormXObjectFromJPG ==
    Touches(Writer) /\ WritesWhole("form", 1, {"FormXObject"})
CreateFormXObjectFromPNG ==
    Touches(Writer) /\ WritesWhole("form", 1, {"FormXObject"})
CreateFormXObjectFromTIFF ==
    Touches(Writer) /\ WritesWhole("form", 1, {"FormXObject"})
CreateFormXObjectsFromPDF ==
    Touches(Writer) /\ WritesWhole("form", 1, {})
AppendPDFPagesFromPDF ==
    Touches(Writer) /\ WritesWhole("page", 2, {})

CreateImageXObjectFromJPG ==
    /\ IsFree /\ busy = {} /\ Room(1)
    /\ Touches(Writer)
    /\ out' = WholeObject(out)
    /\ \E works \in Outcomes :
          /\ Throws(~works)
          /\ IF works
             THEN /\ heap' = Created(heap, <<Native("image", None, {})>>)
                  /\ wrappers' = wrappers \cup {Wrap("ImageXObject", New(1), TRUE, None)}
             ELSE UNCHANGED <<heap, wrappers>>
    /\ UNCHANGED <<registered, session, busy, event>>

UseImage(w) ==
    /\ Touches({w.native})
    /\ UNCHANGED <<heap, wrappers, registered, session, thrown, out, busy, event>>

\* A font is the document context's, which makes one for each file.
GetFontForFile ==
    LET f == IF Fonts = {} THEN New(1) ELSE CHOOSE f \in Fonts : TRUE
        h == IF Fonts = {} THEN Created(heap, <<Native("font", session.writer, {})>>) ELSE heap
    IN  /\ IsFree /\ (Fonts # {} \/ Room(1))
        /\ Touches(Writer)
        /\ \E works \in Outcomes :
              /\ Throws(~works)
              /\ IF works
                 THEN /\ heap' = [h EXCEPT ![session.writer].parts = @ \cup {f}]
                      /\ wrappers' = wrappers \cup {Wrap("UsedFont", f, FALSE, None)}
                 ELSE UNCHANGED <<heap, wrappers>>
        /\ UNCHANGED <<registered, session, out, busy, event>>

\* Metrics of a font and dimensions of a text.
UseFont(x) ==
    /\ Touches(Reach(x.native))
    /\ UNCHANGED <<heap, wrappers, registered, session, thrown, out, busy, event>>

\* The object of a link is written at once; the page written next refers to it.
AttachURLLinktoCurrentPage ==
    /\ IsFree /\ busy = {}
    /\ Touches(Writer)
    /\ out' = WholeObject(out)
    /\ \E works \in Outcomes : Throws(~works)
    /\ UNCHANGED <<heap, wrappers, registered, session, busy, event>>

\* The writer's parser and files are wrapped, not copied; a writer for streams has no files.
GetMember(class) ==
    /\ IsFree
    /\ class \in {"PDFReader", "InputFile"} => session.modifies
    /\ class \in {"InputFile", "OutputFile"} => heap[session.writer].parts \subseteq Fonts
    /\ wrappers' = wrappers \cup {Wrap(class, session.writer, FALSE, None)}
    /\ UNCHANGED <<heap, registered, session, dangling, thrown, out, busy, event>>
=============================================================================
