--------------------------- MODULE CopyingDrivers ---------------------------
(***************************************************************************)
(* Files of the program, documents that are parsed, the contexts that copy *)
(* from them into the document that is written, and the pages of a         *)
(* modified file.                                                          *)
(*                                                                         *)
(* A parser is a part of the copying context that made it. What it reads   *)
(* from is its part: the proxy of a stream, which belongs to the wrapper   *)
(* that made it, and not to the parser.                                    *)
(***************************************************************************)
EXTENDS PDFWriterDriver

CONSTANT OpensBorrowedFiles   \* whether the program opens files it was given by the writer

ASSUME CopyingAssumption == OpensBorrowedFiles \in BOOLEAN

-----------------------------------------------------------------------------
(* Files.                                                                  *)

\* The constructor opens a file if it has a path; a failure is not noticed.
NewFile(class) ==
    /\ class \in {"InputFile", "OutputFile"} /\ Room(2)
    /\ \E opens \in BOOLEAN :
          heap' = Created(heap, IF opens
                                THEN <<Native("file", None, {New(2)}), Native("fileStream", New(1), {})>>
                                ELSE <<Native("file", None, {})>>)
    /\ wrappers' = wrappers \cup {Wrap(class, New(1), TRUE, None)}
    /\ UNCHANGED <<registered, session, dangling, thrown, out, busy, event>>

\* The stream of what was open goes. The wrapper takes the file for its own from then
\* on, whoever made it, even if no stream opens.
OpenFile(w) ==
    LET closed == IF w.owns THEN StreamsOf(w.native) ELSE {}
    IN  /\ w.owns \/ OpensBorrowedFiles
        /\ Room(1)
        /\ Touches(Reach(w.native))
        /\ \E works \in Outcomes :
              /\ heap' = IF ~w.owns THEN heap
                         ELSE IF works
                         THEN [Created(Freed(heap, closed), <<Native("fileStream", w.native, {})>>)
                                  EXCEPT ![w.native].parts = {New(1)}]
                         ELSE WithoutStream(w.native)
              /\ Throws(~works)
        /\ wrappers' = (wrappers \ (About(closed) \cup {w})) \cup {[w EXCEPT !.owns = TRUE]}
        /\ UNCHANGED <<registered, session, out, busy, event>>

\* The streams that the program has of a file are of no more use once it is closed.
CloseFile(w) ==
    /\ w.owns
    /\ Touches(Reach(w.native))
    /\ heap' = WithoutStream(w.native)
    /\ wrappers' = wrappers \ About(StreamsOf(w.native))
    /\ UNCHANGED <<registered, session, thrown, out, busy, event>>

GetFileStream(w) ==
    /\ w.owns /\ StreamsOf(w.native) # {}
    /\ Touches({w.native})
    /\ wrappers' = wrappers \cup
           {Wrap(IF w.class = "InputFile" THEN "ByteReaderWithPosition" ELSE "ByteWriterWithPosition",
                 StreamOf(w.native), FALSE, None)}
    /\ UNCHANGED <<heap, registered, session, thrown, out, busy, event>>

UseFileStream(x) ==
    /\ Touches(Reach(x.native))
    /\ UNCHANGED <<heap, wrappers, registered, session, thrown, out, busy, event>>

-----------------------------------------------------------------------------
(* Readers.                                                                *)

\* A parser of a path or, with a proxy, of a stream.
CreateReader ==
    \E proxies \in {0, 1} :
        /\ Room(1 + proxies)
        /\ heap' = Created(heap, <<Native("parser", None, {New(1 + i) : i \in 1 .. proxies})>>
                                     \o [i \in 1 .. proxies |-> Native("proxy", None, {})])
        /\ \E works \in Outcomes :
              /\ wrappers' = wrappers \cup
                    {[Wrap("PDFReader", New(1), TRUE, IF proxies = 0 THEN None ELSE New(2))
                         EXCEPT !.held = works]}
              /\ Throws(~works)
        /\ UNCHANGED <<registered, session, dangling, out, busy, event>>

\* Objects are parsed, and given to the program with a count of their own.
ParseObjects(w) ==
    /\ Touches(Reach(w.native))
    /\ UNCHANGED <<heap, wrappers, registered, session, thrown, out, busy, event>>

\* What the parser knows, and objects that are looked up in others.
QueryReader(w) ==
    /\ Touches(Reach(w.native))
    /\ UNCHANGED <<heap, wrappers, registered, session, thrown, out, busy, event>>

\* A page that was parsed, or a reader of the decoded content of a stream, keeps the parser.
Derived(w, class) ==
    /\ Room(1)
    /\ Touches(Reach(w.native))
    /\ heap' = Created(heap, <<Native("derived", None, {w.native})>>)
    /\ wrappers' = wrappers \cup {Wrap(class, New(1), TRUE, None)}
    /\ UNCHANGED <<registered, session, thrown, out, busy, event>>

ParsePage(w) == Derived(w, "PDFPageInput")
StartReadingFromStream(w) == Derived(w, "ByteReader")

\* Boxes of a parsed page may be its parents', which are parsed then.
UsePageInput(w) ==
    /\ Touches(Reach(w.native))
    /\ UNCHANGED <<heap, wrappers, registered, session, thrown, out, busy, event>>

ReadDecoded(w) ==
    /\ Touches(Reach(w.native))
    /\ UNCHANGED <<heap, wrappers, registered, session, thrown, out, busy, event>>

\* The wrapper borrows the stream, which goes with the parser's owner.
GetParserStream(w) ==
    /\ Touches(Reach(w.native))
    /\ wrappers' = wrappers \cup {Wrap("ByteReaderWithPosition", w.native, FALSE, None)}
    /\ UNCHANGED <<heap, registered, session, thrown, out, busy, event>>

-----------------------------------------------------------------------------
(* Copying contexts.                                                       *)

\* From a path, from a stream of the program or, "given", from a parser of the program,
\* which must outlive the context. The context of a failure is deleted; the proxy not.
Copies(source, given) ==
    /\ IsFree /\ Room(3)
    /\ Touches(Writer \cup UNION {Reach(p) : p \in given})
    /\ \E works \in Outcomes :
          /\ Throws(~works)
          /\ IF works
             THEN /\ heap' = Created(heap,
                        CASE source = "path" ->
                               <<Native("copying", session.writer, {New(2)}),
                                 Native("parser", New(1), {})>>
                          [] source = "stream" ->
                               <<Native("copying", session.writer, {New(2)}),
                                 Native("parser", New(1), {New(3)}), Native("proxy", None, {})>>
                          [] source = "parser" ->
                               <<Native("copying", session.writer, given)>>)
                  /\ wrappers' = wrappers \cup
                        {Wrap("DocumentCopyingContext", New(1), TRUE,
                              IF source = "stream" THEN New(3) ELSE None)}
                  /\ registered' = registered \cup {New(1)}
             ELSE /\ heap' = IF source = "stream"
                             THEN Created(heap, <<Native("proxy", None, {})>>) ELSE heap
                  /\ UNCHANGED <<wrappers, registered>>
    /\ UNCHANGED <<session, out, busy, event>>

CreatePDFCopyingContext ==
    \/ Copies("path", {})
    \/ Copies("stream", {})
    \/ \E r \in Of("PDFReader") : Copies("parser", {r.native})

\* The parser is the writer's own.
CreatePDFCopyingContextForModifiedFile ==
    session.modifies /\ Copies("parser", {session.writer})

Copying(x) == Touches(Reach(x.native) \cup Writer)

CreateFormXObjectFromPDFPage(x) ==
    Copying(x) /\ WritesWhole("form", 1, {})

AppendPDFPageFromPDF(x) ==
    Copying(x) /\ WritesWhole("page", 2, {})

MergePDFPageToPage(x, w) ==
    /\ Touches(Reach(x.native) \cup Reach(w.native) \cup Writer)
    /\ Merges(w)

\* The content is written in the form's stream. The resources are copied when the form
\* ends, by tasks that keep the context until then.
MergePDFPageToFormXObject(x, f) ==
    /\ IsFree /\ f.native \in busy
    /\ Touches(Reach(x.native) \cup Reach(f.native) \cup Writer)
    /\ \E works \in Outcomes : Throws(~works)
    /\ heap' = [heap EXCEPT ![f.native].parts = @ \cup {x.native}]
    /\ UNCHANGED <<wrappers, registered, session, out, busy, event>>

GetSourceDocumentParser(x) ==
    /\ Touches({x.native})
    /\ wrappers' = wrappers \cup
           {Wrap("PDFReader", p, FALSE, None) : p \in heap[x.native].parts}
    /\ UNCHANGED <<heap, registered, session, thrown, out, busy, event>>

\* An object and what it refers to, as objects of the document.
CopyObject(x) ==
    /\ IsFree /\ busy = {}
    /\ Copying(x)
    /\ out' = WholeObject(out)
    /\ \E works \in Outcomes : Throws(~works)
    /\ UNCHANGED <<heap, wrappers, registered, session, busy, event>>

\* Objects that a direct object referred to.
CopyNewObjectsForDirectObject(x) == CopyObject(x)

\* A value, as it is or with the references that a later copy resolves.
CopyDirectObject(x) ==
    /\ IsWriting /\ Top(out)[1] # "stream"
    /\ Copying(x)
    /\ \E works \in Outcomes : Throws(~works)
    /\ UNCHANGED <<heap, wrappers, registered, session, out, busy, event>>

\* The identifiers of copies are asked for and set.
UseCopiedObjects(x) ==
    /\ Touches({x.native})
    /\ UNCHANGED <<heap, wrappers, registered, session, thrown, out, busy, event>>

\* The stream that the parser reads, in a wrapper for streams that are written.
GetSourceDocumentStream(x) ==
    /\ Touches({x.native})
    /\ wrappers' = wrappers \cup
           {Wrap("ByteWriterWithPosition", p, FALSE, None) : p \in heap[x.native].parts}
    /\ UNCHANGED <<heap, registered, session, thrown, out, busy, event>>

-----------------------------------------------------------------------------
(* Pages of the modified file. The forms of a modifier that ended are      *)
(* counted as a part of it.                                                *)

NewModifier ==
    /\ IsFree /\ session.modifies /\ Room(1)
    /\ heap' = Created(heap, <<Native("modifier", session.writer, {})>>)
    /\ wrappers' = wrappers \cup {Wrap("PDFPageModifier", New(1), TRUE, None)}
    /\ UNCHANGED <<registered, session, dangling, thrown, out, busy, event>>

\* A modifier has one form at a time, which is a new one if there is none, for the page
\* that is parsed then.
StartContext(w) ==
    /\ IsFree /\ busy \subseteq {w.native}
    /\ Touches(Reach(w.native) \cup Writer)
    /\ \E works \in Outcomes :
          /\ Throws(busy = {} /\ ~works)
          /\ IF busy = {} /\ works
             THEN /\ Room(2)
                  /\ heap' = [Created(heap, <<Native("formContext", w.native, {}),
                                              Native("stream", w.native, {})>>)
                                 EXCEPT ![w.native].parts = {New(1), New(2)}]
                  /\ out' = StreamStarted(ObjectStarted(out), New(2))
                  /\ busy' = {w.native}
             ELSE UNCHANGED <<heap, out, busy>>
    /\ UNCHANGED <<wrappers, registered, session, event>>

\* An exception if there is none.
GetContext(w) ==
    /\ IsFree /\ w.native \in busy
    /\ Touches(Reach(w.native))
    /\ wrappers' = wrappers \cup
           {Wrap("XObjectContentContext", PartOf(w.native, "formContext"), FALSE, None)}
    /\ UNCHANGED <<heap, registered, session, thrown, out, busy, event>>

\* The form ends as one of the program does, and the call goes on or returns.
Ends(w, call) ==
    LET h == [Freed(heap, heap[w.native].parts) EXCEPT ![w.native].parts = {}]
    IN  /\ Room(1)
        /\ heap' = Created(h, Dictionaries(1))
        /\ out' = Begun(StreamEnded(out, PartOf(w.native, "stream")), 1, 1)
        /\ wrappers' = (wrappers \ About(heap[w.native].parts)) \cup {Handed(New(1))}
        /\ event' = Called(call, Left(1, 1), {}, {})
        /\ busy' = {Listening}
        /\ UNCHANGED <<registered, session, thrown>>

EndContext(w) ==
    /\ IsFree /\ busy \subseteq {w.native}
    /\ Touches(Reach(w.native) \cup Writer)
    /\ IF busy # {} THEN Ends(w, "write")
       ELSE UNCHANGED <<heap, wrappers, registered, session, thrown, out, busy, event>>

\* A form that did not end ends first, with a call of the listener.
WriteModifiedPage(w) ==
    /\ IsFree /\ busy \subseteq {w.native}
    /\ Touches(Reach(w.native) \cup Writer)
    /\ IF busy # {} THEN Ends(w, "modify")
       ELSE /\ out' = WholeObject(out)
            /\ \E works \in Outcomes : Throws(~works)
            /\ UNCHANGED <<heap, wrappers, registered, session, busy, event>>

\* The form has ended, and the page that refers to it is written.
PageFollows ==
    /\ event.call = "modify" /\ event.left = <<>>
    /\ Touches(Writer)
    /\ out' = WholeObject(ObjectEnded(out))
    /\ \E works \in Outcomes : Throws(~works)
    /\ event' = NoEvent /\ busy' = {}
    /\ UNCHANGED <<heap, wrappers, registered, session>>

AttachURLLinkToModifiedPage(w) ==
    /\ Touches(Reach(w.native) \cup Writer)
    /\ IsFree /\ busy = {}
    /\ out' = WholeObject(out)
    /\ \E works \in Outcomes : Throws(~works)
    /\ UNCHANGED <<heap, wrappers, registered, session, busy, event>>
=============================================================================
