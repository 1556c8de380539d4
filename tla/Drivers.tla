------------------------------ MODULE Drivers ------------------------------
(***************************************************************************)
(* The drivers that the program calls, together. What the program is       *)
(* trusted with, as the tests and the samples do:                          *)
(*                                                                         *)
(*   - it pauses or ends a context before it writes anything else, ends    *)
(*     what it starts before it ends the writer, and closes the arrays it  *)
(*     opens in a dictionary;                                              *)
(*   - when it is called to complete a dictionary, it writes in the        *)
(*     innermost one, starts no object, and ends only what it starts, not  *)
(*     the dictionary that it was handed;                                  *)
(*   - it uses nothing of what has ended: a context or stream of a page    *)
(*     that was written, a dictionary, a font once the writer has ended;   *)
(*   - it keeps a wrapper while something it uses needs it: the writer for *)
(*     all that it gave, a reader for what was parsed, a copying context   *)
(*     for a form that pages were merged into;                             *)
(*   - it gives up when there is an exception.                             *)
(*                                                                         *)
(* Everything else, and when the collector runs, is left open: a program   *)
(* that does not nest may return from such a call with dictionaries of its *)
(* own open.                                                               *)
(***************************************************************************)
EXTENDS CopyingDrivers

\* Bounds: the kinds of calls that one program combines, and how many objects and
\* wrappers there are at a time.
CONSTANT Programs

ASSUME ProgramsAssumption ==
    \A p \in Programs :
        p.natives \in 0 .. MaxNatives /\ p.wrappers \in Nat /\ p.nests \in BOOLEAN

VARIABLE program

vars == <<heap, wrappers, registered, session, dangling, thrown, out, busy, event, program>>

Init ==
    /\ heap = [n \in {} |-> Native("none", None, {})]
    /\ wrappers = {} /\ registered = {}
    /\ session = [writer |-> None, state |-> "none", modifies |-> FALSE]
    /\ dangling = FALSE /\ thrown = FALSE
    /\ out = [open |-> <<>>, sound |-> TRUE] /\ busy = {} /\ event = NoEvent
    /\ program \in Programs

\* A wrapper that is not needed any more.
MayLetGo(w) ==
    /\ ~IsNeeded(w)
    /\ \/ thrown
       \/ /\ w.class = "PDFWriter" => busy = {} /\ event = NoEvent
          /\ w.class = "PDFPage" => w.also = None
          /\ w.owns => w.native \notin busy \cup {x[2] : x \in Range(out.open)}

LetGoOf(w) ==
    /\ w.held /\ MayLetGo(w)
    /\ wrappers' = LetGo({w})
    /\ UNCHANGED <<heap, registered, session, dangling, thrown, out, busy, event>>

Collect(w) ==
    /\ \/ CollectWriter(w) \/ CollectCopyingContext(w) \/ CollectOther(w)
    /\ UNCHANGED <<out, busy, event>>

WritesObjects ==
    /\ \/ StartNewIndirectObject \/ EndIndirectObject
       \/ StartDictionary \/ StartArray \/ EndArray \/ WriteToken \/ StartPDFStream
       \/ \E x \in Of("DictionaryContext") :
             EndDictionary(x) \/ WriteInDictionary(x) \/ StartPDFStreamWith(x)
       \/ \E x \in Of("PDFStream") : WriteInStream(x) \/ EndPDFStream(x)
    /\ UNCHANGED event

DrawsPages ==
    \/ CreatePage
    \/ \E w \in Of("PDFPage") :
          UsePage(w) \/ StartPageContentContext(w) \/ WritePageAndReturnID(w) \/ MergePDFPagesToPage(w)
    \/ \E x \in Of("PageContentContext") :
          \/ GetAssociatedPage(x) \/ DrawOnPage(x)
          \/ GetCurrentPageContentStream(x) \/ PausePageContentContext(x)
    \/ AppendPDFPagesFromPDF \/ AttachURLLinktoCurrentPage

DrawsForms ==
    \/ CreateFormXObject
    \/ \E w \in Of("FormXObject") :
          UseForm(w) \/ GetContentContext(w) \/ GetContentStream(w) \/ EndFormXObject(w)
    \/ \E x \in Of("XObjectContentContext") : DrawOnForm(x)
    \/ CreateFormXObjectsFromPDF

UsesImages ==
    \/ CreateFormXObjectFromJPG \/ CreateFormXObjectFromPNG \/ CreateFormXObjectFromTIFF
    \/ CreateImageXObjectFromJPG \/ \E w \in Of("ImageXObject") : UseImage(w)
    \/ GetFontForFile \/ \E x \in Of("UsedFont") : UseFont(x)

UsesFiles ==
    \/ \E class \in {"InputFile", "OutputFile"} : NewFile(class)
    \/ \E w \in Of("InputFile") \cup Of("OutputFile") : OpenFile(w) \/ CloseFile(w) \/ GetFileStream(w)
    \/ \E x \in Of("ByteReaderWithPosition") \cup Of("ByteWriterWithPosition") : UseFileStream(x)
    \/ \E class \in {"InputFile", "OutputFile"} : GetMember(class)

Reads ==
    \/ CreateReader \/ GetMember("PDFReader")
    \/ \E w \in Of("PDFReader") : ParseObjects(w) \/ QueryReader(w)

Parses ==
    \/ \E w \in Of("PDFReader") : ParsePage(w) \/ StartReadingFromStream(w) \/ GetParserStream(w)
    \/ \E w \in Of("PDFPageInput") : UsePageInput(w)
    \/ \E w \in Of("ByteReader") : ReadDecoded(w)

CopiesObjects ==
    \/ CreatePDFCopyingContext \/ CreatePDFCopyingContextForModifiedFile
    \/ \E x \in Of("DocumentCopyingContext") :
          \/ CreateFormXObjectFromPDFPage(x) \/ AppendPDFPageFromPDF(x)
          \/ \E w \in Of("PDFPage") : MergePDFPageToPage(x, w)
          \/ \E f \in Of("FormXObject") : MergePDFPageToFormXObject(x, f)
          \/ GetSourceDocumentParser(x) \/ GetSourceDocumentStream(x)
          \/ CopyObject(x) \/ CopyNewObjectsForDirectObject(x)
          \/ CopyDirectObject(x) \/ UseCopiedObjects(x)

ModifiesPages ==
    \/ NewModifier
    \/ \E w \in Of("PDFPageModifier") :
          \/ StartContext(w) \/ GetContext(w) \/ EndContext(w)
          \/ WriteModifiedPage(w) \/ AttachURLLinkToModifiedPage(w)
    \/ \E x \in Of("XObjectContentContext") : DrawOnForm(x)

Calls ==
    \/ CreateWriter \/ CreateWriterToContinue \/ CreateWriterToModify
    \/ Shutdown \/ End \/ FinishEnd \/ CallReturns \/ PageFollows
    \/ (program.nests => ListenerIsDone) /\ ListenerReturns
    \/ "objects" \in program.calls /\ WritesObjects
    \/ "pages" \in program.calls /\ DrawsPages
    \/ "forms" \in program.calls /\ DrawsForms
    \/ "images" \in program.calls /\ UsesImages
    \/ "files" \in program.calls /\ UsesFiles
    \/ "reading" \in program.calls /\ Reads
    \/ "parsing" \in program.calls /\ Parses
    \/ "copying" \in program.calls /\ CopiesObjects
    \/ "modifying" \in program.calls /\ ModifiesPages

Next ==
    /\ ~dangling
    /\ \/ ~thrown /\ Calls
       \/ \E w \in wrappers : LetGoOf(w) \/ Collect(w)
    /\ DOMAIN heap' \subseteq 1 .. program.natives
    /\ Cardinality(wrappers') <= program.wrappers
    /\ UNCHANGED program

Spec == Init /\ [][Next]_vars

-----------------------------------------------------------------------------
(* Properties.                                                             *)

\* No call of the program, and no destructor that the collector runs, whatever its
\* order, uses or deletes an object that does not exist any more.
NoDanglingUse == ~dangling

\* What the program writes and what the library writes follow each other in the file as
\* whole objects, with streams and dictionaries properly within each other, and nothing
\* is open when the writer has ended: if the program nests what it writes for the
\* dictionaries it is handed.
OutputNests ==
    program.nests /\ ~thrown => out.sound /\ (session.state = "over" => out.open = <<>>)

\* When the collector has taken the last wrapper, every object is deleted, unless a call
\* failed or the program left dictionaries open.
NothingLeaks == program.nests /\ wrappers = {} /\ ~thrown => Live = {}
=============================================================================
