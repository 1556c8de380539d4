--------------------------- MODULE DocumentContext ---------------------------
(***************************************************************************)
(* PDFWriter and DocumentContext: the life of a document, object by        *)
(* object.  A PDFWriter starts a document or modifies one, the client      *)
(* draws on pages and forms, the document may be shut down and continued   *)
(* in another process, and is ended or given up; then the same PDFWriter   *)
(* may start the next.                                                     *)
(*                                                                         *)
(* What is drawn may need an object that is only written later: an image   *)
(* or an opacity takes its ID when it is first used, and a task writes it  *)
(* when the page, or the form, it was first used on is written.            *)
(*                                                                         *)
(* The file is a sequence of indirect objects; what is inside an object is *)
(* the business of ObjectsContext.  The tree of the pages has one node     *)
(* here, PageTree has the rest of it.  The client opens one stream at a    *)
(* time and writes nothing else meanwhile, ending (pausing) it first.      *)
(***************************************************************************)
EXTENDS IndirectObjectsRegistry, SequencesExt, FiniteSetsExt

CONSTANTS
    PageObjects,         \* the addresses of the client's PDFPage instances
    Images,              \* the image files it draws
    Opacities,           \* the alpha values it sets
    Clients              \* bound: what one client does, see IsClient

\* What a client may do: the kinds of its documents, by number; the images and
\* opacities it draws; and how many documents it makes with one PDFWriter, entries of
\* the registry (the ending's aside), pages at a time, links and forms of a document,
\* restarts and failures of its callbacks and images there are at most.
IsClient(c) ==
    /\ c.new \cup c.modified \cup c.encrypted \subseteq Nat
    /\ c.images \subseteq Images /\ c.opacities \subseteq Opacities
    /\ {c.documents, c.objects, c.pages, c.annotations, c.forms, c.restarts, c.failures}
           \subseteq Nat

ASSUME DocumentAssumption == \A c \in Clients : IsClient(c)

\* A form, see Form, is no PDFPage.
ASSUME SurfacesAssumption == "form" \notin PageObjects

VARIABLES
    phase,          \* "closed", "open", or "crashed" once freed memory was used
    documents,      \* the number of the document
    registry,       \* mReferencesRegistry
    file,           \* the indirect objects written to the document
    pages,          \* the client's PDFPage instances
    form,           \* the form that was started and not ended
    stream,         \* the content stream that is open
    isModified, modifiedIDExists,    \* mIsModified, mModifiedDocumentIDExists
    tree, kids,     \* the node of mCatalogInformation's tree, and its pages
    annotations,    \* mAnnotations
    trailer,        \* mTrailerInformation
    newPDFID,       \* mNewPDFID, an ID being named by the document it was made for
    imageIDs,       \* mImagesInformation
    opacityIDs,     \* mAlphaExtGstates
    endTasks,       \* mPageEndTasks and mFormEndTasks: images to write
    moreEndTasks,   \* mMorePageEndTasks and mMoreFormEndTasks: opacities to write
    helper,         \* mEncryptionHelper, and whether the ObjectsContext uses it
    result,         \* history: what EndPDF returned and wrote last
    lost,           \* history: the objects no task will write any more
    forms,          \* history: the forms of the document
    restarts, failures,
    client          \* the client, one of Clients

document == <<registry, file, tree, kids, annotations, trailer>>
drawing == <<pages, form, stream, imageIDs, opacityIDs, endTasks, moreEndTasks>>
identity == <<isModified, modifiedIDExists, newPDFID, documents>>
history == <<result, lost, forms, restarts, failures>>
vars == <<phase, document, drawing, identity, helper, history, client>>

NoID == 0       \* 0 is never the ID of an object in use
Form == "form"  \* the surface that a form is; the others are PDFPages
Surfaces == PageObjects \cup {Form}
NoStream == [owner |-> Form, length |-> NoID]
NoForm == [id |-> NoID, resources |-> NoID, xobjects |-> {}, gstates |-> {}]
NewPDFPage == [contents |-> <<>>, xobjects |-> {}, gstates |-> {}]
NewTrailer == [root |-> NoID, encrypt |-> NoID, info |-> NoID,
               created |-> "unset", modified |-> "unset"]
NoResult == [status |-> "none", xref |-> <<>>, root |-> NoID, encrypt |-> NoID,
             id |-> <<0, 0>>]

\* The keys of streams: the ID the key was made from, or one of these.
Plain == 0
EmptyKey == -1

\* The ID of a modified file is a number no document has.
OriginalID == client.documents + 1
-----------------------------------------------------------------------------
(***************************************************************************)
(* Writing objects: operators on a writer, a registry with a file.  A      *)
(* reference says what the object it names is to be used as.               *)
(***************************************************************************)
W == [registry |-> registry, file |-> file]

NextID(w) == GetObjectsCount(w.registry)
Allocate(w) == [w EXCEPT !.registry = AllocateNewObjectID(@)]

Object(id, kind, refs, kidList) ==
    [id |-> id, kind |-> kind, refs |-> refs, kids |-> kidList, key |-> Plain,
     whole |-> TRUE]

Refs(role, ids) == {<<role, id>> : id \in ids}

WriteAt(w, object) ==
    [registry |-> MarkObjectAsWritten(w.registry, object.id, Len(w.file)),
     file |-> Append(w.file, object)]

WriteNew(w, kind, refs) ==
    WriteAt(Allocate(w), Object(NextID(w), kind, refs, <<>>))

WriteModified(w, object) ==
    [registry |-> MarkObjectAsUpdated(w.registry, object.id, Len(w.file)),
     file |-> Append(w.file, object)]

Become(w) == registry' = w.registry /\ file' = w.file
-----------------------------------------------------------------------------
(***************************************************************************)
(* The file being modified: a catalog, a tree of one page, and maybe an    *)
(* encryption dictionary.                                                  *)
(***************************************************************************)
OriginalFile(encrypted) ==
    << Object(1, "catalog", Refs("Pages", {2}), <<>>),
       Object(2, "pages", {}, <<3>>),
       Object(3, "page", Refs("Parent", {2}), <<>>) >>
    \o IF encrypted THEN <<Object(4, "encrypt", {}, <<>>)>> ELSE <<>>

OriginalXref(originals) ==
    [i \in 1 .. Len(originals) |->
        [type |-> "Existing", position |-> i - 1, revision |-> 0]]

\* The objects of the file being modified that the file starts with.
OriginalObjects ==
    IF ~isModified THEN <<>>
    ELSE SubSeq(file, 1, IF documents \in client.encrypted THEN 4 ELSE 3)
-----------------------------------------------------------------------------
(***************************************************************************)
(* The encryption helper.  mXcrypts keeps the one it has when another is   *)
(* inserted, and is told of the objects; streams are encrypted with the    *)
(* one that was set up last.                                               *)
(***************************************************************************)
NoHelper == [encrypted |-> FALSE, attached |-> FALSE, pauseLevel |-> 0,
             xcrypts |-> FALSE, streamsListed |-> FALSE, key |-> Plain]

Setup_ListsOld(h, key) ==
    [h EXCEPT !.encrypted = TRUE, !.attached = TRUE, !.xcrypts = TRUE, !.key = key]
Setup(h, key) ==
    [h EXCEPT !.encrypted = TRUE, !.attached = TRUE, !.xcrypts = TRUE,
              !.streamsListed = ~h.xcrypts, !.key = key]

IsEncrypting == helper.attached /\ helper.encrypted /\ helper.pauseLevel = 0

StreamKey ==
    IF ~IsEncrypting THEN Plain
    ELSE IF helper.streamsListed THEN helper.key ELSE EmptyKey

ChangePauseLevel(n) ==
    helper' = IF helper.attached THEN [helper EXCEPT !.pauseLevel = @ + n] ELSE helper

PauseEncryption == ChangePauseLevel(1)

ReleaseEncryption == ChangePauseLevel(-1)
-----------------------------------------------------------------------------
Init ==
    /\ phase = "closed" /\ documents = 0
    /\ registry = EmptyRegistry /\ file = <<>>
    /\ pages = [p \in PageObjects |-> NewPDFPage]
    /\ form = NoForm /\ stream = NoStream
    /\ isModified = FALSE /\ modifiedIDExists = FALSE
    /\ tree = NoID /\ kids = <<>> /\ annotations = {}
    /\ trailer = NewTrailer /\ newPDFID = 0
    /\ imageIDs = [i \in Images |-> NoID] /\ opacityIDs = [a \in Opacities |-> NoID]
    /\ endTasks = [s \in Surfaces |-> <<>>] /\ moreEndTasks = [s \in Surfaces |-> <<>>]
    /\ helper = NoHelper
    /\ result = NoResult /\ lost = {} /\ forms = {} /\ restarts = 0 /\ failures = 0
    /\ client \in Clients

\* A new document; the client makes itself new pages.
NextDocument ==
    /\ phase = "closed" /\ documents < client.documents
    /\ phase' = "open"
    /\ documents' = documents + 1
    /\ pages' = [p \in PageObjects |-> NewPDFPage]
    /\ form' = NoForm /\ stream' = NoStream
    /\ result' = NoResult /\ lost' = {} /\ forms' = {}
    /\ UNCHANGED <<tree, kids, annotations, imageIDs, opacityIDs, endTasks, moreEndTasks,
                   restarts, failures>>

StartPDF ==
    /\ NextDocument
    /\ documents' \in client.new
    /\ IF documents' \in client.encrypted
       THEN newPDFID' = documents' /\ helper' = Setup(helper, documents')
       ELSE UNCHANGED <<newPDFID, helper>>
    /\ file' = <<>>
    /\ isModified' = FALSE
    /\ UNCHANGED <<registry, trailer, modifiedIDExists>>

ModifyPDF ==
    /\ NextDocument
    /\ documents' \in client.modified
    /\ LET encrypted == documents' \in client.encrypted
           originals == OriginalFile(encrypted)
       IN
       /\ file' = originals
       /\ registry' = SetupXrefFromModifiedFile(registry, OriginalXref(originals))
       /\ helper' = IF encrypted THEN Setup(helper, OriginalID) ELSE helper
    /\ trailer' = [trailer EXCEPT !.root = 1, !.modified = "now"]
    /\ isModified' = TRUE /\ modifiedIDExists' = TRUE
    /\ UNCHANGED newPDFID
-----------------------------------------------------------------------------
Idle == phase = "open" /\ stream = NoStream

HasRoomFor(n) == GetObjectsCount(registry) + n <= client.objects

SetCreationDate ==
    /\ Idle
    /\ trailer' = [trailer EXCEPT !.created = "before"]
    /\ UNCHANGED <<phase, registry, file, tree, kids, annotations, drawing, identity,
                   helper, history>>

\* The first operator of a page's content context starts a content stream.
StartContentStream(p) ==
    /\ Idle /\ HasRoomFor(2)
    /\ LET id == NextID(W)
           length == id + 1
           content == [Object(id, "content", Refs("Length", {length}), <<>>)
                          EXCEPT !.key = StreamKey]
       IN
       /\ Become(Allocate(WriteAt(Allocate(W), content)))
       /\ pages' = [pages EXCEPT ![p].contents = Append(@, id)]
       /\ stream' = [owner |-> p, length |-> length]
    /\ PauseEncryption
    /\ UNCHANGED <<phase, tree, kids, annotations, trailer, form, imageIDs, opacityIDs,
                   endTasks, moreEndTasks, identity, history>>

WriteLength(w) == WriteAt(w, Object(stream.length, "length", {}, <<>>))

\* PausePageContentContext and EndPageContentContext
EndContentStream ==
    /\ phase = "open" /\ stream.owner \in PageObjects
    /\ Become(WriteLength(W))
    /\ stream' = NoStream
    /\ ReleaseEncryption
    /\ UNCHANGED <<phase, tree, kids, annotations, trailer, pages, form, imageIDs,
                   opacityIDs, endTasks, moreEndTasks, identity, history>>

\* An operator that names a resource puts it in the dictionary of its surface.
AddXObject(s, id) ==
    IF s = Form
    THEN form' = [form EXCEPT !.xobjects = @ \cup {id}] /\ UNCHANGED pages
    ELSE pages' = [pages EXCEPT ![s].xobjects = @ \cup {id}] /\ UNCHANGED form

AddExtGState(s, id) ==
    IF s = Form
    THEN form' = [form EXCEPT !.gstates = @ \cup {id}] /\ UNCHANGED pages
    ELSE pages' = [pages EXCEPT ![s].gstates = @ \cup {id}] /\ UNCHANGED form

\* The first one to use it schedules it.
Scheduled(tasks, s, id) == [tasks EXCEPT ![s] = Append(@, [id |-> id, freed |-> FALSE])]

Drawing(s) == phase = "open" /\ stream # NoStream /\ stream.owner = s

RegisterImage(image) == imageIDs[image] = NoID

DrawImage(s, image) ==
    /\ Drawing(s)
    /\ IF RegisterImage(image)
       THEN /\ HasRoomFor(1)
            /\ Become(Allocate(W))
            /\ imageIDs' = [imageIDs EXCEPT ![image] = NextID(W)]
            /\ endTasks' = Scheduled(endTasks, s, NextID(W))
       ELSE UNCHANGED <<registry, file, imageIDs, endTasks>>
    /\ AddXObject(s, imageIDs'[image])
    /\ UNCHANGED <<phase, tree, kids, annotations, trailer, stream, opacityIDs,
                   moreEndTasks, identity, helper, history>>

SetOpacity(s, alpha) ==
    /\ Drawing(s)
    /\ IF opacityIDs[alpha] = NoID
       THEN /\ HasRoomFor(1)
            /\ Become(Allocate(W))
            /\ opacityIDs' = [opacityIDs EXCEPT ![alpha] = NextID(W)]
            /\ moreEndTasks' = Scheduled(moreEndTasks, s, NextID(W))
       ELSE UNCHANGED <<registry, file, opacityIDs, moreEndTasks>>
    /\ AddExtGState(s, opacityIDs'[alpha])
    /\ UNCHANGED <<phase, tree, kids, annotations, trailer, stream, imageIDs, endTasks,
                   identity, helper, history>>

\* The ID of a form is known, and may be drawn, before the form is started.
AllocateForm ==
    /\ phase = "open" /\ Cardinality(forms) < client.forms /\ HasRoomFor(1)
    /\ Become(Allocate(W))
    /\ forms' = forms \cup {NextID(W)}
    /\ UNCHANGED <<phase, tree, kids, annotations, trailer, drawing, identity, helper,
                   result, lost, restarts, failures>>

DrawForm(p, id) ==
    /\ Drawing(p)
    /\ pages' = [pages EXCEPT ![p].xobjects = @ \cup {id}]
    /\ UNCHANGED <<phase, document, form, stream, imageIDs, opacityIDs, endTasks,
                   moreEndTasks, identity, helper, history>>

IsUnwritten(id) ==
    GetNthObjectReference(registry, id).type = "Used"
        /\ ~GetNthObjectReference(registry, id).written

StartFormXObject(id) ==
    /\ Idle /\ HasRoomFor(2) /\ IsUnwritten(id)
    /\ LET resources == NextID(W)
           length == resources + 1
           object == [Object(id, "form", Refs("Resources", {resources})
                                             \cup Refs("Length", {length}), <<>>)
                         EXCEPT !.key = StreamKey]
       IN
       /\ Become(Allocate(Allocate(WriteAt(W, object))))
       /\ form' = [NoForm EXCEPT !.id = id, !.resources = resources]
       /\ stream' = [owner |-> Form, length |-> length]
    /\ PauseEncryption
    /\ UNCHANGED <<phase, tree, kids, annotations, trailer, pages, imageIDs, opacityIDs,
                   endTasks, moreEndTasks, identity, history>>
-----------------------------------------------------------------------------
(***************************************************************************)
(* End tasks.  They run in order until one fails, and are then discarded.  *)
(* n of them succeed; the opacities' never fail, and stay where they are   *)
(* when an image failed.                                                   *)
(***************************************************************************)
WriteTasks(w, tasks, n, kind) ==
    LET after[k \in 0 .. n] ==
          IF k = 0 THEN w ELSE WriteAt(after[k - 1], Object(tasks[k].id, kind, {}, <<>>))
    IN after[n]

TasksWritten_ImagesOnly(w, s, n) == WriteTasks(w, endTasks[s], n, "image")
TasksWritten(w, s, n) ==
    LET images == WriteTasks(w, endTasks[s], n, "image") IN
    IF n < Len(endTasks[s]) THEN images
    ELSE WriteTasks(images, moreEndTasks[s], Len(moreEndTasks[s]), "gstate")

TaskIDs(tasks) == {tasks[k].id : k \in 1 .. Len(tasks)}

Discarded_Keeps(tasks, s) == tasks
Discarded(tasks, s) == [tasks EXCEPT ![s] = <<>>]

RunTasks(s, n) ==
    /\ n < Len(endTasks[s]) => failures < client.failures
    /\ endTasks' = Discarded(endTasks, s)
    /\ moreEndTasks' = IF n < Len(endTasks[s]) THEN moreEndTasks
                       ELSE Discarded(moreEndTasks, s)
    /\ lost' = lost \cup TaskIDs(SubSeq(endTasks[s], n + 1, Len(endTasks[s])))
    /\ failures' = IF n < Len(endTasks[s]) THEN failures + 1 ELSE failures

\* Running, or deleting, a task that was deleted may end the process.
FreedTasks(s) == \E k \in 1 .. Len(moreEndTasks[s]) : moreEndTasks[s][k].freed
CrashesOn(surfaces) == IF \E s \in surfaces : FreedTasks(s) THEN {"crashed"} ELSE {}

EndFormXObject(n) ==
    /\ Drawing(Form)
    /\ LET resources == Object(form.resources, "resources",
                               Refs("XObject", form.xobjects)
                                   \cup Refs("ExtGState", form.gstates), <<>>)
       IN Become(TasksWritten(WriteAt(WriteLength(W), resources), Form, n))
    /\ RunTasks(Form, n)
    /\ form' = NoForm /\ stream' = NoStream
    /\ ReleaseEncryption
    /\ UNCHANGED <<phase, tree, kids, annotations, trailer, pages, imageIDs, opacityIDs,
                   identity, result, forms, restarts>>

AttachURLLinktoCurrentPage ==
    /\ Idle /\ HasRoomFor(1)
    /\ Cardinality({k \in 1 .. Len(file) : file[k].kind = "annotation"}) < client.annotations
    /\ Become(WriteNew(W, "annotation", {}))
    /\ annotations' = annotations \cup {NextID(W)}
    /\ UNCHANGED <<phase, tree, kids, trailer, drawing, identity, helper, history>>
-----------------------------------------------------------------------------
(***************************************************************************)
(* WritePage.  The page is put in the tree as soon as it has an ID.        *)
(***************************************************************************)
TreeAfter_Unset(w) == tree
TreeAfter(w) == IF tree = NoID THEN NextID(w) ELSE tree

StartPage == Allocate(W)
PageStarted == IF tree = NoID THEN Allocate(StartPage) ELSE StartPage

PageObject(p) ==
    Object(NextID(W), "page",
           Refs("Parent", {TreeAfter(StartPage)})
               \cup Refs("XObject", pages[p].xobjects)
               \cup Refs("ExtGState", pages[p].gstates)
               \cup Refs("Annots", annotations)
               \cup Refs("Contents", ToSet(pages[p].contents)), <<>>)

\* The dictionary of a page whose resources fail is given up there.
BrokenPageObject ==
    [Object(NextID(W), "page", Refs("Parent", {TreeAfter(StartPage)}), <<>>)
        EXCEPT !.whole = FALSE]

KidsAfter_Reversed(page) == <<page>> \o kids
KidsAfter(page) == Append(kids, page)

AddPageToPageTree ==
    /\ Idle /\ HasRoomFor(2)
    /\ tree' = TreeAfter(StartPage)
    /\ kids' = KidsAfter(NextID(W))
    /\ UNCHANGED <<trailer, form, stream, imageIDs, opacityIDs, identity, helper, result,
                   forms, restarts>>

AnnotationsAfterPage_Kept == annotations
AnnotationsAfterPage == {}

\* WritePageAndRelease deletes the PDFPage, and the client's next one may be
\* given its address; WritePage leaves it to the client, who may write it again.
Release(p, release) ==
    pages' = IF release THEN [pages EXCEPT ![p] = NewPDFPage] ELSE pages

WritePage(p, n, release) ==
    /\ AddPageToPageTree
    /\ Become(TasksWritten(WriteAt(PageStarted, PageObject(p)), p, n))
    /\ annotations' = AnnotationsAfterPage
    /\ RunTasks(p, n)
    /\ Release(p, release)
    /\ phase' \in {phase} \cup CrashesOn({p})

WritePageFailsOnResources(p, release) ==
    /\ AddPageToPageTree
    /\ failures < client.failures
    /\ failures' = failures + 1
    /\ Become(WriteAt(PageStarted, BrokenPageObject))
    /\ Release(p, release)
    /\ UNCHANGED <<phase, annotations, endTasks, moreEndTasks, lost>>
-----------------------------------------------------------------------------
(***************************************************************************)
(* EndPDF: FinalizeNewPDF or FinalizeModifiedPDF, then Cleanup, as Reset.  *)
(***************************************************************************)
WritePagesTree(w, parent) ==
    WriteAt(w, Object(tree, "pages", Refs("Parent", {parent} \ {NoID}), kids))

\* The tree of the modified file and the new one become the kids of a new root.
OriginalTreeRoot == file[2]
WriteCombinedPageTree(w) ==
    LET root == NextID(w)
        below == [OriginalTreeRoot EXCEPT !.refs = @ \cup Refs("Parent", {root})]
    IN WriteAt(WriteModified(WritePagesTree(Allocate(w), root), below),
               Object(root, "pages", {}, <<OriginalTreeRoot.id, tree>>))

DocumentHasNewPages == tree # NoID

PagesWritten ==
    IF ~DocumentHasNewPages THEN W
    ELSE IF isModified THEN WriteCombinedPageTree(W)
    ELSE WritePagesTree(W, NoID)

FinalPageRoot ==
    IF isModified THEN IF DocumentHasNewPages THEN NextID(W) ELSE OriginalTreeRoot.id
    ELSE tree

\* A modified file needs a new catalog when it has new pages, or for another
\* reason: a higher version, or an extender's wish.
NeedsCatalog(otherReason) ==
    IF isModified THEN DocumentHasNewPages \/ otherReason ELSE trailer.root = NoID

CatalogWritten(otherReason) ==
    IF NeedsCatalog(otherReason)
    THEN WriteNew(PagesWritten, "catalog", Refs("Pages", {FinalPageRoot} \ {NoID}))
    ELSE PagesWritten

RootAfter(otherReason) ==
    IF NeedsCatalog(otherReason) THEN NextID(PagesWritten) ELSE trailer.root

InfoIsEmpty == trailer.created = "unset" /\ trailer.modified = "unset"
InfoWritten(w) == IF InfoIsEmpty THEN w ELSE WriteNew(w, "info", {})

\* The dictionary is the modified file's own, or written when encrypting.
WritesEncryption == ~isModified /\ helper.encrypted
EncryptionWritten(w) == IF WritesEncryption THEN WriteNew(w, "encrypt", {}) ELSE w

OriginalEncrypt == {object.id : object \in {o \in ToSet(OriginalObjects) : o.kind = "encrypt"}}

EncryptAfter(w) ==
    IF WritesEncryption THEN NextID(w)
    ELSE IF OriginalEncrypt # {} THEN CHOOSE id \in OriginalEncrypt : TRUE
    ELSE trailer.encrypt

FirstID(newID) == IF modifiedIDExists THEN OriginalID ELSE newID

\* The positions a reader is given, as places in the file.
Xref(r) ==
    [id \in {id \in DirtyIDs(r) : r[id + 1].written} |-> r[id + 1].position + 1]

TasksAfterCleanup(s) ==
    IF s = Form THEN <<>>
    ELSE [k \in 1 .. Len(moreEndTasks[s]) |-> [moreEndTasks[s][k] EXCEPT !.freed = TRUE]]

AnnotationsAfterCleanup == {}

KidsAfterCleanup == <<>>

Cleanup ==
    /\ phase' \in {"closed"} \cup CrashesOn(Surfaces)
    /\ registry' = EmptyRegistry
    /\ tree' = NoID /\ kids' = KidsAfterCleanup
    /\ annotations' = AnnotationsAfterCleanup
    /\ trailer' = NewTrailer
    /\ modifiedIDExists' = FALSE
    /\ opacityIDs' = [a \in Opacities |-> NoID]
    /\ endTasks' = [s \in Surfaces |-> <<>>]
    /\ moreEndTasks' = [s \in Surfaces |-> TasksAfterCleanup(s)]
    /\ helper' = [helper EXCEPT !.attached = FALSE]
    /\ UNCHANGED <<pages, form, stream, imageIDs, isModified, documents, lost, forms,
                   restarts>>

\* A document that could not be ended has no xref, and its file is left as it is.
EndPDF(otherReason) ==
    /\ phase = "open"
    /\ LET catalog == InfoWritten(CatalogWritten(otherReason))
           ending == EncryptionWritten(catalog)
           newID == IF newPDFID = 0 THEN documents ELSE newPDFID
       IN
       IF CanWriteXref(ending.registry)
       THEN /\ file' = ending.file
            /\ newPDFID' = newID
            /\ result' = [status |-> "ok", xref |-> Xref(ending.registry),
                          root |-> RootAfter(otherReason),
                          encrypt |-> EncryptAfter(catalog),
                          id |-> <<FirstID(newID), newID>>]
       ELSE /\ result' = [NoResult EXCEPT !.status = "failed"]
            /\ UNCHANGED <<file, newPDFID>>
    /\ Cleanup
    /\ UNCHANGED failures

\* The fonts, the combined tree or an extender of the catalog fail.
EndPDFFails ==
    /\ phase = "open" /\ failures < client.failures
    /\ failures' = failures + 1
    /\ result' = [NoResult EXCEPT !.status = "failed"]
    /\ Cleanup
    /\ UNCHANGED <<file, newPDFID>>

Reset ==
    /\ phase = "open"
    /\ Cleanup
    /\ UNCHANGED <<file, newPDFID, result, failures>>
-----------------------------------------------------------------------------
(***************************************************************************)
(* Shutdown, and ContinuePDF in another process.  The client has no stream *)
(* open; it keeps the IDs of its forms.                                    *)
(***************************************************************************)
ReadTrailerState(t) == [t EXCEPT !.modified = t.created]

ShutdownAndContinue ==
    /\ Idle /\ restarts < client.restarts
    /\ restarts' = restarts + 1
    /\ registry' = WriteAndReadState(registry)
    /\ trailer' = ReadTrailerState(trailer)
    /\ annotations' = {}
    /\ pages' = [p \in PageObjects |-> NewPDFPage]
    /\ imageIDs' = [i \in Images |-> NoID] /\ opacityIDs' = [a \in Opacities |-> NoID]
    /\ endTasks' = [s \in Surfaces |-> <<>>] /\ moreEndTasks' = [s \in Surfaces |-> <<>>]
    /\ lost' = lost \cup UNION {TaskIDs(endTasks[s]) \cup TaskIDs(moreEndTasks[s]) :
                                  s \in Surfaces}
    /\ helper' = [helper EXCEPT !.attached = FALSE, !.pauseLevel = 0, !.xcrypts = TRUE,
                                !.streamsListed = TRUE]
    /\ UNCHANGED <<phase, file, tree, kids, form, stream, identity, result, forms,
                   failures>>

\* The PDFWriter has been used for all its documents, or the process is gone.
Ended ==
    /\ phase = "crashed" \/ (phase = "closed" /\ documents = client.documents)
    /\ UNCHANGED vars

\* The pages the client has begun, and new ones if it may have more.
IsBegun(p) == pages[p] # NewPDFPage \/ endTasks[p] # <<>> \/ moreEndTasks[p] # <<>>
ClientPages ==
    {p \in PageObjects : IsBegun(p) \/ Cardinality({q \in PageObjects : IsBegun(q)}) < client.pages}

Calls ==
    \/ StartPDF \/ ModifyPDF
    \/ SetCreationDate
    \/ \E p \in ClientPages : StartContentStream(p)
    \/ EndContentStream
    \/ \E s \in Surfaces : \/ \E image \in client.images : DrawImage(s, image)
                           \/ \E alpha \in client.opacities : SetOpacity(s, alpha)
    \/ AllocateForm
    \/ \E id \in forms : StartFormXObject(id) \/ \E p \in PageObjects : DrawForm(p, id)
    \/ \E n \in 0 .. Len(endTasks[Form]) : EndFormXObject(n)
    \/ AttachURLLinktoCurrentPage
    \/ \E p \in ClientPages, release \in BOOLEAN :
          \/ \E n \in 0 .. Len(endTasks[p]) : WritePage(p, n, release)
          \/ WritePageFailsOnResources(p, release)
    \/ \E otherReason \in BOOLEAN : EndPDF(otherReason)
    \/ EndPDFFails
    \/ Reset
    \/ ShutdownAndContinue

Next == (Calls /\ UNCHANGED client) \/ Ended

Spec == Init /\ [][Next]_vars
-----------------------------------------------------------------------------
(***************************************************************************)
(* Properties.                                                             *)
(***************************************************************************)
IDs == 0 .. client.objects + 8
IsFileObject(o) ==
    /\ o.id \in IDs \ {NoID}
    /\ \A ref \in o.refs : ref[2] \in IDs \ {NoID}
    /\ o.kids \in Seq(IDs \ {NoID})
    /\ o.key \in {EmptyKey} \cup 0 .. client.documents + 1
    /\ o.whole \in BOOLEAN

\* Every variable holds what the code's types allow, no object is written, and
\* none referred to, that has no ID, and the encryption helper, which streams
\* pause and resume, is paused exactly while one is open.
TypeOK ==
    /\ phase \in {"closed", "open", "crashed"}
    /\ registry \in Seq(ObjectWriteInformation)
    /\ \A k \in 1 .. Len(file) : IsFileObject(file[k])
    /\ \A p \in PageObjects : pages[p].contents \in Seq(IDs \ {NoID})
    /\ tree \in IDs /\ kids \in Seq(IDs \ {NoID})
    /\ annotations \subseteq IDs \ {NoID}
    /\ \A image \in Images : imageIDs[image] \in IDs
    /\ result.status \in {"none", "ok", "failed"}
    /\ phase = "open" /\ helper.attached =>
           helper.pauseLevel = IF stream = NoStream THEN 0 ELSE 1

EndedWell == phase = "closed" /\ result.status = "ok"

\* The object a reader of an ended document is led to by a reference.
ReaderKnows(id) ==
    id \in DOMAIN result.xref \/ \E k \in 1 .. Len(OriginalObjects) : OriginalObjects[k].id = id

ReaderFinds(id) ==
    IF id \in DOMAIN result.xref THEN file[result.xref[id]]
    ELSE OriginalObjects[CHOOSE k \in 1 .. Len(OriginalObjects) : OriginalObjects[k].id = id]

\* What may be used as what.
KindsFor(role) ==
    CASE role = "Parent" -> {"pages"}       [] role = "Pages" -> {"pages"}
      [] role = "Contents" -> {"content"}   [] role = "Annots" -> {"annotation"}
      [] role = "XObject" -> {"image", "form"} [] role = "ExtGState" -> {"gstate"}
      [] role = "Resources" -> {"resources"}   [] role = "Length" -> {"length"}

Resolves(role, id) == ReaderKnows(id) /\ ReaderFinds(id).kind \in KindsFor(role)

\* When EndPDF says the document is written, every reference in it leads to an
\* object, and one that can be used as what it is referred to for: what was drawn
\* before it was written has been written by then, by the page or form it was
\* first drawn on, or EndPDF would have failed.
ReferencesResolve ==
    EndedWell =>
        /\ ReaderFinds(result.root).kind = "catalog"
        /\ \A k \in 1 .. Len(file) :
             /\ \A ref \in file[k].refs : Resolves(ref[1], ref[2])
             /\ \A kid \in ToSet(file[k].kids) : ReaderKnows(kid)

\* The objects a reader finds, by ID.
Found == [id \in {id \in IDs : ReaderKnows(id)} |-> ReaderFinds(id)]

\* The pages below one of these objects, in order.
PagesBelow(objects, id) ==
    LET below[depth \in 0 .. 3] ==
          [n \in DOMAIN objects |->
             IF objects[n].kind = "page" \/ depth = 0 THEN <<n>>
             ELSE FlattenSeq([k \in 1 .. Len(objects[n].kids) |->
                                below[depth - 1][objects[n].kids[k]]])]
    IN below[3][id]

\* The pages in the order of a file, those of a modified file first.
PagesOfFile(f) ==
    LET upTo[k \in 0 .. Len(f)] ==
          IF k = 0 THEN <<>>
          ELSE IF f[k].kind = "page" THEN Append(upTo[k - 1], f[k].id) ELSE upTo[k - 1]
    IN upTo[Len(f)]

\* A reader of an ended document finds, from the catalog, the pages the modified
\* file had and then those WritePage was called for, in that order and each once,
\* across restarts and failures of other pages.
PagesInOrder ==
    EndedWell =>
        LET refs == Found[result.root].refs IN
        IF refs = {} THEN PagesOfFile(file) = <<>>
        ELSE PagesOfFile(file) = PagesBelow(Found, CHOOSE id \in IDs : <<"Pages", id>> \in refs)

PlacesOf(kind) == {k \in 1 .. Len(file) : file[k].kind = kind}

\* An annotation is referred to by the first page written after it, and by that
\* page only; until there is one it is kept for it.  A page whose resources failed
\* takes none.  A restart loses those that wait for their page: they are not saved.
AnnotationsReachNextPage ==
    restarts = 0 => \A k \in PlacesOf("annotation") :
        LET later == {j \in PlacesOf("page") : j > k /\ file[j].whole}
            users == {j \in PlacesOf("page") : <<"Annots", file[k].id>> \in file[j].refs}
        IN IF later = {} THEN users = {} /\ (phase = "open" => file[k].id \in annotations)
           ELSE users = {Min(later)}

\* In one document nothing is written twice, whoever shares it and however often
\* a page is written; only the root of the modified file's tree is replaced.
NothingIsWrittenTwice ==
    \A j, k \in 1 .. Len(file) :
        j # k /\ file[j].id = file[k].id => {file[j].id} = {2} /\ isModified

TaskIDsOf(s) == TaskIDs(endTasks[s]) \cup TaskIDs(moreEndTasks[s])

\* An object of an open document that has an ID and is not written has somebody
\* who will write it: a task of a page or form, the open stream or form, the client
\* who asked for the ID of a form, or the end of the document; or its task was
\* lost, to a failure or a restart.  So, failures and restarts aside, a document
\* can be ended as soon as its pages are written and its forms ended.
UnwrittenAreOwed ==
    phase = "open" =>
        \A id \in DirtyIDs(registry) : IsUnwritten(id) =>
            \/ \E s \in Surfaces : id \in TaskIDsOf(s)
            \/ id = stream.length \/ id = form.resources
            \/ id \in forms
            \/ id = tree
            \/ id \in lost

\* The streams of a document that is announced as encrypted, and those only, are
\* encrypted, with the key made from the ID the trailer gives.
EncryptedAsAnnounced ==
    EndedWell =>
        \A k \in Len(OriginalObjects) + 1 .. Len(file) :
            file[k].kind \in {"content", "form"} =>
                file[k].key = IF result.encrypt = NoID THEN Plain ELSE result.id[1]

\* The dates of the document information are the same when it is continued. The code
\* does not keep this, see ReadTrailerState; no run checks it.
RestartKeepsInfo ==
    [][restarts' # restarts =>
        trailer'.created = trailer.created /\ trailer'.modified = trailer.modified]_vars
=============================================================================
