# HummusJS, modelled and checked

HummusJS writes, modifies and reads PDF files from Node.js. It has three layers:

- the streams and helpers in JavaScript (`src/*.js`);
- the drivers, C++ classes that wrap the objects of the library for JavaScript
  (`src/src/*.cpp`);
- the library PDFWriter (`src/src/deps/PDFWriter`).

This directory is a TLA+ development of the parts of all three in which what one call
leaves behind decides, many calls later, whether the file is a PDF and whether the
process survives.

Paths of the library are given below without `src/src/deps/PDFWriter/`, those of the
drivers without `src/src/`, those of the streams without `src/`.

## 1. The system

### Components, state, operations

The library:

| Component | State it keeps | Operations |
|---|---|---|
| **Indirect objects registry** (`IndirectObjectsReferenceRegistry.cpp`) | a vector of entries: free or used, written, dirty, position, generation | allocate an ID, mark written, mark updated, delete, take over a modified file's xref, save and restore |
| **ObjectsContext** (`ObjectsContext.cpp`, `DictionaryContext.cpp`, `PDFStream.cpp`) | registry, output, stack of dictionaries, pointer to the encryption helper | start and end objects, dictionaries, streams; write the xref; save and restore |
| **Xref writing** (`ObjectsContext::WriteXrefTable`) | loop variables | subsections, rows, list of free objects |
| **Page tree** (`PageTree.cpp`, `CatalogInformation.cpp`) | nodes with at most ten kids, the current node | add a page, write the tree, combine it with a modified file's, save and restore |
| **DocumentContext, PDFWriter** (`DocumentContext.cpp`, `PDFWriter.cpp`) | trailer, catalog, annotations, end tasks, IDs of images and opacities, encryption helper | start, modify, end, give up, shut down, continue; pages, forms, images, links |
| **Encryption helper** (`EncryptionHelper.cpp`, `XCryptionCommon.cpp`) | whether it encrypts, pause level, stack of object keys | pause, release, start and end of objects, streams |
| **Content operators, resources** (`AbstractContentContext.cpp`, `GraphicStateStack.cpp`, `ResourcesDictionary.cpp`) | stack of graphic states with the font placed last; names of resources | PDF operators, text, names for objects |
| Parser (`PDFParser.cpp`, `PDFObjectParser.cpp`) | xref of the read file, cached object streams | parse, decrypt |
| Document handler, copying contexts (`PDFDocumentHandler.cpp`) | maps of source IDs to target IDs | copy objects, pages, forms; merge |
| Fonts (`UsedFontsRepository.cpp`, `PDFUsedFont.cpp`, `AbstractWrittenFont.cpp`) | fonts used, glyphs encoded so far | encode text, write subset fonts |
| Image handlers, filters, font programs | decoder state | conversion |

The drivers and streams:

| Component | State it keeps | Operations |
|---|---|---|
| **Content driver** (`AbstractContentContextDriver.cpp`) | its context and resources | an operator per method; `drawPath`, `drawSquare`, `drawCircle`, `writeText`, `drawImage` made of several |
| **Streams of JavaScript** (`PDFRStreamForFile.js`, `PDFRStreamForBuffer.js`, `PDFWStreamForFile.js`, `PDFWStreamForBuffer.js`, `PDFStreamForResponse.js`) | position, descriptor or node stream, buffer | read, skip, set position, write, close |
| **Proxies** (`ObjectByteReaderWithPosition.cpp`, `ObjectByteWriterWithPosition.cpp`) | the JavaScript object | each call of the library is a call of a method of that object |
| **Wrappers** (`ConstructorsHolder.cpp` and the destructors of all drivers) | a pointer each, owned or borrowed, sometimes a second one | made by calls, taken by the collector |
| **Objects context driver** (`ObjectsContextDriver.cpp`, `DictionaryContextDriver.cpp`, `PDFStreamDriver.cpp`) | borrowed pointers | objects, dictionaries, arrays and streams of the program's own |
| **Writer driver** (`PDFWriterDriver.cpp`, `hummus.cpp`, drivers of pages, forms, images, fonts) | the writer, its stream proxies, its listener | start, end, shut down; pages, forms, images, fonts, links; calls of the listener |
| **Files, readers, copying contexts, page modifier** (`InputFileDriver.cpp`, `PDFReaderDriver.cpp`, `DocumentCopyingContextDriver.cpp`, `PDFPageModifierDriver.cpp`) | files, parsers, the contexts' registration with the writer | open, read, parse, copy, merge, modify a page |
| Drivers of parsed objects (`PDFObjectDriver.cpp` and its kinds) | a counted object | reading |
| Document information, dates, strings (`InfoDictionaryDriver.cpp`, ...) | single fields | accessors |

### How they interact

The program calls the drivers, which call PDFWriter and DocumentContext; these write
objects through ObjectsContext, which alone touches the file, and which calls the
encryption helper at the start and end of objects and streams. A program may also
hold the ObjectsContext and call it directly. References between objects are IDs of
the registry, handed out before the object is written. Page, image and form meet in
end tasks: callbacks that a page or form runs when it is written. A restart is a
file: `Shutdown` writes the state of registry, ObjectsContext, page tree, trailer,
fonts and encryption as a small PDF; `ContinuePDF` reads it in another process.

The other direction: the library calls back through proxies into streams written in
JavaScript, and into the program's listener while a dictionary of the catalog or of
a page is open in the file. Node writes what streams hand to it when its event loop
gets to it, and the collector takes wrappers, in any order, whenever the program has
let go of them.

The program has no threads of its own. What is hard about it: the order of the
client's calls; objects that are owed (an ID is given out, and somebody must write
it); failures in the middle of a page or of its tasks; the restart, which must carry
everything that matters; the reuse of one PDFWriter for several documents, of which
nothing may remain; the encryption helper's pauses, which must balance across
functions; two recursions with loops full of boundaries (the page tree, the xref
table); a font that is placed only when it must be, while `q`, `Q` and the program's
own operators change what is in effect; positions that run ahead of what node has
written; and wrappers that borrow what others delete.

### What makes each component correct

- Registry and ObjectsContext: each xref entry leads to the header of its object, at
  its last version; an update lists what changed and only that; the length object of
  a stream measures it; streams are encrypted with their object's key; a restart
  keeps the xref.
- Xref table: a reader that counts rows finds for each ID what the registry knows,
  and a free list that is closed; it fails only on an object that was never written.
- Page tree: it implements a list of pages; each page names the node that lists it.
- Document: every reference of an ended document leads to an object of the right
  kind; pages are in order; a link is on the next page; nothing is written twice;
  what has an ID has somebody who owes it; streams are encrypted as announced.
- Content: text is shown in the font that was asked for, as a reader of the content
  finds it; a name keeps its meaning from its first use to the resource dictionary;
  a drawing command leaves the content in the state it found it in.
- Streams: objects are in the file at the positions the library was told; a stream of
  JavaScript reads as the library's own file does; `close` answers each call once.
- Drivers: nothing that was deleted is used, whatever the order of collection; what
  the program and the library write nests; nothing is left when all wrappers are gone.

The hazards behind these properties, at their lines, are in `PROJECT.json`; a note there
tells what of a hazard a property's conditions leave out. Three more
that no property states: popping an empty list of keys is undefined
(`XCryptionCommon.cpp:83`; the model has both outcomes as `GarbageKey`), a second
variable named `status` hides an extender's failure (`DocumentContext.cpp:1315`), and
`ContinuePDF` parses the modified file without its password (`PDFWriter.cpp:448`).

## 2. The modules

| Module | Models | Correspondence |
|---|---|---|
| `IndirectObjectsRegistry` | the registry | pure operators on a sequence of entries (entry of ID i at i + 1), one per method; `Can...` is a method's check, and a method that fails leaves the registry alone |
| `ObjectsContext` | ObjectsContext, dictionaries, streams, the helper's pauses | one action per method; the file is a sequence of tokens, a position the number of tokens before it; a filter may hold data back |
| `XrefTable` | `WriteXrefTable` | one action per loop step; `pc` is the loop being executed |
| `PageList` | what the page tree is for | abstract specification: pages are appended, then the document is ended |
| `PageTree` | PageTree, CatalogInformation, `WritePageTree`, `WriteCombinedPageTree`, their state | recursive calls unfolded into steps: climbing to an ancestor with room, going down one node per level; frames for `WritePageTree` |
| `DocumentContext` | PDFWriter, DocumentContext | one action per call of the client; the file is a sequence of objects with references `<<role, id>>`; the page tree is one node here. `Clients` says which calls a client makes, on how many documents |
| `ResourcesDictionary` | the names of resources | pure operators on maps and counters |
| `ContentContext` | content driver, AbstractContentContext, graphic states; and the reader of the content | one action per group of operators with the same guard, one per drawing command. Of `content`, `stack`, `resources` and `uses` are the library's, `level` and `read` are the reader's |
| `ByteSource` | what the library expects of a stream it reads | abstract specification: the behaviour of `InputFileStream` |
| `ByteStreams` | the five JavaScript streams, the proxies, the library's calls, node's writing | one action per method of a stream, per loop iteration of a copy or a backward read, and per thing node does |
| `Natives` | C++ objects, wrappers, the collector | operators and actions that the next three share: making, borrowing, touching, deleting |
| `ObjectsContextDriver` | objects, dictionaries, arrays and streams of the program | `out` is what is open in the file, `busy` what the program is in the middle of |
| `PDFWriterDriver` | sessions, pages, forms, images, fonts, the listener | one action per method; `event` is the call that waits for the listener |
| `CopyingDrivers` | files, readers, copying contexts, page modifiers | one action per method |
| `Drivers` | the drivers together, with the program and the collector | composition: the next-state relation, by kinds of calls |
| `ObjectsContext_proofs`, `XrefTable_proofs`, `PageTree_proofs`, `DocumentContext_proofs`, `ContentContext_proofs`, `ByteStreams_proofs`, `Drivers_proofs`, `DriversOutput_proofs` | | theorems, see 4 |

`MC...` modules give TLC values. `ObjectsContext`, `XrefTable` and `DocumentContext`
extend `IndirectObjectsRegistry`, so there is one registry; `ContentContext` extends
`ResourcesDictionary`; `Natives`, `ObjectsContextDriver`, `PDFWriterDriver`,
`CopyingDrivers` and `Drivers` each extend the one before. `DocumentContext` sees
objects as atoms because `ObjectsContext` justifies it: an object written with a
nested client is whole, has its position recorded and its stream measured. It sees
the tree as one node because `PageTree` shows that any tree stands for the list.
`Drivers` in turn is why that client nests its calls: `OutputNests` says so of what a
program and the library write between them. Operators named `X_Something` next to `X`
are plausible mistakes in `X`; nothing uses them, they serve to show that the
properties notice them.

### Abstractions

- Bytes are tokens, or, in `ByteStreams`, numbers; a compressed or encrypting stream
  may hold one token back until it is finalized. Formatting of numbers, names and
  strings is left out.
- A key is the ID of the object it was made from, or the document for the helper of
  a document. `EmptyKey` is what `GetCurrentObjectKey` gives with no object open,
  `GarbageKey` what the last element of a list popped when empty may be.
- `DrawImage` of `DocumentContext` covers all image types: an image is an object
  written by an end task. An opacity's task cannot fail.
- Failures are choices: resources of a page, an image's task, the ending, a call of a
  driver, a write of node's.
- The client of `DocumentContext` ends or pauses its content stream before it writes
  something else, and does not end documents, pages or forms it did not start. It may,
  however, give up at any time (`Reset`), write a page twice, draw a form before it is
  written, or never write it.
- PDFPage addresses may be given out again after `WritePageAndRelease`, and each
  document has new pages: this is how tasks left from an earlier document come to be
  found.
- Of an operator's operands `ContentContext` keeps whether the driver accepts them;
  which of a font's written fonts (simple, CID) encodes a text is a choice.
- `ByteStreams` has a stream without `write` ("mute") and one whose `write` returns no
  number ("deaf") for the program's own streams; node's queue is written in order, and
  a write of node's may fail, after which an unhandled error ends the process.
- In `Drivers` the bytes of the file are gone and what is open in it is a stack. An
  address is used again only when nothing points to it, so that a dangling pointer
  always shows.

### What `Drivers` trusts the program with

As the tests and samples do, a program pauses or ends a context before it writes
anything else, ends what it starts before it ends the writer, and closes the arrays it
opens; it uses nothing of what has ended; it keeps a wrapper while something it uses
needs it (the writer for all that it gave, a reader for what was parsed, a copying
context for a form that pages were merged into); and it gives up when there is an
exception. When it is called to complete a dictionary, it writes in the innermost one,
starts no object, and ends only what it starts, not the dictionary it was handed (each
would write one object within another, or delete a dictionary that the library goes on
using). Nothing in the drivers enforces any of this: a wrapper that borrows does
not keep alive what it borrows from. Everything else is left open, the moment of
every collection included.

Whether a listener ends all that it starts is a choice of the program (`nests`). If it
does not, only the page's own dictionary makes the call fail. The status of ending any
other is not looked at (`DocumentContext.cpp:1066`, `1267`, `1326`,
`PDFWriterDriver.cpp:339`, `PDFPageModifierDriver.cpp:192`), so that the library goes on
inside of what was left open: the file is badly nested, the dictionaries are never
deleted and there is no exception. `OutputNests` and `NothingLeaks` are therefore stated
of programs that do; `NoDanglingUse` is stated of all.

## 3. The runs

| Run | Question | Bounds |
|---|---|---|
| `ObjectsContextFree` | any client: entries point at headers; a restart keeps the xref | 4 objects, 3 tokens, 3 dictionaries, one restart; new and modified files. An object can be allocated, written, modified, deleted and modified again, and generation and position reach their limits |
| `ObjectsContextNested` | a client that nests its calls, plain and encrypted: lengths and keys | 5 objects, 11 tokens: a stream with held-back data, inside an object with and without a dictionary; two objects with a stream each, so that an unbalanced pause or a key left on the stack shows |
| `ObjectsContextUpdate` | incremental update | original xrefs with used, deleted and compressed entries; 4 objects, 7 tokens, one restart |
| `XrefTable` | every registry of up to five objects | all 4681 combinations of free/used, written/not, dirty/clean: gaps at both ends, adjacent and separate runs, free lists across subsections |
| `PageTree` | tree against list | level size 2, ten pages, so three levels and more; with and without a modified file; two restarts |
| `DocumentContext` | documents are whole, in order, encrypted as announced | four clients: `Sharing` (two pages that share an image and an opacity, one failure), `Linking` (the same with links), `Update` (a modified document, drawn forms, a link, one failure, one restart), `Reuse` (two documents of one PDFWriter, new or modified, the second encrypted); 10 to 12 objects |
| `ContentContext` | fonts, names, drawing commands | one font with a simple and a CID written font, two sizes, an image, a form, nesting 1, one name of each kind, arguments accepted and refused, options of every type, the unknown ones included |
| `ByteStreams` | from and to JavaScript streams | files of 0 to 4 bytes, line and copy buffers of 2, positions to 6, 3 chunks written, 2 calls of `close`, five kinds of sinks |
| `Drivers` | wrappers, collector, nesting | thirteen programs that combine the kinds of calls, three of them with listeners that leave dictionaries open, with 4 to 6 C++ objects and 3 or 4 wrappers at a time, nesting 3, calls that fail |

Why this is enough. Two pages, one image and one opacity suffice for the sharing
hazards because each involves one object, the surface that owes it and one other that
uses it. One restart suffices because what a restart does to the state does not depend
on how many there were. Level size 2 makes every kind of growth of the page tree
(brother, cousin, new root) happen within a few pages; the code's 10 differs in no
branch. Buffers of 2 over files of 0 to 4 give empty, partial, exact and several
buffers. A program of `Drivers` needs at most the writer, one object that borrows, one that
it borrows from, and their proxies; each pair of drivers that share an object is
together in one of the thirteen.

Deadlock is not checked where behaviours end because a bound is used up or a program
gives up: `ObjectsContext`, `ByteStreams` and `Drivers`. Everywhere else it is
checked, and the end is an explicit step.

Runs that show the code doing something else than it, or its documentation, says:

| Run | What it shows |
|---|---|
| `ObjectsContextRestartEncrypted` | after `ContinuePDF` nobody attaches the encryption helper to the ObjectsContext: streams are in the clear in an encrypted document |
| `DocumentContextReusedImage` | `mImagesInformation` survives `Cleanup`: an image drawn in two documents of one PDFWriter is a dangling reference in the second |
| `ByteStreamsBackwards` | the parser reads back past the start of a file in a buffer, where `slice` takes a negative index for one from the end, and gets the last bytes for the first |

More of the kind can be seen in the model by changing a run's constants or properties:

- `OriginalXrefs <- ReusedNumber` with `HeadersCarryGeneration`: an object of a
  generation above 0 that is written again has a header of generation 0 and an xref
  entry with its own, which the library's parser rejects;
- `RestartKeepsInfo` in `DocumentContext`: `ModDate` is restored from the state of
  `CreationDate`;
- a client of `DocumentContext` with `encrypted |-> {1}`: a plain document after an
  encrypted one announces encryption, as `Cleanup` leaves `mEncryptionHelper`; with
  `{1, 2}` the second one's streams get the empty key, as `Setup` leaves `mXcrypts`;
- an opacity in `Reuse`: `Cleanup` deletes page tasks, keeps the pointers and clears
  the map of the forms instead, so that a later page at the same address runs deleted
  tasks. The model lets the process end there or the tasks run once more;
- `AnnotationsReachNextPage` without its condition on restarts: a link attached before
  `Shutdown` is lost, `mAnnotations` is not part of the state;
- `WritesBorrowedPages = TRUE` in `Drivers` breaks `OutputNests`: a page that is
  written by another wrapper than the one whose context it has is written with its
  content stream open;
- `OpensBorrowedFiles = TRUE` breaks `NoDanglingUse`: a file that the writer lent and
  the program opens is taken for the wrapper's own and deleted with it.

### Fairness

Safety needs none. `XrefTable` has weak fairness of its next step: the steps are those
of one call, which runs until it returns. `PageTree` has it for the steps of adding a
page and of writing the tree, for the same reason, and none for the client's calls.
`ByteStreams` has it for node's two actions, writing what is queued and finishing a
stream that was ended: node goes on as long as there is work and the process lives.
There is nothing else to be fair about: the client may stop at any time.

### Observations in the code

Seen while the modules were written, at the lines given. Each is modelled as it is
where a module has it:

- `AbstractContentContextDriver.cpp`: the comparison of the clip type is inverted
  (1905, against `hummus.d.ts:104`): `clip` writes nothing and leaves the path open, while
  types that there are not clip. `DrawingCommandsAreWhole` therefore allows a command with
  such options to end in its path (`Paints`). So is the comparison at 1693 inverted; `SCN` and `scn` refuse
  a single pattern name; `drawPath` with an odd number of coordinates.
- `hummus.cpp`: `createWriterToContinue` ignores its options (313); the proxy of a log
  stream is on the stack (337); the version of a modified file is taken only as a
  string (399); an owner password alone does not encrypt (176).
- `PDFWriterDriver.cpp`: `getFontForFile` reads its index from the first argument (505);
  a failed ending leaves its proxies, a failed copying context its proxy (1121); a
  listener that throws ends the process (1604).
- `DocumentCopyingContextDriver.cpp`: `replaceSourceObjects` with key 0 (484);
  `getSourceDocumentStream` wraps a reader in a writer's wrapper (509).
- `PDFReaderDriver.cpp:225`: a parser that is set leaves the proxy of the stream read
  before.
- A page with a context that is never written leaks the context; `PDFModifiedPage`
  leaks one on an early return; `PDFObjectParserDriver` leaks its parser.
- `PDFRStreamForBuffer.js:16`: `getCurrentPosition` overshoots the buffer after a read
  at its end. Newer versions of node refuse the negative position that
  `PDFRStreamForFile.js` passes.
- `AbstractContentContext.cpp:909`: `QuoteHexLow` writes the word `Quote`, which is no
  operator, for `'`; readers ignore the string (`NoOperator`).
- Statuses that are lost: `PDFWriter.cpp:909` (`RecryptPDF` ignores what `EndPDF` returns),
  `DocumentContext.cpp:1066`, `1239`, `1267`, `1326`, `PDFWriterDriver.cpp:339`,
  `PDFPageModifierDriver.cpp:192`, see `Drivers` in 2; `WriteXrefStream` that fails leaves the
  helper paused (2730).

## 4. What is proved

The theorems hold for every value of the constants that satisfies the modules' named
assumptions, which TLC evaluates in the runs.

### ObjectsContext

`ObjectsContext_proofs`, for every original file, any number of objects, dictionaries,
tokens and restarts, disciplined clients and others, encrypted documents and plain:

- `TypeCorrect`: `TypeOK`;
- `EntriesCorrect`: `XrefEntriesPointAtHeaders`;
- `RestartCorrect`: `RestartKeepsXref`.

`TypeOK` is not inductive: that the length of a stream is no less than 0 needs
`StreamsStarted`, that open streams started in the file as it is. With it the three
invariants together are `IInv`. The argument for the entries has two halves. The
registry's: each operation lists what was listed, where it was, and at most one object
at the position it is given (`ListsAtMost`: lemmas `MarkedAsWritten`,
`MarkedAsUpdated`, `Deleted`, `Restored`). The file's: it only grows (`FileGrows`), so
entries go on leading where they did (`EntriesFollow`), and what is written at the
position given is the header (`EntriesAfterHeader`) - at once for an object, after the
data held back for the length of a stream. The assumptions, `RegistryAssumption` and
`ContextAssumption`, say that the bounds are numbers and the files' xrefs are xrefs.

Its second part is about what streams leave in the file:

- `LengthsCorrect`: `LengthObjectsMeasureStreams`, for any client. The strengthening is
  `StreamsAt`: just before the data of an open stream the file has the keyword that
  names its length object. From there to the `endstream` it writes lie as many tokens
  as the stream reports, the data it held back included.
- `KeysCorrect`: `StreamsUseOwnKey`, for a client that nests its calls and a document of
  one process. The strengthening, `KInv`, says how the helper keeps step with what is
  open: with nothing open it has no key and is not paused (`NothingOpen`); in an object
  its one key is that of the object whose header was written last (`ObjectOpen`); in a
  stream it is paused once, and the stream has that key (`StreamOpen`). Both conditions
  are needed: without nesting a stream may start in no object, and
  `ObjectsContextRestartEncrypted` shows what a restart does.

Its third part is about a client that nests its calls (`Disciplined`), in
files whose positions fit the ten digits of an xref row (`PositionsFit`: beyond them the
registry refuses a position while the header is written all the same). New and modified
files, modifications, deletions and restarts are all in it:

- `LastVersionCorrect`: `XrefFindsLastVersion`;
- `UpdateCorrect`: `UpdateListsWhatChanged`;
- `NoLengthMissingCorrect`: `NoLengthIsMissing`.

They rest on one invariant, `NInv`. Without `PositionsFit` or nesting the registry may
refuse what it is told; with them every header goes with a mark (`Marks`) at its very
position, so that the entry follows all the headers of its object that there were
(`MarkStep`), and what writes no header marks nothing (`UnmarkedStep`). Three parts are
there for the induction. `UpdateOK` adds to `UpdateListsWhatChanged` that a generation
never falls, which is why a deletion can always be told. `OneStream` says that at most
one stream is open, and that its length object is an unwritten one of this session, so
that the registry accepts its end. `LengthsOwed` says that the length of every stream
is written or is that of the open stream.

### XrefTable

`XrefTable_proofs`, for every set of registries that begin with the free head (which
is what `Reset` and `SetupXrefFromModifiedFile` establish; only a client that modifies
object 0 itself could undo it):

- `TypeCorrect`, `RowsCorrect`, `TableCorrect`, `FailureCorrect`: the four invariants
  of the `XrefTable` run.

The four invariants are not inductive. The invariant of the proof adds, in layers that
each rest on the ones before:

1. `Control`: how `startID`, `i` and `firstIDNotInRange` lie in each loop, and that
   the run between them is dirty and maximal;
2. `FreeListAhead`: outside the search `nextFreeObject` is the first free dirty
   object at or after the frontier, or 0 when there is none. This is why the single
   increment before the search is right: when a free row is reached,
   `nextFreeObject` is that very row;
3. `Layout`: the subsections are disjoint and increasing, and all but the last are
   full;
4. `Covered`: the dirty IDs before the frontier have rows and were written.

### PageTree

`PageTree_proofs`, for any size of a level (but 1), any number of pages and restarts and
any modified document:

- `TreeCorrect`: `IsTree`;
- `ParentsCorrect`: `PagesNameTheirParent`;
- `RestartsCorrect`: `RestartKeepsTree`;
- `LevelsCorrect`: `LeavesOnOneLevel`;
- `LeftEdgeCorrect`: `LeftEdgeTells`;
- `WrittenTreeCorrect`: `WrittenTreeIsRight`;
- `NodesTyped`: `TypeOK`.

`IsTree` says nothing of the time a page is being added, when calls are made up and down
the tree. The invariant has two layers. `PInv` extends `IsTree` to that time (`Links`; not
to the writing, which gives the root a parent for its time) and says where those calls
are: at the full node, at a node that has nodes below, or at one just created (`Climb`).
So a node that becomes inner lists no page, and no page it was the Parent of loses it.
IDs are given once (`Shape`), so that what is added to a list was not in it.

`TInv` adds that the nodes have heights (`Levels`): 0 where pages are, one more than its
kids' for any other, less than the number of nodes for all, and, while a page is being
added, as many at the node the call has reached as there are calls to return to. That is
the reason why `CreateBrotherOrCousin`, which climbs to wherever there is room, comes
down to the level it left. Heights also tame the recursion in `Ancestors` and
`HasLeaf`: k steps up from a node reach one node on each of the next k levels (`Rises`),
or the root, and as many steps as there are nodes cannot all be new levels, so that
there is one root, above every node (`RootOfTree`), and everything is saved; k steps
down the left edge from the root reach the level k below it, the last of which is one of
pages. Both go by induction over the numbers up to a bound (`PrefixInduction`).

`WInv` is about the writing. The calls of `WritePageTree` are a path down from the root
(`Stacked`): each is at a kid of the one below, the kids before it are written and the
others are not (`FrameFits`). What is written is written as it is in the tree, after all
that is below it, and is listed by a node that is written or that a call is at
(`WrittenFits`). What a reader finds is a function that is defined by itself, through the
kids of what is written. So the invariant has such a function, says that it is the only
one, and that every count is the length of what it gives (`RightSoFar`): an item that
nothing written lists changes it at that item only (`ItemRead`), and that its total is
right is that of the frames (`Totalled`: as many as the pages of the kids before). At the
end the two nodes of `WriteCombinedPageTree` are two such items more, whose IDs the tree
does not have (`OldFits`, from the numbers in `Numbered`). `TypeOK` follows: that no node
has more kids than places is part of `Numbered`.

### DocumentContext

`DocumentContext_proofs`, for any client, that is any number of documents, pages, forms,
images, opacities, links, failures and restarts:

- `WrittenOnce`: `NothingIsWrittenTwice`;
- `NothingIsForgotten`: `UnwrittenAreOwed`;
- `EndedReferencesResolve`: `ReferencesResolve`;
- `PagesReachReader`: `PagesInOrder`;
- `LinksReachTheirPage`: `AnnotationsReachNextPage`;
- `EncryptedWhenLast`: `EncryptedAsAnnounced`.

They have hypotheses, each a limit of the code that section 3 shows from its other side.
`PositionsFit`: positions fit an xref row, or the registry refuses one while the object is
written all the same. `OpacitiesOnce`: a client that sets opacities makes one document with
its PDFWriter, as `Cleanup` deletes the tasks for opacities and keeps the pointers. For
`EndedReferencesResolve` and `PagesReachReader` also `ImagesOnce`: a client that draws images makes one, as
`Cleanup` keeps the IDs of images (`DocumentContextReusedImage` is that counterexample).
For `EncryptedWhenLast`, instead, `EncryptedLast`: a client that encrypts a document makes
it its last one and does not continue it, as `Cleanup` leaves `mEncryptionHelper`, `Setup`
leaves `mXcrypts` and the state has neither.

The invariant, `DInv`, is about an open document (`Open`) or what is left between
documents (`Forgotten`). Of an open one it says that what is not written yet has exactly
one that will write it (`OneOwner`): one task of one surface, the stream, the form or the
tree. `UnwrittenAreOwed` asks for one and `NothingIsWrittenTwice` for at most one; the
induction needs both, and that the registry tells truly what is in the file (`Sound`),
failures in the middle of a page's tasks included. For references it says that there is a
`K` that gives for every ID the kind of object it was allocated for, that every
object written is of its kind, and that every use of an ID, in the file, on a page,
in a map or in a task, is one that kind allows (`RightKind`). When `EndPDF` finds the
xref complete, every ID has been written, hence with its kind, hence resolves. That the
tasks of a surface write what they are to is by induction over the tasks.

The other three rest on what a step adds to the file, which no step changes otherwise
(`StepFile`): a link, a whole page that names all the links that wait, a broken one that
names none, or objects that are neither, whose streams have the key of the moment; the end
adds the tree, the catalog and what the trailer names (`EndingFile`). For links the
invariant, `AInv`, is that each one either waits, and is in `mAnnotations`, or has been
taken by the first whole page after it and is not (`LinksRight`); that a new link's ID is
named by nobody yet needs that all links named are in the file (`LinksKnown`), and that
`DInv` gives it an ID the file does not have. For encryption, `EInv` follows the helper:
while an encrypted document is open it is attached, its streams are listed, its key is the
document's and it is paused once exactly while a stream is open, so that every stream
starts with the key that `EndPDF` will announce (`EncryptingOutsideStreams`); before
that nothing has been set up (`NotYetEncrypting`).

For pages the invariant, `PInv`, is that the pages in the file of an open document are
the modified file's and then the kids of its tree, in this order (`PagesStand`), and that
there are kids only with a tree. The rest is about the end. The catalog, new or the
modified file's own, names the root (`CatalogFound`); the tree is there once, but the root
of a modified file's tree is written again, with the kids it had (`RootsWritten`), so that
whichever of the two the reader finds, the pages below it are the same; below the new root
are those of the one and then those of the other (`TwoTreesBelow`). That the reader finds
the object he is led to, and no other of its ID, is what `DInv` says. The pages of a file
and the lists of kids put together are recursive functions and folds: what they are is
proved by induction over prefixes (`UpToAgrees`, `FlatSingles`).

### ContentContext

`ContentContext_proofs`, for any fonts, sizes, images and forms, any nesting of `q` and
`Q` and any arguments, accepted or refused:

- `NamesCorrect`: `NamesKeepTheirMeaning`;
- `FontCorrect`: `FontInEffect`;
- `ContentTyped`: `TypeOK`;
- `CommandsCorrect`: `DrawingCommandsAreWhole`, for options of any type: one that is
  neither `stroke` nor `fill` leaves the path to the client, see the observations in 3.

The first two follow from `IInv`, which relates the two sides of the model. The library's stack
of graphic states and the reader's stack of fonts have the same height, and at each
level the name and size that the library takes to be placed are those the reader has
in effect (`StacksOK`). This is where the code is subtle: a `Tf` is left out when the
font is the one placed last, and `Q`, a `Tf` of the program's own or another size must
each make it be written again. The other half is that each name that was used is in
the resources with the object it was used for (`UsesOK`), and that no name is given
twice, which rests on no name having a number above the counter of its kind.

### ByteStreams

`ByteStreams_proofs`:

- `ImplementsCorrect`: `ImplementsByteSource`;
- `OffsetsCorrect`: `OffsetsAreTrue`.

The first says that `ByteStreams` implements `ByteSource` under the refinement mapping of
`ByteStreams`, for any files, amounts and buffers, provided `~ReadsPastStart`. A read from
a file moves the position by what was read, one from a buffer by what was asked for, so
that the refinement mapping clips the position to the length of the file; that the
delivered bytes agree needs the invariant `ReadingOK`, that the position is never below 0.
`ByteStreamsBackwards` is the other side of the assumption.

The second holds without condition, for every kind of sink. The positions the library is
told count what was handed to the stream; the file is what node has written. The
invariant, `OffsetsInv`, is therefore about their difference: the position is the length
of what is on the disk and what is queued, in that order (`Sent`), every object lies
there at the offset it was given (`AllLie`), and in a copy what was sent is what the
stream read has gone past (`CopiedSoFar`). `close` answers when nothing is queued, so that
then the file is all of it (`ClosedLast`). After an exception nothing is said of positions.
`FlattenSeq`, by which the queue is one sequence, is a fold: what it is of an
appended or of a shortened queue is proved by induction over its prefixes.

### Drivers

`Drivers_proofs`, for any programs, bounds, failures and orders of collection:

- `NothingDangles`: `NoDanglingUse`;
- `HeapFits`: the invariant that it rests on, `DInv`.

Both assume `OwnersOnly`, that pages are written and files opened by wrappers that own
them: `WritesBorrowedPages` and `OpensBorrowedFiles` are `FALSE`, as in the run. The
second is needed, as 3 shows; without the first the wrapper that owns a page would not
learn that the page's context has ended.

That a call touches only what exists needs to know what it can touch. `DInv` says it in
five parts. `IsHeap`: which kinds of objects are parts of which, and which point back, so
that what is reached from an object (`Reach`) is known from its kind. `IsWrapped`: a
wrapper that owns something has it to itself, one that borrows has something of the
right kind, and what a held wrapper reaches exists and is deleted by no wrapper that
waits for the collector (`Safe`). That is what the program is trusted with, that it keeps
what it needs, made into an invariant: a wrapper is let go only if nothing held reaches
what it deletes (`WaitsWrapped`), and no call makes a held wrapper reach more than new
objects and what was safe (`NewIsSafe`, `AttachesReach`, `PartIsSafe`). `IsSession`: the
writer, its fonts and the copying contexts that know it. `IsEvent`: what a call that waits
for the listener frees or gives at its end is still there then, and nobody else's. `IsBusy`:
the form or context in whose middle the program is, and the writer, are held.

Each call does one of a few things to the objects: it makes new ones (`GrowsSound`), frees
some (`ShrinksWrapped`), gives an object new parts (`AttachesSound`), or ties a page to
its context (`Relinks`); each of these has its lemma, and so has each call.

`DriversOutput_proofs`, under the same assumption and for any depth, of programs whose
listeners end what they start (for others both are false, see 2):

- `OutputIsWhole`: `OutputNests`;
- `EverythingIsDeleted`: `NothingLeaks`.

What is started is started where it may be because of what is open at that moment, and
that follows from what the program is in the middle of. The invariant, `OInv`, says it for
each `busy` (`Nests`): nothing is open when the program is nowhere; in an object of its
own there is that object, with arrays and dictionaries in it or one stream (`OwnObject`);
when the listener is called there is an object with the dictionaries that it is yet to
complete, in the order in which it is handed them, and what it started in the innermost
(`ListenedTo`); when a call waits to return there is its object, or nothing at the end of
a document (`WaitedFor`); and on a page, a form or a modifier there is an object with one
stream, which is the only one that the context has (`DrawnIn`), while no other context of
a page has any (`Paused`). The last is what the program is trusted with, to pause a context
before it writes anything else; the collector and the wrappers that the program lets go of
disturb none of it (`Undisturbed`). `IsOn` says that all this is in a session that is
neither over nor failed. That `busy` is what it takes itself to be is part of `DInv`: the
induction needs both.

For the second theorem the invariant, `LInv`, is that as long as nothing failed everything
is kept for something (`Accounted`). An object has one of five ways to its end (`IsKept`):
a wrapper deletes it, alone or with what it is a part of; it is a dictionary that is open;
the call that waits for the listener will delete it or give it to a wrapper; it is the
context of a page, whose wrapper is held; or it is the stream of such a context. A
modifier that the program does not draw on has no form (`Ended`). A step keeps this up if
what exists goes on being owned (`ObjectsStay`, `OwnersStay`), what a call owed is deleted
or owned at its end (`DueStay`), and open dictionaries stay open (`OpenStay`); what it
makes must have one of the five ways at once (`NewAccounted`). The collector takes from
the wrappers only what goes with them. Without wrappers there is no writer, hence no call
that waits and nothing open (`WithoutWriter`, which rests on `OInv`), so that only contexts
and their streams could be left, and a context is not part of another.

### Model-checked only

- Liveness: `Terminates`, `CallsEnd` and `CloseAnswers`.
- `ImplementsPageList`, where the list of pages is put together from the lists of all
  levels of the tree.
- Of `DocumentContext`, `TypeOK`.

## 5. What is not modelled, and why

- Third-party libraries, image conversions, font programs and char strings, filters:
  sequential decoders without state shared with the rest.
- The parser, decryption and the maps of copying contexts: what they do depends on the
  bytes of the file that is read. The models take what they deliver as given.
- `AbstractWrittenFont` and the used fonts: glyph encodings are a matter of tables of
  255 and 65535 entries, and the font files. `ContentContext` has the choice between a
  font's written fonts.
- Cross-reference streams, a second format for what `XrefTable` writes.
- Drivers: the counts of parsed objects, `InfoDictionaryDriver`, dates, text strings,
  the table of colours, free contexts, `startUnfilteredPDFStream`, `recrypt`, the
  queries of image dimensions, the parsing of options, and the operations of
  `ObjectsContext` that `ObjectsContext` has already (`startModifiedIndirectObject`,
  `deleteObject`). They keep no state that outlives the call, or single fields.
- Streams with a direct length, tiled patterns, resource writing tasks, merged pages
  as content.

What would come next: `EncryptionHelper` as a module of its own (`mXcrypts`, `Setup`,
`Release`) and the map of source to target IDs of a copying context, with cycles of
references.
