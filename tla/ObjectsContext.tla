---------------------------- MODULE ObjectsContext ----------------------------
(***************************************************************************)
(* ObjectsContext: everything that is written to the PDF goes through it.  *)
(* It numbers the indirect objects, writes their headers to the file and   *)
(* records the position of each in the registry, keeps the stack of open   *)
(* dictionaries, opens and closes streams (whose length is an object of    *)
(* its own, written after them), drives the encryption helper, and in the  *)
(* end writes the xref table.                                              *)
(*                                                                         *)
(* The file is a sequence of tokens; the position of a token is the number *)
(* of tokens before it.  The client is the rest of the library, or a       *)
(* program that holds the ObjectsContext of a writer: it may make any call *)
(* at any time.  When Disciplined is TRUE it nests its calls the way the   *)
(* library does.                                                           *)
(***************************************************************************)
EXTENDS IndirectObjectsRegistry, FiniteSets, SequencesExt

CONSTANTS
    Disciplined,      \* the client nests objects, dictionaries and streams
    MayEncrypt,       \* whether documents may be, or must be, encrypted: a set
    OriginalXrefs,    \* xrefs of the files being modified; <<>> is a new file
    ClientKeys,       \* the keys of streams that a client writes by itself
    MaxDictionaries,  \* bound: dictionaries open at a time
    MaxObjects,       \* bound: entries of the registry
    MaxTokens,        \* bound: tokens written, the header and the original aside
    MaxRestarts       \* bound: Shutdown / ContinuePDF pairs

ASSUME ContextAssumption ==
    /\ Disciplined \in BOOLEAN
    /\ MayEncrypt \subseteq BOOLEAN
    /\ OriginalXrefs \subseteq Seq(XrefEntryInput)
    /\ ClientKeys \subseteq {"Filter", "Length"}
    /\ MaxDictionaries \in Nat /\ MaxObjects \in Nat /\ MaxTokens \in Nat /\ MaxRestarts \in Nat

VARIABLES
    registry,         \* mReferencesRegistry
    file,             \* what went to mOutputStream
    dictionaryStack,  \* mDictionaryStack
    streams,          \* the PDFStream objects not yet ended
    compressStreams,  \* mCompressStreams
    isEncrypted,      \* the document's mIsDocumentEncrypted
    helperAttached,   \* mEncryptionHelper # NULL
    pauseLevel,       \* mEncryptionPauseLevel
    keysStack,        \* mEncryptionKeysStack, a key being named by its object
    xrefStatus,       \* "none" until WriteXrefTable, then its result
    original,         \* history: the modified file's xref
    open,             \* history: what a disciplined client has open
    restarts          \* history: Shutdown / ContinuePDF pairs so far

encryption == <<isEncrypted, helperAttached, pauseLevel, keysStack>>
client == <<original, open, restarts>>
vars == <<registry, file, dictionaryStack, streams, compressStreams, encryption,
          xrefStatus, client>>

NoKey == 0        \* the key of what is not encrypted; 0 is no written object
EmptyKey == MaxObjects + 1      \* scEmptyByteList: no object is open
GarbageKey == MaxObjects + 2    \* back() of a list popped when empty

TokenKinds == {"header", "obj", "endobj", "<<", ">>", "stream", "data",
               "endstream", "length", "filler"}
Token == [kind : TokenKinds, ref : Nat, val : Nat]
Tk(kind, ref, val) == [kind |-> kind, ref |-> ref, val |-> val]

\* A DictionaryContext: where its << was written and which of the keys that
\* streams add it already has.
Dictionary == [at : Nat, keys : SUBSET {"Filter", "Length"}]

\* A PDFStream: its length object, where its data starts, whether its writer
\* holds data back until it is finalized, its encryption key, the data held.
Stream == [extent : Nat, start : Nat, compressed : BOOLEAN, key : Nat, pending : Nat]

GetCurrentPosition_Ahead == Len(file) + 1
GetCurrentPosition == Len(file)

IsEncrypting == helperAttached /\ isEncrypted /\ pauseLevel = 0
-----------------------------------------------------------------------------
(***************************************************************************)
(* The disciplined client: one object at a time, dictionaries inside it,   *)
(* a stream as its last part.                                              *)
(***************************************************************************)
Nested(guard) == Disciplined => guard
Opened(what) == IF Disciplined THEN Append(open, what) ELSE open
Closed(n) == IF Disciplined THEN SubSeq(open, 1, Len(open) - n) ELSE open

InObject == open # <<>> /\ Last(open) # "stream"

SmallEnough == /\ xrefStatus = "none"
               /\ Len(file) <= Len(original) + MaxTokens

-----------------------------------------------------------------------------
OriginalToken(entry, id) ==
    IF entry.type = "Existing" THEN Tk("obj", id, entry.revision) ELSE Tk("filler", 0, 0)

\* A new file gets a helper when it is to be encrypted; a modified one when it is
\* encrypted, and the helper encrypts nothing if the file cannot be decrypted.
MayBeAttached(attached) ==
    \/ isEncrypted /\ attached = TRUE
    \/ ~isEncrypted /\ original = <<>> /\ attached = FALSE
    \/ ~isEncrypted /\ original # <<>> /\ attached \in BOOLEAN

\* The entry of ID i of a modified file is at position i.
Init ==
    /\ original \in OriginalXrefs
    /\ isEncrypted \in MayEncrypt
    /\ MayBeAttached(helperAttached)
    /\ registry = SetupXrefFromModifiedFile(EmptyRegistry, original)
    /\ file = <<Tk("header", 0, 0)>>
                  \o [i \in 1 .. Len(original) |-> OriginalToken(original[i], i)]
    /\ dictionaryStack = <<>>
    /\ streams = {}
    /\ compressStreams \in BOOLEAN
    /\ pauseLevel = 0
    /\ keysStack = <<>>
    /\ xrefStatus = "none"
    /\ open = <<>>
    /\ restarts = 0

OnObjectStart(id) ==
    keysStack' = IF IsEncrypting THEN Append(keysStack, id) ELSE keysStack

\* Popping an empty list is undefined: the list stays empty or holds garbage.
PopKey ==
    IF keysStack = <<>>
    THEN keysStack' \in {<<>>, <<GarbageKey>>}
    ELSE keysStack' = Front(keysStack)

OnObjectEnd == IF IsEncrypting THEN PopKey ELSE UNCHANGED keysStack

Emit(tokens) == file' = file \o tokens

AllocateNewObject ==
    /\ SmallEnough
    /\ GetObjectsCount(registry) < MaxObjects
    /\ registry' = AllocateNewObjectID(registry)
    /\ UNCHANGED <<file, dictionaryStack, streams, compressStreams, encryption,
                   xrefStatus, client>>

\* Common to the three ways of starting an object: the header always says
\* generation 0, and is written whatever the registry answered.
WriteObjectHeader(id) ==
    /\ Emit(<<Tk("obj", id, 0)>>)
    /\ OnObjectStart(id)
    /\ open' = Opened("obj")
    /\ UNCHANGED <<dictionaryStack, streams, compressStreams, isEncrypted,
                   helperAttached, pauseLevel, xrefStatus, original, restarts>>

StartNewIndirectObject ==
    /\ SmallEnough
    /\ GetObjectsCount(registry) < MaxObjects
    /\ Nested(open = <<>>)
    /\ LET id == GetObjectsCount(registry) IN
       /\ registry' = MarkObjectAsWritten(AllocateNewObjectID(registry), id,
                                          GetCurrentPosition)
       /\ WriteObjectHeader(id)

StartNewIndirectObjectWithID(id) ==
    /\ SmallEnough
    /\ Nested(/\ open = <<>>
              /\ id \in DirtyIDs(registry)
              /\ registry[id + 1].type = "Used" /\ ~registry[id + 1].written)
    /\ registry' = MarkObjectAsWritten(registry, id, GetCurrentPosition)
    /\ WriteObjectHeader(id)

StartModifiedIndirectObject(id) ==
    /\ SmallEnough
    /\ Nested(/\ open = <<>>
              /\ id \in ObjectIDs(registry)
              /\ registry[id + 1].type = "Used" /\ registry[id + 1].written)
    /\ registry' = MarkObjectAsUpdated(registry, id, GetCurrentPosition)
    /\ WriteObjectHeader(id)

EndIndirectObject ==
    /\ SmallEnough
    /\ Nested(open # <<>> /\ Last(open) = "obj")
    /\ Emit(<<Tk("endobj", 0, 0)>>)
    /\ OnObjectEnd
    /\ open' = Closed(1)
    /\ UNCHANGED <<registry, dictionaryStack, streams, compressStreams, isEncrypted,
                   helperAttached, pauseLevel, xrefStatus, original, restarts>>

DeleteAnObject(id) ==
    /\ SmallEnough
    /\ Nested(open = <<>>)
    /\ registry' = DeleteObject(registry, id)
    /\ UNCHANGED <<file, dictionaryStack, streams, compressStreams, encryption,
                   xrefStatus, client>>

SetCompressStreams(value) ==
    /\ SmallEnough
    /\ compressStreams' = value
    /\ UNCHANGED <<registry, file, dictionaryStack, streams, encryption, xrefStatus,
                   client>>
-----------------------------------------------------------------------------
NewDictionary == [at |-> GetCurrentPosition, keys |-> {}]

StartDictionary ==
    /\ SmallEnough
    /\ Nested(InObject)
    /\ Len(dictionaryStack) < MaxDictionaries
    /\ dictionaryStack' = Append(dictionaryStack, NewDictionary)
    /\ Emit(<<Tk("<<", 0, 0)>>)
    /\ open' = Opened("<<")
    /\ UNCHANGED <<registry, streams, compressStreams, encryption, xrefStatus,
                   original, restarts>>

\* WriteKey refuses a key the dictionary has.
WriteKey(i, key) ==
    /\ SmallEnough
    /\ Nested(i = Len(dictionaryStack))
    /\ key \notin dictionaryStack[i].keys
    /\ dictionaryStack' = [dictionaryStack EXCEPT ![i].keys = @ \cup {key}]
    /\ UNCHANGED <<registry, file, streams, compressStreams, encryption, xrefStatus,
                   client>>

\* Ending any dictionary but the last started fails and changes nothing.
EndDictionary ==
    /\ SmallEnough
    /\ Nested(open # <<>> /\ Last(open) = "<<")
    /\ dictionaryStack # <<>>
    /\ dictionaryStack' = Front(dictionaryStack)
    /\ Emit(<<Tk(">>", 0, 0)>>)
    /\ open' = Closed(1)
    /\ UNCHANGED <<registry, streams, compressStreams, encryption, xrefStatus,
                   original, restarts>>
-----------------------------------------------------------------------------
(***************************************************************************)
(* Streams.  i is the place in the stack of the dictionary the client      *)
(* passes, 0 when it passes none and the stream opens one of its own.      *)
(***************************************************************************)
StackForStream(i) ==
    IF i = 0 THEN Append(dictionaryStack, NewDictionary) ELSE dictionaryStack

StreamDictionary(i) == IF i = 0 THEN Len(dictionaryStack) + 1 ELSE i

OwnOpening(i) == IF i = 0 THEN <<Tk("<<", 0, 0)>> ELSE <<>>

\* A filtered stream is compressed when the context compresses streams.
KeysForStream(compressed) == IF compressed THEN {"Filter", "Length"} ELSE {"Length"}

KeysClash(i, compressed) ==
    StackForStream(i)[StreamDictionary(i)].keys \cap KeysForStream(compressed) # {}

MayStartStream(i, compressed) ==
    /\ SmallEnough
    /\ GetObjectsCount(registry) < MaxObjects
    /\ compressed => compressStreams
    /\ Nested(/\ IF i = 0 THEN open = <<"obj">> ELSE open = <<"obj", "<<">>
              /\ i = Len(dictionaryStack)
              /\ ~KeysClash(i, compressed))

\* The dictionary has a key the stream needs: no stream.
StartStreamDuplicateKey(i, compressed) ==
    /\ MayStartStream(i, compressed)
    /\ KeysClash(i, compressed)
    /\ dictionaryStack' =
         IF compressed /\ "Filter" \notin dictionaryStack[i].keys
         THEN [dictionaryStack EXCEPT ![i].keys = @ \cup {"Filter"}]
         ELSE dictionaryStack
    /\ UNCHANGED <<registry, file, streams, compressStreams, encryption, xrefStatus,
                   client>>

\* The dictionary has an open child: no stream, but its length has an ID.
StartStreamBadNesting(i, compressed) ==
    /\ MayStartStream(i, compressed)
    /\ ~KeysClash(i, compressed)
    /\ i \in 1 .. Len(dictionaryStack) - 1
    /\ dictionaryStack' =
         [dictionaryStack EXCEPT ![i].keys = @ \cup KeysForStream(compressed)]
    /\ registry' = AllocateNewObjectID(registry)
    /\ UNCHANGED <<file, streams, compressStreams, encryption, xrefStatus, client>>

CurrentObjectKey == IF keysStack = <<>> THEN EmptyKey ELSE Last(keysStack)

StreamKey == IF IsEncrypting THEN CurrentObjectKey ELSE NoKey

\* The helper is paused after the stream took its key, never before.
StartStream(i, compressed) ==
    /\ MayStartStream(i, compressed)
    /\ ~KeysClash(i, compressed)
    /\ StreamDictionary(i) = Len(StackForStream(i))
    /\ dictionaryStack' = Front(StackForStream(i))
    /\ LET extent == GetObjectsCount(registry)
           tokens == OwnOpening(i) \o <<Tk(">>", 0, 0), Tk("stream", StreamKey, extent)>>
       IN
       /\ registry' = AllocateNewObjectID(registry)
       /\ Emit(tokens)
       /\ streams' = streams \cup
            {[extent |-> extent, start |-> Len(file) + Len(tokens),
              compressed |-> compressed, key |-> StreamKey, pending |-> 0]}
    /\ pauseLevel' = IF helperAttached THEN pauseLevel + 1 ELSE pauseLevel
    /\ open' = IF Disciplined THEN <<"obj", "stream">> ELSE open
    /\ UNCHANGED <<compressStreams, isEncrypted, helperAttached, keysStack, xrefStatus,
                   original, restarts>>

\* A compressing or encrypting writer may hold back what it is given.
WriteStreamData(s) ==
    /\ SmallEnough
    /\ \/ /\ Emit(<<Tk("data", s.key, s.extent)>>)
          /\ UNCHANGED streams
       \/ /\ s.compressed \/ s.key # NoKey
          /\ s.pending = 0
          /\ streams' = (streams \ {s}) \cup {[s EXCEPT !.pending = 1]}
          /\ UNCHANGED file
    /\ UNCHANGED <<registry, dictionaryStack, compressStreams, encryption, xrefStatus,
                   client>>

\* FinalizeStreamWrite flushes the stream's writer, then measures what was written.
HeldData(s) == [k \in 1 .. s.pending |-> Tk("data", s.key, s.extent)]

StreamLength_BeforeFlush(s) == Len(file) - s.start
StreamLength(s) == Len(file) + s.pending - s.start

ExtentWritten_Unmarked(s, position) == registry
ExtentWritten(s, position) == MarkObjectAsWritten(registry, s.extent, position)

ReleaseEncryption_Not == pauseLevel
ReleaseEncryption == IF helperAttached THEN pauseLevel - 1 ELSE pauseLevel

EndPDFStream(s) ==
    /\ SmallEnough
    /\ streams' = streams \ {s}
    /\ LET ending == HeldData(s) \o <<Tk("endstream", 0, s.extent), Tk("endobj", 0, 0)>>
       IN
       /\ registry' = ExtentWritten(s, Len(file) + Len(ending))
       /\ Emit(ending \o <<Tk("obj", s.extent, 0),
                           Tk("length", s.extent, StreamLength(s)),
                           Tk("endobj", 0, 0)>>)
    /\ pauseLevel' = ReleaseEncryption
       \* the stream's object ends; the length's starts and ends, and leaves no key
    /\ IF helperAttached /\ isEncrypted /\ pauseLevel' = 0
       THEN PopKey
       ELSE UNCHANGED keysStack
    /\ open' = Closed(2)
    /\ UNCHANGED <<dictionaryStack, compressStreams, isEncrypted, helperAttached,
                   xrefStatus, original, restarts>>
-----------------------------------------------------------------------------
(***************************************************************************)
(* Shutdown writes the registry to a state file and the process ends;      *)
(* ContinuePDF, in another, reads it into a new ObjectsContext, to which   *)
(* nothing attaches the encryption helper.                                 *)
(***************************************************************************)
ShutdownAndContinue ==
    /\ xrefStatus = "none"
    /\ restarts < MaxRestarts
    /\ Nested(open = <<>>)
    /\ registry' = WriteAndReadState(registry)
    /\ dictionaryStack' = <<>>
    /\ streams' = {}
    /\ helperAttached' = FALSE
    /\ pauseLevel' = 0
    /\ keysStack' = <<>>
    /\ restarts' = restarts + 1
    /\ UNCHANGED <<file, compressStreams, isEncrypted, xrefStatus, original, open>>

WriteXrefTable ==
    /\ xrefStatus = "none"
    /\ Nested(open = <<>>)
    /\ xrefStatus' = IF CanWriteXref(registry) THEN "ok" ELSE "failed"
    /\ UNCHANGED <<registry, file, dictionaryStack, streams, compressStreams,
                   encryption, client>>

Next ==
    \/ AllocateNewObject
    \/ StartNewIndirectObject
    \/ \E id \in 0 .. GetObjectsCount(registry) :
          \/ StartNewIndirectObjectWithID(id)
          \/ StartModifiedIndirectObject(id)
          \/ DeleteAnObject(id)
    \/ EndIndirectObject
    \/ \E value \in BOOLEAN : SetCompressStreams(value)
    \/ StartDictionary
    \/ \E i \in 1 .. Len(dictionaryStack), key \in ClientKeys : WriteKey(i, key)
    \/ EndDictionary
    \/ \E i \in 0 .. Len(dictionaryStack), compressed \in BOOLEAN :
          \/ StartStreamDuplicateKey(i, compressed)
          \/ StartStreamBadNesting(i, compressed)
          \/ StartStream(i, compressed)
    \/ \E s \in streams : WriteStreamData(s) \/ EndPDFStream(s)
    \/ ShutdownAndContinue
    \/ WriteXrefTable

Spec == Init /\ [][Next]_vars
-----------------------------------------------------------------------------
(***************************************************************************)
(* Properties.                                                             *)
(***************************************************************************)

\* Every variable holds what the code's types allow, and the registry, whose
\* entries are never removed, numbers at least the free head and the objects
\* of the modified file.
TypeOK ==
    /\ registry \in Seq(ObjectWriteInformation)
    /\ Len(registry) > Len(original)
    /\ file \in Seq(Token)
    /\ dictionaryStack \in Seq(Dictionary)
    /\ streams \subseteq Stream
    /\ compressStreams \in BOOLEAN
    /\ isEncrypted \in BOOLEAN
    /\ helperAttached \in BOOLEAN
    /\ pauseLevel \in Int
    /\ keysStack \in Seq(Nat)
    /\ xrefStatus \in {"none", "ok", "failed"}
    /\ original \in Seq(XrefEntryInput)
    /\ open \in Seq({"obj", "<<", "stream"})
    /\ restarts \in Nat

IsHeaderOf(token, id) == token.kind = "obj" /\ token.ref = id

\* The entries a reader follows, those of the objects in use that the new
\* revision lists, have a position of at most ten digits at which the file has
\* the header of that very object (MarkObjectAsWritten, MarkObjectAsUpdated),
\* whatever order the client makes its calls in.
XrefEntryOK(id) ==
    LET entry == registry[id + 1] IN
    /\ entry.position \in 0 .. MaxWritePosition
    /\ entry.position < Len(file)
    /\ IsHeaderOf(file[entry.position + 1], id)

XrefEntriesPointAtHeaders ==
    \A id \in DirtyIDs(registry) :
        registry[id + 1].type = "Used" /\ registry[id + 1].written => XrefEntryOK(id)

HeadersSince(n, id) == {k \in n + 1 .. Len(file) : IsHeaderOf(file[k], id)}

\* What the original file and its header take.
OriginalLength == Len(original) + 1

\* Of a disciplined client's objects the reader finds the last version: no
\* header of the object follows the one its entry points at.
XrefFindsLastVersion ==
    \A id \in DirtyIDs(registry) :
        registry[id + 1].type = "Used" /\ registry[id + 1].written =>
            HeadersSince(registry[id + 1].position + 1, id) = {}

OriginalIDs == 1 .. Len(original)

\* An incremental update says nothing of the objects it did not touch: of the
\* modified file's objects the new xref lists exactly those that were written
\* again or deleted in this session, restarts included, and what the registry
\* knows of the others is what the modified file said.
UpdateListsWhatChanged ==
    \A id \in OriginalIDs :
        LET entry == registry[id + 1]
            before == ExistingItem(original[id])
        IN
        /\ entry.dirty <=> \/ HeadersSince(OriginalLength, id) # {}
                           \/ entry.generation # before.generation
        /\ ~entry.dirty => /\ entry.type = before.type
                           /\ entry.generation = before.generation
                           /\ entry.type = "Used" => entry.position = before.position

\* The length object of a stream holds the number of tokens between its
\* stream and endstream keywords, all the data its writer held back included
\* (PDFStream::FinalizeStreamWrite), and is written once its stream is.
LengthObjectsMeasureStreams ==
    \A k \in 1 .. Len(file) : file[k].kind = "length" =>
        \E i \in 1 .. k, j \in 1 .. k :
            /\ file[i].kind = "stream" /\ file[i].val = file[k].ref
            /\ file[j].kind = "endstream" /\ file[j].val = file[k].ref
            /\ file[k].val = j - i - 1

\* In an encrypted document a stream, and all of its data, is encrypted, and with
\* the key of the object the stream is part of: pausing and resuming the helper
\* around streams leaves its stack of keys in step with the objects.
StreamsUseOwnKey ==
    isEncrypted => \A k \in 1 .. Len(file) : file[k].kind \in {"stream", "data"} =>
        \E i \in 1 .. k - 1 :
            /\ IsHeaderOf(file[i], file[k].ref)
            /\ \A j \in i + 1 .. k - 1 : file[j].kind # "obj"

\* The header of an object carries the generation its xref entry announces. The code
\* does not keep this of an object of a later generation; no run checks it.
HeadersCarryGeneration ==
    \A id \in DirtyIDs(registry) :
        registry[id + 1].type = "Used" /\ registry[id + 1].written =>
            file[registry[id + 1].position + 1].val = registry[id + 1].generation

\* The objects that would have to be written for the xref table to be.
Missing == {id \in DirtyIDs(registry) :
              registry[id + 1].type = "Used" /\ ~registry[id + 1].written}

\* A disciplined client that has nothing open and whose own objects, those it
\* allocated, are written can end the document: no length object of a stream
\* is left unwritten.
NoLengthIsMissing ==
    open = <<>> =>
        \A k \in 1 .. Len(file) : file[k].kind = "stream" => file[k].val \notin Missing

\* What the xref table would say if it were written now.
XrefView(r) ==
    [id \in DirtyIDs(r) |->
        <<r[id + 1].type, r[id + 1].written, r[id + 1].generation,
          IF r[id + 1].written THEN r[id + 1].position ELSE 0>>]

\* Shutdown and ContinuePDF change nothing of the xref table to be written, and
\* the number the next object gets.
RestartKeepsXref ==
    [][restarts' # restarts =>
        XrefView(registry') = XrefView(registry) /\ Len(registry') = Len(registry)]_vars
=============================================================================
