----------------------- MODULE IndirectObjectsRegistry -----------------------
(***************************************************************************)
(* IndirectObjectsReferenceRegistry: the vector mObjectsWritesRegistry,    *)
(* indexed by object ID, that knows of every indirect object of the PDF    *)
(* being written whether it was written, where, and in which generation.   *)
(* The vector is a sequence; the entry of ID i is its element i + 1.       *)
(***************************************************************************)
EXTENDS Integers, Sequences

CONSTANTS
    MaxGeneration,      \* 65535 in the code, the generation of no return
    MaxWritePosition    \* 9999999999 in the code, the widest xref position

ASSUME RegistryAssumption == /\ MaxGeneration \in Nat \ {0}
                             /\ MaxWritePosition \in Nat

\* The value of an mWritePosition nobody assigned: no position of a file.
Undefined == -1

ReferenceTypes == {"Free", "Used"}

ObjectWriteInformation ==
    [type : ReferenceTypes, written : BOOLEAN, dirty : BOOLEAN,
     position : Nat \cup {Undefined}, generation : 0 .. MaxGeneration]

\* What the modified file's parser says of an object ID.
XrefEntryInput ==
    [type : {"Existing", "Delete", "StreamObject", "Undefined"},
     position : Nat, revision : 0 .. MaxGeneration]

InitialFreeObject ==
    [type |-> "Free", written |-> FALSE, dirty |-> TRUE, position |-> 0,
     generation |-> MaxGeneration]

NewObject ==
    [type |-> "Used", written |-> FALSE, dirty |-> TRUE, position |-> Undefined,
     generation |-> 0]

EmptyRegistry == << InitialFreeObject >>

GetObjectsCount(r) == Len(r)

ObjectIDs(r) == 0 .. Len(r) - 1

GetNthObjectReference(r, id) == r[id + 1]

AllocateNewObjectID(r) == Append(r, NewObject)

\* Each registry operation that can fail leaves the registry alone when it does.
CanMarkAsWritten(r, id, position) ==
    /\ id < Len(r)
    /\ ~r[id + 1].written
    /\ position <= MaxWritePosition

MarkObjectAsWritten(r, id, position) ==
    IF CanMarkAsWritten(r, id, position)
    THEN [r EXCEPT ![id + 1].dirty = TRUE,
                   ![id + 1].position = position,
                   ![id + 1].written = TRUE]
    ELSE r

CanMarkAsUpdated(r, id, position) == id < Len(r) /\ position <= MaxWritePosition

MarkObjectAsUpdated_Clean(r, id, position) ==
    IF CanMarkAsUpdated(r, id, position)
    THEN [r EXCEPT ![id + 1].position = position, ![id + 1].type = "Used"]
    ELSE r
MarkObjectAsUpdated_KeepsPosition(r, id, position) ==
    IF CanMarkAsUpdated(r, id, position)
    THEN [r EXCEPT ![id + 1].dirty = TRUE, ![id + 1].type = "Used"]
    ELSE r
MarkObjectAsUpdated(r, id, position) ==
    IF CanMarkAsUpdated(r, id, position)
    THEN [r EXCEPT ![id + 1].dirty = TRUE,
                   ![id + 1].position = position,
                   ![id + 1].type = "Used"]
    ELSE r

CanDelete_AtLast(r, id) == id < Len(r)
CanDelete(r, id) == id < Len(r) /\ r[id + 1].generation # MaxGeneration

DeleteObject(r, id) ==
    IF CanDelete(r, id)
    THEN [r EXCEPT ![id + 1].dirty = TRUE,
                   ![id + 1].generation = @ + 1,
                   ![id + 1].position = 0,
                   ![id + 1].type = "Free"]
    ELSE r

\* An ID of the modified file, as it enters the registry of the new revision.
ExistingItem(entry) ==
    LET used == entry.type # "Delete" IN
    [type |-> IF used THEN "Used" ELSE "Free",
     written |-> used,
     dirty |-> FALSE,
     position |-> IF used THEN entry.position ELSE 0,
     generation |-> IF entry.type = "StreamObject" THEN 0 ELSE entry.revision]

\* xref[i] is the parser's entry of ID i; the entry of ID 0 is skipped.
SetupXrefFromModifiedFile(r, xref) ==
    r \o [i \in 1 .. Len(xref) |-> ExistingItem(xref[i])]

\* What the state file keeps of an entry: the position only once written.
Saved_DropsDirty(entry) ==
    [entry EXCEPT !.position = IF entry.written THEN @ ELSE Undefined, !.dirty = FALSE]
Saved(entry) ==
    [entry EXCEPT !.position = IF entry.written THEN @ ELSE Undefined]

WriteAndReadState(r) == [i \in 1 .. Len(r) |-> Saved(r[i])]

(***************************************************************************)
(* What a reader of the new revision is told: the entries that changed.    *)
(***************************************************************************)
DirtyIDs(r) == {id \in ObjectIDs(r) : r[id + 1].dirty}

FreeIDs(r) == {id \in DirtyIDs(r) : r[id + 1].type = "Free"}

\* The xref table can be written when no entry of it is an unwritten object.
CanWriteXref_Always(r) == TRUE
CanWriteXref(r) == \A id \in DirtyIDs(r) : r[id + 1].type = "Used" => r[id + 1].written
=============================================================================
