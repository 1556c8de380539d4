--------------------------- MODULE MCObjectsContext ---------------------------
(* Instances of ObjectsContext for TLC. *)
EXTENDS ObjectsContext

Xref(type, position, revision) ==
    [type |-> type, position |-> position, revision |-> revision]

\* A new file.
NewFile == {<<>>}

\* A new file, or a file whose two objects are one in use and one deleted, or
\* one compressed into an object stream and one no section of the xref lists.
NewAndModifiedFiles ==
    {<<>>,
     <<Xref("Existing", 1, 0), Xref("Delete", 0, 1)>>,
     <<Xref("StreamObject", 2, 1), Xref("Undefined", 0, 0)>>}

\* A file whose object was deleted and its number used again: generation 1.
ReusedNumber == {<<Xref("Existing", 1, 1)>>}

NeverEncrypted == {FALSE}
AlwaysEncrypted == {TRUE}
BothWays == BOOLEAN
=============================================================================
