------------------------------ MODULE XrefTable ------------------------------
(***************************************************************************)
(* ObjectsContext::WriteXrefTable, loop by loop.  The table is a sequence  *)
(* of subsections, one per run of consecutive IDs whose entry is dirty.  A *)
(* subsection says its first ID and how many rows follow; a row does not   *)
(* say its ID, a reader counts.  The rows of free objects form a list that *)
(* starts at object 0.                                                     *)
(***************************************************************************)
EXTENDS IndirectObjectsRegistry

CONSTANT Registries     \* the registries the table may have to be written from

\* The registry starts with the free object that heads the list (Reset and
\* SetupXrefFromModifiedFile), which nothing deletes or writes.
ASSUME XrefTableAssumption ==
    \A r \in Registries : /\ r \in Seq(ObjectWriteInformation)
                          /\ Len(r) > 0
                          /\ r[1].type = "Free" /\ r[1].dirty

VARIABLES
    registry,           \* mReferencesRegistry, which nothing changes here
    pc,                 \* the loop being executed
    startID, firstIDNotInRange, i, nextFreeObject,     \* the local variables
    status,
    sections            \* what is written so far

locals == <<startID, firstIDNotInRange, i, nextFreeObject>>
vars == <<registry, pc, locals, status, sections>>

Count == GetObjectsCount(registry)

IsDirty(id) == GetNthObjectReference(registry, id).dirty
IsFree(id) == GetNthObjectReference(registry, id).type = "Free"
IsWritten(id) == GetNthObjectReference(registry, id).written
Generation(id) == GetNthObjectReference(registry, id).generation

Row == [kind : {"n", "f"}, field : Nat \cup {Undefined}, generation : Nat]
Section == [start : Nat, count : Nat, rows : Seq(Row)]

UsedRow(id) ==
    [kind |-> "n", field |-> GetNthObjectReference(registry, id).position,
     generation |-> Generation(id)]
FreeRow(id, next) == [kind |-> "f", field |-> next, generation |-> Generation(id)]

AddRow(row) ==
    sections' = [sections EXCEPT ![Len(sections)].rows = Append(@, row)]

Init ==
    /\ registry \in Registries
    /\ pc = "sections"
    /\ startID = 0 /\ firstIDNotInRange = 0 /\ i = 0 /\ nextFreeObject = 0
    /\ status = "ok"
    /\ sections = <<>>

\* The outer loop: another subsection, or the end.
NextSection ==
    /\ pc = "sections"
    /\ pc' = IF startID < Count THEN "range" ELSE "done"
    /\ firstIDNotInRange' = IF startID < Count THEN startID ELSE firstIDNotInRange
    /\ UNCHANGED <<registry, startID, i, nextFreeObject, status, sections>>

\* The end of the run of dirty IDs, then the subsection's header.
ExtendRange ==
    /\ pc = "range"
    /\ firstIDNotInRange < Count /\ IsDirty(firstIDNotInRange)
    /\ firstIDNotInRange' = firstIDNotInRange + 1
    /\ UNCHANGED <<registry, pc, startID, i, nextFreeObject, status, sections>>

WriteSectionHeader_CountsLast ==
    /\ pc = "range"
    /\ ~(firstIDNotInRange < Count /\ IsDirty(firstIDNotInRange))
    /\ sections' = Append(sections, [start |-> startID,
                                     count |-> firstIDNotInRange - startID + 1,
                                     rows |-> <<>>])
    /\ i' = startID
    /\ pc' = "rows"
    /\ UNCHANGED <<registry, startID, firstIDNotInRange, nextFreeObject, status>>

WriteSectionHeader ==
    /\ pc = "range"
    /\ ~(firstIDNotInRange < Count /\ IsDirty(firstIDNotInRange))
    /\ sections' = Append(sections, [start |-> startID,
                                     count |-> firstIDNotInRange - startID,
                                     rows |-> <<>>])
    /\ i' = startID
    /\ pc' = "rows"
    /\ UNCHANGED <<registry, startID, firstIDNotInRange, nextFreeObject, status>>

\* The rows.  A used object that was never written is a failure.
InRows == pc = "rows" /\ i < firstIDNotInRange

WriteUsedRow ==
    /\ InRows /\ ~IsFree(i) /\ IsWritten(i)
    /\ AddRow(UsedRow(i))
    /\ i' = i + 1
    /\ UNCHANGED <<registry, pc, startID, firstIDNotInRange, nextFreeObject, status>>

FailOnUnwritten_FreeToo ==
    /\ InRows /\ ~IsWritten(i)
    /\ status' = "failed"
    /\ pc' = "done"
    /\ UNCHANGED <<registry, locals, sections>>

FailOnUnwritten ==
    /\ InRows /\ ~IsFree(i) /\ ~IsWritten(i)
    /\ status' = "failed"
    /\ pc' = "done"
    /\ UNCHANGED <<registry, locals, sections>>

StartSeekingFree ==
    /\ InRows /\ IsFree(i)
    /\ nextFreeObject' = nextFreeObject + 1
    /\ pc' = "seek"
    /\ UNCHANGED <<registry, startID, firstIDNotInRange, i, status, sections>>

\* A row of the free list leads to the next dirty and free object.
Passes(id) == ~IsDirty(id) \/ ~IsFree(id)

SeekFree ==
    /\ pc = "seek"
    /\ nextFreeObject < Count /\ Passes(nextFreeObject)
    /\ nextFreeObject' = nextFreeObject + 1
    /\ UNCHANGED <<registry, pc, startID, firstIDNotInRange, i, status, sections>>

\* The last one links back to the head, object 0.
LinkBack_Never(next) == next
LinkBack(next) == IF next = Count THEN 0 ELSE next

WriteFreeRow ==
    /\ pc = "seek"
    /\ ~(nextFreeObject < Count /\ Passes(nextFreeObject))
    /\ nextFreeObject' = LinkBack(nextFreeObject)
    /\ AddRow(FreeRow(i, nextFreeObject'))
    /\ i' = i + 1
    /\ pc' = "rows"
    /\ UNCHANGED <<registry, startID, firstIDNotInRange, status>>

EndSection_PastClean ==
    /\ pc = "rows" /\ i >= firstIDNotInRange
    /\ startID' = firstIDNotInRange + 1
    /\ pc' = "skip"
    /\ UNCHANGED <<registry, firstIDNotInRange, i, nextFreeObject, status, sections>>

EndSection ==
    /\ pc = "rows" /\ i >= firstIDNotInRange
    /\ startID' = firstIDNotInRange
    /\ pc' = "skip"
    /\ UNCHANGED <<registry, firstIDNotInRange, i, nextFreeObject, status, sections>>

\* Promote startID to the next object to update.
SkipClean_Stays ==
    /\ pc = "skip"
    /\ IF startID < Count /\ ~IsDirty(startID)
       THEN UNCHANGED pc
       ELSE pc' = "sections"
    /\ UNCHANGED <<registry, locals, status, sections>>

SkipClean ==
    /\ pc = "skip"
    /\ IF startID < Count /\ ~IsDirty(startID)
       THEN startID' = startID + 1 /\ UNCHANGED pc
       ELSE pc' = "sections" /\ UNCHANGED startID
    /\ UNCHANGED <<registry, firstIDNotInRange, i, nextFreeObject, status, sections>>

Done == pc = "done" /\ UNCHANGED vars

Next ==
    \/ NextSection \/ ExtendRange \/ WriteSectionHeader
    \/ WriteUsedRow \/ FailOnUnwritten \/ StartSeekingFree \/ SeekFree \/ WriteFreeRow
    \/ EndSection \/ SkipClean
    \/ Done

\* A call runs to its end.
Spec == Init /\ [][Next]_vars /\ WF_vars(Next)
-----------------------------------------------------------------------------
(***************************************************************************)
(* Properties.                                                             *)
(***************************************************************************)

\* The loops' variables stay within the registry, and the rows are rows.
TypeOK ==
    /\ registry \in Seq(ObjectWriteInformation)
    /\ pc \in {"sections", "range", "rows", "seek", "skip", "done"}
    /\ startID \in 0 .. Count
    /\ firstIDNotInRange \in 0 .. Count
    /\ i \in 0 .. Count
    /\ nextFreeObject \in 0 .. Count
    /\ status \in {"ok", "failed"}
    /\ sections \in Seq(Section)

\* The ID a reader gives the k-th row of a subsection.
ReadID(s, k) == s.start + k - 1

IsNextFree(id, next) ==
    \/ /\ next \in FreeIDs(registry) /\ next > id
       /\ \A other \in FreeIDs(registry) : other > id => next <= other
    \/ /\ next = 0
       /\ \A other \in FreeIDs(registry) : other <= id

\* A row says of the ID a reader gives it what the registry knows: the position
\* of an object that was written, or the next free object of the list, which
\* after the last one is object 0.
RowIsRight(row, id) ==
    /\ id \in DirtyIDs(registry)
    /\ row.generation = Generation(id)
    /\ \/ row.kind = "n" /\ ~IsFree(id) /\ IsWritten(id)
          /\ row.field = GetNthObjectReference(registry, id).position
       \/ row.kind = "f" /\ IsFree(id) /\ IsNextFree(id, row.field)

RowsAreRight ==
    \A n \in 1 .. Len(sections) : \A k \in 1 .. Len(sections[n].rows) :
        RowIsRight(sections[n].rows[k], ReadID(sections[n], k))

HasRow(id) ==
    \E n \in 1 .. Len(sections) :
        id \in sections[n].start .. sections[n].start + Len(sections[n].rows) - 1

\* A table that was written without failure lists every dirty ID, in
\* subsections as long as they say they are, in increasing order of ID.
TableIsComplete ==
    pc = "done" /\ status = "ok" =>
        /\ \A id \in DirtyIDs(registry) : HasRow(id)
        /\ \A n \in 1 .. Len(sections) : Len(sections[n].rows) = sections[n].count
        /\ \A n \in 1 .. Len(sections) - 1 :
              sections[n].start + sections[n].count < sections[n + 1].start

\* Writing fails when, and only when, an object of the table was never written.
FailsOnlyWhenIncomplete ==
    pc = "done" => (status = "ok" <=> CanWriteXref(registry))

\* The loops end.
Terminates == <>(pc = "done")
=============================================================================
