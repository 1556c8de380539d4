--------------------------- MODULE XrefTable_proofs ---------------------------
(***************************************************************************)
(* WriteXrefTable writes the right table of every registry: the free list, *)
(* the IDs a reader gives the rows and what the rows say.  The inductive   *)
(* invariant comes in layers, each resting on the ones before it.          *)
(***************************************************************************)
EXTENDS XrefTable, TLAPS

Open == pc \in {"rows", "seek"}

\* The IDs before it are done with.
Frontier == IF Open THEN i ELSE startID

LastSection == sections[Len(sections)]

HeadIsFree == Len(registry) > 0 /\ registry[1].type = "Free" /\ registry[1].dirty

\* Where the loops' variables are with respect to each other.
Control ==
    /\ pc \in {"range", "rows", "seek"} => startID <= firstIDNotInRange
    /\ pc = "skip" => firstIDNotInRange <= startID
    /\ pc = "range" => startID < Count
    /\ Open => startID <= i /\ i <= firstIDNotInRange
    /\ pc \in {"range", "rows", "seek"} =>
          \A id \in startID .. firstIDNotInRange - 1 : IsDirty(id)
    /\ pc \in {"rows", "seek", "skip"} /\ firstIDNotInRange < Count =>
          ~IsDirty(firstIDNotInRange)
    /\ pc = "seek" => /\ i < firstIDNotInRange /\ IsFree(i) /\ i < nextFreeObject
                      /\ \A id \in i + 1 .. nextFreeObject - 1 : Passes(id)
    /\ status = "failed" => pc = "done" /\ ~CanWriteXref(registry)
    /\ pc = "done" /\ status = "ok" => startID = Count

\* Outside the search, nextFreeObject is the first free object at or after the
\* frontier, or 0 when there is none.
FreeListAhead ==
    pc \notin {"seek", "done"} =>
        \/ /\ nextFreeObject \in FreeIDs(registry) /\ nextFreeObject >= Frontier
           /\ \A other \in FreeIDs(registry) : other >= Frontier => nextFreeObject <= other
        \/ /\ nextFreeObject = 0
           /\ \A other \in FreeIDs(registry) : other < Frontier

\* How the subsections written so far lie with respect to the frontier.
Layout ==
    /\ Open => /\ Len(sections) > 0
               /\ LastSection.start = startID
               /\ LastSection.count = firstIDNotInRange - startID
               /\ Len(LastSection.rows) = i - startID
    /\ \A n \in 1 .. Len(sections) :
          status = "ok" /\ (n < Len(sections) \/ ~Open) =>
              Len(sections[n].rows) = sections[n].count
    /\ \A n \in 1 .. Len(sections) - 1 :
          sections[n].start + sections[n].count < sections[n + 1].start
    /\ pc = "skip" => /\ Len(sections) > 0
                      /\ LastSection.start + LastSection.count = firstIDNotInRange
    /\ pc \in {"sections", "range"} /\ Len(sections) > 0 /\ startID < Count =>
          LastSection.start + LastSection.count < startID

\* Every dirty ID before the frontier has its row, and of those before it that
\* are in use every one was written.
Covered ==
    status = "ok" => \A id \in DirtyIDs(registry) : id < Frontier =>
        /\ HasRow(id)
        /\ registry[id + 1].type = "Used" => registry[id + 1].written
-----------------------------------------------------------------------------
USE DEF Count, GetObjectsCount, GetNthObjectReference, IsDirty, IsFree, IsWritten,
        Generation

\* The entry of an ID of the registry is an entry.
LEMMA EntryType ==
    ASSUME TypeOK, NEW id \in 0 .. Count - 1
    PROVE  registry[id + 1] \in ObjectWriteInformation
BY DEF TypeOK

\* What adding a row to the last subsection does to the table.
LEMMA AddRowEffect ==
    ASSUME TypeOK, Len(sections) > 0, NEW row \in Row, AddRow(row)
    PROVE  /\ sections' \in Seq(Section)
           /\ Len(sections') = Len(sections)
           /\ \A n \in 1 .. Len(sections) : /\ sections'[n].start = sections[n].start
                                            /\ sections'[n].count = sections[n].count
           /\ \A n \in 1 .. Len(sections) - 1 : sections'[n] = sections[n]
           /\ LastSection'.rows = Append(LastSection.rows, row)
<1>1. LastSection \in Section /\ Len(sections) \in Nat
  BY DEF TypeOK, LastSection
<1>2. Append(LastSection.rows, row) \in Seq(Row)
  BY <1>1 DEF Section
<1>3. sections' = [sections EXCEPT ![Len(sections)] =
                     [LastSection EXCEPT !.rows = Append(LastSection.rows, row)]]
  BY DEF AddRow, LastSection
<1>4. [LastSection EXCEPT !.rows = Append(LastSection.rows, row)] \in Section
  BY <1>1, <1>2 DEF Section
<1>5. sections' \in Seq(Section) /\ Len(sections') = Len(sections)
  BY <1>1, <1>3, <1>4 DEF TypeOK
<1>6. \A n \in 1 .. Len(sections) - 1 : sections'[n] = sections[n]
  BY <1>1, <1>3 DEF TypeOK
<1>7. sections'[Len(sections)] = [LastSection EXCEPT !.rows = Append(LastSection.rows, row)]
  BY <1>1, <1>3 DEF TypeOK
<1>8. /\ LastSection'.rows = Append(LastSection.rows, row)
      /\ LastSection'.start = LastSection.start
      /\ LastSection'.count = LastSection.count
  BY <1>1, <1>5, <1>7 DEF LastSection, Section
<1>9. ASSUME NEW n \in 1 .. Len(sections)
      PROVE  sections'[n].start = sections[n].start /\ sections'[n].count = sections[n].count
  <2>1. CASE n = Len(sections)
    BY <2>1, <1>5, <1>8 DEF LastSection
  <2>2. CASE n \in 1 .. Len(sections) - 1
    BY <2>2, <1>6
  <2>. QED  BY <2>1, <2>2, <1>1
<1>. QED  BY <1>5, <1>6, <1>8, <1>9

\* The rows the code writes are rows.
LEMMA RowTypes ==
    ASSUME TypeOK, NEW id \in 0 .. Count - 1, NEW next \in Nat
    PROVE  UsedRow(id) \in Row /\ FreeRow(id, next) \in Row
BY EntryType DEF UsedRow, FreeRow, Row, ObjectWriteInformation

\* The loops' variables stay within the registry, and the registry is headed by
\* a free object that is listed.
TypeInv == TypeOK /\ HeadIsFree

LEMMA TypeInit == Init => TypeInv
<1>. SUFFICES ASSUME Init PROVE TypeInv
  OBVIOUS
<1>1. registry \in Seq(ObjectWriteInformation) /\ HeadIsFree
  BY XrefTableAssumption DEF Init, HeadIsFree
<1>. QED  BY <1>1 DEF Init, TypeInv, TypeOK, HeadIsFree

LEMMA TypeStep == TypeInv /\ Control /\ FreeListAhead /\ Layout /\ [Next]_vars => TypeInv'
<1>. SUFFICES ASSUME TypeInv, Control, FreeListAhead, Layout, [Next]_vars PROVE TypeInv'
  OBVIOUS
<1>. USE DEF TypeInv
<1>0. registry' = registry
  BY DEF Next, vars, locals, NextSection, ExtendRange, WriteSectionHeader, WriteUsedRow,
         FailOnUnwritten, StartSeekingFree, SeekFree, WriteFreeRow, EndSection, SkipClean,
         Done
<1>00. HeadIsFree'
  BY <1>0 DEF HeadIsFree
<1>01. Count \in Nat \ {0}
  BY DEF TypeOK, HeadIsFree
<1>1. CASE NextSection
  BY <1>00, <1>1 DEF NextSection, TypeOK
<1>2. CASE ExtendRange
  BY <1>00, <1>2 DEF ExtendRange, TypeOK
<1>3. CASE WriteSectionHeader
  <2>1. [start |-> startID, count |-> firstIDNotInRange - startID, rows |-> <<>>] \in Section
    BY <1>3 DEF WriteSectionHeader, Section, TypeOK, Control
  <2>2. sections' \in Seq(Section)
    BY <1>3, <2>1 DEF WriteSectionHeader, TypeOK
  <2>. QED  BY <1>00, <1>3, <2>2 DEF WriteSectionHeader, TypeOK
<1>4. CASE WriteUsedRow
  <2>1. i \in 0 .. Count - 1 /\ Len(sections) > 0
    BY <1>4 DEF WriteUsedRow, InRows, TypeOK, Layout, Open
  <2>2. sections' \in Seq(Section)
    BY <1>4, <2>1, RowTypes, AddRowEffect DEF WriteUsedRow
  <2>. QED  BY <1>00, <1>4, <2>1, <2>2 DEF WriteUsedRow, TypeOK
<1>5. CASE FailOnUnwritten
  BY <1>00, <1>5 DEF FailOnUnwritten, TypeOK, locals
<1>6. CASE StartSeekingFree
  <2>1. nextFreeObject + 1 \in 0 .. Count
    BY <1>6 DEF StartSeekingFree, InRows, TypeOK, FreeListAhead, Control, Frontier, Open,
              FreeIDs, DirtyIDs, ObjectIDs
  <2>. QED  BY <1>00, <1>6, <2>1 DEF StartSeekingFree, TypeOK
<1>7. CASE SeekFree
  BY <1>00, <1>7 DEF SeekFree, TypeOK
<1>8. CASE WriteFreeRow
  <2>1. i \in 0 .. Count - 1 /\ Len(sections) > 0
    BY <1>8 DEF WriteFreeRow, TypeOK, Layout, Control, Open
  <2>2. nextFreeObject' \in 0 .. Count
    BY <1>8, <1>01 DEF WriteFreeRow, LinkBack, TypeOK
  <2>3. sections' \in Seq(Section)
    BY <1>8, <2>1, <2>2, RowTypes, AddRowEffect DEF WriteFreeRow
  <2>. QED  BY <1>00, <1>8, <2>1, <2>2, <2>3 DEF WriteFreeRow, TypeOK
<1>9. CASE EndSection
  BY <1>00, <1>9 DEF EndSection, TypeOK
<1>10. CASE SkipClean
  BY <1>00, <1>10 DEF SkipClean, TypeOK
<1>11. CASE Done \/ UNCHANGED vars
  BY <1>00, <1>11 DEF Done, vars, locals, TypeOK
<1>. QED
  BY <1>1, <1>2, <1>3, <1>4, <1>5, <1>6, <1>7, <1>8, <1>9, <1>10, <1>11 DEF Next

LEMMA ControlInit == Init => Control
<1>. SUFFICES ASSUME Init PROVE Control
  OBVIOUS
<1>1. HeadIsFree
  BY XrefTableAssumption DEF Init, HeadIsFree
<1>. QED  BY <1>1 DEF Init, Control, Open, HeadIsFree

LEMMA ControlStep == TypeInv /\ Control /\ FreeListAhead /\ [Next]_vars => Control'
<1>. SUFFICES ASSUME TypeInv, Control, FreeListAhead, [Next]_vars PROVE Control'
  OBVIOUS
<1>0. registry' = registry
  BY DEF Next, vars, locals, NextSection, ExtendRange, WriteSectionHeader, WriteUsedRow,
         FailOnUnwritten, StartSeekingFree, SeekFree, WriteFreeRow, EndSection, SkipClean,
         Done
<1>. USE <1>0 DEF TypeInv, TypeOK, Control, Open
<1>1. CASE NextSection
  BY <1>1 DEF NextSection
<1>2. CASE ExtendRange
  BY <1>2 DEF ExtendRange
<1>3. CASE WriteSectionHeader
  BY <1>3 DEF WriteSectionHeader
<1>4. CASE WriteUsedRow
  BY <1>4 DEF WriteUsedRow, InRows
<1>5. CASE FailOnUnwritten
  <2>1. i \in DirtyIDs(registry) /\ registry[i + 1].type = "Used" /\ ~registry[i + 1].written
    <3>1. i \in 0 .. Count - 1 /\ i \in DirtyIDs(registry)
      BY <1>5 DEF FailOnUnwritten, InRows, DirtyIDs, ObjectIDs
    <3>2. registry[i + 1] \in ObjectWriteInformation
      BY <3>1, EntryType
    <3>. QED  BY <1>5, <3>1, <3>2 DEF FailOnUnwritten, ObjectWriteInformation, ReferenceTypes
  <2>2. ~CanWriteXref(registry)
    BY <2>1 DEF CanWriteXref
  <2>. QED  BY <1>5, <2>2 DEF FailOnUnwritten, locals
<1>6. CASE StartSeekingFree
  <2>1. i \in FreeIDs(registry) /\ nextFreeObject = i
    BY <1>6 DEF StartSeekingFree, InRows, FreeListAhead, Frontier, FreeIDs, DirtyIDs,
                ObjectIDs
  <2>. QED  BY <1>6, <2>1 DEF StartSeekingFree, InRows
<1>7. CASE SeekFree
  BY <1>7 DEF SeekFree, Passes
<1>8. CASE WriteFreeRow
  BY <1>8 DEF WriteFreeRow
<1>9. CASE EndSection
  BY <1>9 DEF EndSection
<1>10. CASE SkipClean
  BY <1>10 DEF SkipClean
<1>11. CASE Done \/ UNCHANGED vars
  BY <1>11 DEF Done, vars, locals, Passes, CanWriteXref
<1>. QED
  BY <1>1, <1>2, <1>3, <1>4, <1>5, <1>6, <1>7, <1>8, <1>9, <1>10, <1>11 DEF Next

LEMMA FreeListInit == Init => FreeListAhead
<1>. SUFFICES ASSUME Init PROVE FreeListAhead
  OBVIOUS
<1>1. HeadIsFree /\ registry \in Seq(ObjectWriteInformation)
  BY XrefTableAssumption DEF Init, HeadIsFree
<1>. QED
  BY <1>1 DEF Init, FreeListAhead, Frontier, Open, HeadIsFree, FreeIDs, DirtyIDs, ObjectIDs

\* When the search for the next free object ends, it has found it.
LEMMA SeekEndsRight ==
    ASSUME TypeInv, Control, WriteFreeRow
    PROVE  IsNextFree(i, nextFreeObject')
<1>1. i \in FreeIDs(registry) /\ i < nextFreeObject
  BY DEF WriteFreeRow, Control, Open, TypeInv, TypeOK, FreeIDs, DirtyIDs, ObjectIDs
<1>2. CASE nextFreeObject = Count
  <2>1. nextFreeObject' = 0
    BY <1>2 DEF WriteFreeRow, LinkBack
  <2>2. \A other \in FreeIDs(registry) : other <= i
    BY <1>2 DEF WriteFreeRow, Control, TypeInv, TypeOK, FreeIDs, DirtyIDs, ObjectIDs, Passes
  <2>. QED  BY <2>1, <2>2 DEF IsNextFree
<1>3. CASE nextFreeObject # Count
  <2>1. nextFreeObject' = nextFreeObject
    BY <1>3 DEF WriteFreeRow, LinkBack
  <2>2. nextFreeObject \in FreeIDs(registry)
    BY <1>3 DEF WriteFreeRow, TypeInv, TypeOK, FreeIDs, DirtyIDs, ObjectIDs, Passes
  <2>3. \A other \in FreeIDs(registry) : other > i => nextFreeObject <= other
    BY DEF WriteFreeRow, Control, TypeInv, TypeOK, FreeIDs, DirtyIDs, ObjectIDs, Passes
  <2>. QED  BY <1>1, <2>1, <2>2, <2>3 DEF IsNextFree
<1>. QED  BY <1>2, <1>3

LEMMA FreeListStep ==
    TypeInv /\ Control /\ FreeListAhead /\ [Next]_vars => FreeListAhead'
<1>. SUFFICES ASSUME TypeInv, Control, FreeListAhead, [Next]_vars PROVE FreeListAhead'
  OBVIOUS
<1>0. registry' = registry
  BY DEF Next, vars, locals, NextSection, ExtendRange, WriteSectionHeader, WriteUsedRow,
         FailOnUnwritten, StartSeekingFree, SeekFree, WriteFreeRow, EndSection, SkipClean,
         Done
<1>00. FreeIDs(registry) \subseteq 0 .. Count - 1
  BY DEF FreeIDs, DirtyIDs, ObjectIDs
<1>. USE <1>0, <1>00 DEF TypeInv, TypeOK, FreeListAhead, Frontier, Open
<1>1. CASE NextSection
  BY <1>1 DEF NextSection
<1>2. CASE ExtendRange
  BY <1>2 DEF ExtendRange
<1>3. CASE WriteSectionHeader
  BY <1>3 DEF WriteSectionHeader
<1>4. CASE WriteUsedRow
  <2>1. i \notin FreeIDs(registry)
    BY <1>4 DEF WriteUsedRow, FreeIDs
  <2>. QED  BY <1>4, <2>1 DEF WriteUsedRow, InRows
<1>5. CASE FailOnUnwritten \/ StartSeekingFree \/ SeekFree
  BY <1>5 DEF FailOnUnwritten, StartSeekingFree, SeekFree
<1>6. CASE WriteFreeRow
  <2>1. IsNextFree(i, nextFreeObject')
    BY <1>6, SeekEndsRight
  <2>. QED  BY <1>6, <2>1 DEF WriteFreeRow, IsNextFree
<1>7. CASE EndSection
  BY <1>7 DEF EndSection, Control
<1>8. CASE SkipClean
  <2>1. CASE startID < Count /\ ~IsDirty(startID)
    <3>1. startID \notin FreeIDs(registry)
      BY <2>1 DEF FreeIDs, DirtyIDs
    <3>. QED  BY <1>8, <2>1, <3>1 DEF SkipClean
  <2>2. CASE ~(startID < Count /\ ~IsDirty(startID))
    BY <1>8, <2>2 DEF SkipClean
  <2>. QED  BY <2>1, <2>2
<1>9. CASE Done \/ UNCHANGED vars
  BY <1>9 DEF Done, vars, locals
<1>. QED
  BY <1>1, <1>2, <1>3, <1>4, <1>5, <1>6, <1>7, <1>8, <1>9 DEF Next

\* The actions that write a row write one.
LEMMA AddedRowIsARow ==
    ASSUME TypeInv, Control, Layout, WriteUsedRow \/ WriteFreeRow
    PROVE  \E row \in Row : AddRow(row)
<1>1. i \in 0 .. Count - 1
  BY DEF WriteUsedRow, WriteFreeRow, InRows, Control, TypeInv, TypeOK
<1>2. CASE WriteUsedRow
  BY <1>1, <1>2, RowTypes DEF WriteUsedRow, TypeInv
<1>3. CASE WriteFreeRow
  BY <1>1, <1>3, RowTypes DEF WriteFreeRow, LinkBack, TypeInv, TypeOK
<1>. QED  BY <1>2, <1>3

\* And the row is right.
LEMMA TheRowIsRight ==
    ASSUME TypeInv, Control, Layout, WriteUsedRow \/ WriteFreeRow
    PROVE  \E row \in Row : AddRow(row) /\ RowIsRight(row, i)
<1>1. i \in 0 .. Count - 1 /\ i \in DirtyIDs(registry)
  <2>1. i \in startID .. firstIDNotInRange - 1 /\ pc \in {"rows", "seek"}
    BY DEF WriteUsedRow, WriteFreeRow, InRows, Control, Open, TypeInv, TypeOK
  <2>2. IsDirty(i)
    BY <2>1 DEF Control
  <2>. QED  BY <2>1, <2>2 DEF TypeInv, TypeOK, DirtyIDs, ObjectIDs
<1>2. CASE WriteUsedRow
  <2>1. UsedRow(i) \in Row /\ AddRow(UsedRow(i))
    BY <1>1, <1>2, RowTypes DEF WriteUsedRow, TypeInv
  <2>2. RowIsRight(UsedRow(i), i)
    BY <1>1, <1>2 DEF WriteUsedRow, RowIsRight, UsedRow
  <2>. QED  BY <2>1, <2>2
<1>3. CASE WriteFreeRow
  <2>1. FreeRow(i, nextFreeObject') \in Row /\ AddRow(FreeRow(i, nextFreeObject'))
    BY <1>1, <1>3, RowTypes DEF WriteFreeRow, LinkBack, TypeInv, TypeOK
  <2>2. IsFree(i) /\ IsNextFree(i, nextFreeObject')
    BY <1>3, SeekEndsRight DEF WriteFreeRow, Control
  <2>3. RowIsRight(FreeRow(i, nextFreeObject'), i)
    BY <1>1, <2>2 DEF RowIsRight, FreeRow
  <2>. QED  BY <2>1, <2>3
<1>. QED  BY <1>2, <1>3

LEMMA LayoutInit == Init => Layout
BY DEF Init, Layout, Open

LEMMA LayoutStep == TypeInv /\ Control /\ Layout /\ [Next]_vars => Layout'
<1>. SUFFICES ASSUME TypeInv, Control, Layout, [Next]_vars PROVE Layout'
  OBVIOUS
<1>0. registry' = registry
  BY DEF Next, vars, locals, NextSection, ExtendRange, WriteSectionHeader, WriteUsedRow,
         FailOnUnwritten, StartSeekingFree, SeekFree, WriteFreeRow, EndSection, SkipClean,
         Done
<1>00. Len(sections) \in Nat /\ \A n \in 1 .. Len(sections) : sections[n] \in Section
  BY DEF TypeInv, TypeOK
<1>. USE <1>0, <1>00 DEF TypeInv, TypeOK, Layout, Open, LastSection
<1>1. CASE NextSection
  BY <1>1 DEF NextSection
<1>2. CASE ExtendRange
  BY <1>2 DEF ExtendRange
<1>3. CASE WriteSectionHeader
  <2>. DEFINE new == [start |-> startID, count |-> firstIDNotInRange - startID,
                      rows |-> <<>>]
  <2>1. sections' = Append(sections, new)
    BY <1>3 DEF WriteSectionHeader
  <2>2. /\ Len(sections') = Len(sections) + 1
        /\ sections'[Len(sections')] = new
        /\ \A n \in 1 .. Len(sections) : sections'[n] = sections[n]
    BY <2>1
  <2>3. new.start = startID /\ new.count = firstIDNotInRange - startID /\ Len(new.rows) = 0
    OBVIOUS
  <2>. HIDE DEF new
  <2>4. \A n \in 1 .. Len(sections') - 1 :
          sections'[n].start + sections'[n].count < sections'[n + 1].start
    <3>1. SUFFICES ASSUME NEW n \in 1 .. Len(sections)
                   PROVE  sections[n].start + sections[n].count < sections'[n + 1].start
      BY <2>2
    <3>2. CASE n = Len(sections)
      BY <1>3, <2>2, <2>3, <3>2 DEF WriteSectionHeader, Control
    <3>3. CASE n # Len(sections)
      BY <2>2, <3>3
    <3>. QED  BY <3>2, <3>3
  <2>5. \A n \in 1 .. Len(sections) : status = "ok" => Len(sections[n].rows) = sections[n].count
    BY <1>3 DEF WriteSectionHeader
  <2>6. /\ Len(sections') > 0
        /\ LastSection'.start = startID'
        /\ LastSection'.count = firstIDNotInRange' - startID'
        /\ Len(LastSection'.rows) = i' - startID'
    BY <1>3, <2>2, <2>3 DEF WriteSectionHeader
  <2>. QED
    BY <1>3, <2>2, <2>4, <2>5, <2>6 DEF WriteSectionHeader
<1>4. CASE WriteUsedRow \/ WriteFreeRow
  <2>1. PICK row \in Row : AddRow(row)
    BY <1>4, AddedRowIsARow
  <2>2. /\ Len(sections) > 0 /\ Len(sections') = Len(sections)
        /\ \A n \in 1 .. Len(sections) : /\ sections'[n].start = sections[n].start
                                         /\ sections'[n].count = sections[n].count
        /\ \A n \in 1 .. Len(sections) - 1 : sections'[n] = sections[n]
        /\ LastSection'.rows = Append(LastSection.rows, row)
    BY <1>4, <2>1, AddRowEffect DEF WriteUsedRow, WriteFreeRow, InRows
  <2>3. Len(LastSection'.rows) = Len(LastSection.rows) + 1
    BY <2>2 DEF Section
  <2>4. i' = i + 1 /\ pc' = "rows" /\ UNCHANGED <<startID, firstIDNotInRange, status>>
    BY <1>4 DEF WriteUsedRow, WriteFreeRow, InRows
  <2>5. pc \in {"rows", "seek"} /\ i < firstIDNotInRange
    BY <1>4 DEF WriteUsedRow, WriteFreeRow, InRows, Control
  <2>6. /\ Len(sections') > 0
        /\ LastSection'.start = startID'
        /\ LastSection'.count = firstIDNotInRange' - startID'
        /\ Len(LastSection'.rows) = i' - startID'
    <3>1. /\ LastSection'.start = LastSection.start
          /\ LastSection'.count = LastSection.count
      BY <2>2
    <3>2. Open /\ startID' = startID /\ firstIDNotInRange' = firstIDNotInRange
      BY <2>4, <2>5
    <3>3. /\ LastSection.start = startID
          /\ LastSection.count = firstIDNotInRange - startID
          /\ Len(LastSection.rows) = i - startID
      BY <3>2
    <3>4. Len(LastSection'.rows) = i' - startID'
      BY <2>3, <2>4, <3>2, <3>3
    <3>. HIDE DEF LastSection
    <3>. QED  BY <2>2, <3>1, <3>2, <3>3, <3>4
  <2>7. ASSUME NEW n \in 1 .. Len(sections) - 1, status = "ok"
        PROVE  Len(sections'[n].rows) = sections'[n].count
    <3>1. sections'[n] = sections[n] /\ n \in 1 .. Len(sections) /\ n < Len(sections)
      BY <2>2
    <3>2. Len(sections[n].rows) = sections[n].count
      BY <3>1, <2>7
    <3>. QED  BY <3>1, <3>2
  <2>8. ASSUME NEW n \in 1 .. Len(sections) - 1
        PROVE  sections'[n].start + sections'[n].count < sections'[n + 1].start
    <3>1. sections'[n] = sections[n] /\ sections'[n + 1].start = sections[n + 1].start
      BY <2>2
    <3>. QED  BY <3>1
  <2>9. pc' = "rows" /\ Len(sections') \in Nat /\ Len(sections') = Len(sections)
        /\ status' = status
    BY <2>2, <2>4
  <2>. QED
    BY <2>6, <2>7, <2>8, <2>9
<1>5. CASE FailOnUnwritten
  BY <1>5 DEF FailOnUnwritten, locals
<1>6. CASE StartSeekingFree \/ SeekFree
  BY <1>6 DEF StartSeekingFree, SeekFree, InRows
<1>7. CASE EndSection
  BY <1>7 DEF EndSection, Control
<1>8. CASE SkipClean
  <2>1. CASE startID < Count /\ ~IsDirty(startID)
    BY <1>8, <2>1 DEF SkipClean
  <2>2. CASE ~(startID < Count /\ ~IsDirty(startID))
    <3>1. startID < Count => firstIDNotInRange < startID
      BY <1>8, <2>2 DEF SkipClean, Control
    <3>. QED  BY <1>8, <2>2, <3>1 DEF SkipClean
  <2>. QED  BY <2>1, <2>2
<1>9. CASE Done \/ UNCHANGED vars
  BY <1>9 DEF Done, vars, locals
<1>. QED
  BY <1>1, <1>2, <1>3, <1>4, <1>5, <1>6, <1>7, <1>8, <1>9 DEF Next

LEMMA CoveredInit == Init => Covered
<1>. SUFFICES ASSUME Init PROVE Covered
  OBVIOUS
<1>1. Frontier = 0
  BY DEF Init, Frontier, Open
<1>. QED  BY <1>1 DEF Covered, DirtyIDs, ObjectIDs

\* A row that is written stays.
LEMMA RowsStay ==
    ASSUME TypeInv, Control, Layout, [Next]_vars, NEW id \in Nat, HasRow(id)
    PROVE  HasRow(id)'
<1>1. PICK n \in 1 .. Len(sections) :
         id \in sections[n].start .. sections[n].start + Len(sections[n].rows) - 1
  BY DEF HasRow
<1>. DEFINE Kept == /\ n \in 1 .. Len(sections')
                    /\ id \in sections'[n].start ..
                              sections'[n].start + Len(sections'[n].rows) - 1
<1>2. Len(sections) \in Nat /\ sections[n] \in Section
  BY DEF TypeInv, TypeOK
<1>3. CASE UNCHANGED sections
  BY <1>1, <1>3 DEF HasRow
<1>4. CASE WriteSectionHeader
  <2>1. Kept
    BY <1>1, <1>2, <1>4 DEF WriteSectionHeader, TypeInv, TypeOK
  <2>. QED  BY <2>1 DEF HasRow
<1>5. CASE WriteUsedRow \/ WriteFreeRow
  <2>1. PICK row \in Row : AddRow(row)
    BY <1>5, AddedRowIsARow
  <2>2. /\ Len(sections') = Len(sections)
        /\ sections'[n].start = sections[n].start
        /\ \A m \in 1 .. Len(sections) - 1 : sections'[m] = sections[m]
        /\ LastSection'.rows = Append(LastSection.rows, row)
    BY <1>1, <2>1, AddRowEffect DEF TypeInv
  <2>3. Len(sections'[n].rows) >= Len(sections[n].rows) /\ Len(sections'[n].rows) \in Nat
    <3>1. CASE n = Len(sections)
      BY <1>2, <2>2, <3>1 DEF LastSection, Section
    <3>2. CASE n \in 1 .. Len(sections) - 1
      BY <1>2, <2>2, <3>2 DEF Section
    <3>. QED  BY <1>2, <3>1, <3>2
  <2>4. Kept
    BY <1>1, <1>2, <2>2, <2>3 DEF Section
  <2>. QED  BY <2>4 DEF HasRow
<1>. QED
  BY <1>3, <1>4, <1>5 DEF Next, vars, locals, NextSection, ExtendRange, FailOnUnwritten,
     StartSeekingFree, SeekFree, EndSection, SkipClean, Done

\* The row that is written is that of the frontier.
LEMMA FrontierGetsItsRow ==
    ASSUME TypeInv, Control, Layout, WriteUsedRow \/ WriteFreeRow,
           NEW id \in Nat, id = i
    PROVE  HasRow(id)'
<1>1. PICK row \in Row : AddRow(row)
  BY AddedRowIsARow
<1>2. Open /\ Len(sections) > 0 /\ i \in Nat /\ startID \in Nat /\ startID <= i
  BY DEF WriteUsedRow, WriteFreeRow, InRows, Open, Layout, Control, TypeInv, TypeOK
<1>3. LastSection \in Section /\ Len(sections) \in Nat
  BY <1>2 DEF LastSection, TypeInv, TypeOK
<1>4. LastSection.start = startID /\ Len(LastSection.rows) = i - startID
  BY <1>2 DEF Layout
<1>5. /\ Len(sections') = Len(sections)
      /\ sections'[Len(sections)].start = sections[Len(sections)].start
      /\ LastSection'.rows = Append(LastSection.rows, row)
  BY <1>1, <1>2, <1>3, AddRowEffect DEF TypeInv
<1>6. Len(sections'[Len(sections)].rows) = i - startID + 1
  BY <1>3, <1>4, <1>5 DEF LastSection, Section
<1>7. id \in sections'[Len(sections)].start ..
         sections'[Len(sections)].start + Len(sections'[Len(sections)].rows) - 1
  BY <1>2, <1>4, <1>5, <1>6 DEF LastSection
<1>. QED  BY <1>2, <1>3, <1>5, <1>7 DEF HasRow

LEMMA CoveredStep ==
    TypeInv /\ Control /\ Layout /\ Covered /\ [Next]_vars => Covered'
<1>. SUFFICES ASSUME TypeInv, Control, Layout, Covered, [Next]_vars,
                     status' = "ok",
                     NEW id \in DirtyIDs(registry)', id < Frontier'
              PROVE  /\ HasRow(id)'
                     /\ (registry[id + 1].type = "Used" => registry[id + 1].written)'
  BY DEF Covered
<1>0. registry' = registry /\ status = "ok"
  BY DEF Next, vars, locals, NextSection, ExtendRange, WriteSectionHeader, WriteUsedRow,
         FailOnUnwritten, StartSeekingFree, SeekFree, WriteFreeRow, EndSection, SkipClean,
         Done
<1>1. id \in DirtyIDs(registry) /\ id \in Nat /\ id \in 0 .. Count - 1
  BY <1>0 DEF DirtyIDs, ObjectIDs
<1>2. CASE id < Frontier
  <2>1. HasRow(id) /\ (registry[id + 1].type = "Used" => registry[id + 1].written)
    BY <1>0, <1>1, <1>2 DEF Covered
  <2>2. HasRow(id)'
    BY <1>1, <2>1, RowsStay
  <2>. QED  BY <1>0, <2>1, <2>2
<1>3. CASE ~(id < Frontier)
  <2>1. WriteUsedRow \/ WriteFreeRow \/ (SkipClean /\ ~IsDirty(startID))
    <3>. USE <1>1, <1>3 DEF Frontier, Open, TypeInv, TypeOK
    <3>1. CASE NextSection
      BY <3>1 DEF NextSection
    <3>2. CASE ExtendRange
      BY <3>2 DEF ExtendRange
    <3>3. CASE WriteSectionHeader
      BY <3>3 DEF WriteSectionHeader
    <3>4. CASE FailOnUnwritten
      BY <3>4 DEF FailOnUnwritten
    <3>5. CASE StartSeekingFree
      BY <3>5 DEF StartSeekingFree, InRows
    <3>6. CASE SeekFree
      BY <3>6 DEF SeekFree
    <3>7. CASE EndSection
      BY <3>7 DEF EndSection, Control
    <3>8. CASE SkipClean /\ IsDirty(startID)
      BY <3>8 DEF SkipClean
    <3>9. CASE Done \/ UNCHANGED vars
      BY <3>9 DEF Done, vars, locals
    <3>. QED
      BY <3>1, <3>2, <3>3, <3>4, <3>5, <3>6, <3>7, <3>8, <3>9 DEF Next
  <2>2. CASE WriteUsedRow \/ WriteFreeRow
    <3>1. id = i
      BY <1>1, <1>3, <2>2 DEF WriteUsedRow, WriteFreeRow, InRows, Frontier, Open, TypeInv,
                              TypeOK
    <3>2. HasRow(id)'
      BY <1>1, <2>2, <3>1, FrontierGetsItsRow
    <3>3. registry[id + 1].type = "Used" => registry[id + 1].written
      BY <2>2, <3>1 DEF WriteUsedRow, WriteFreeRow, Control
    <3>. QED  BY <1>0, <3>2, <3>3
  <2>3. CASE SkipClean /\ ~IsDirty(startID)
    <3>1. startID < id \/ ~(id < Frontier')
      BY <1>1, <1>3, <2>3 DEF SkipClean, Frontier, Open, TypeInv, TypeOK, DirtyIDs
    <3>. QED  BY <1>1, <2>3, <3>1 DEF SkipClean, Frontier, Open, TypeInv, TypeOK
  <2>. QED  BY <2>1, <2>2, <2>3
<1>. QED  BY <1>2, <1>3

\* The rows of every subsection.
LEMMA RowsInit == Init => RowsAreRight
BY DEF Init, RowsAreRight

LEMMA RowsStep ==
    TypeInv /\ Control /\ Layout /\ RowsAreRight /\ [Next]_vars => RowsAreRight'
<1>. SUFFICES ASSUME TypeInv, Control, Layout, RowsAreRight, [Next]_vars
              PROVE  RowsAreRight'
  OBVIOUS
<1>0. registry' = registry
  BY DEF Next, vars, locals, NextSection, ExtendRange, WriteSectionHeader, WriteUsedRow,
         FailOnUnwritten, StartSeekingFree, SeekFree, WriteFreeRow, EndSection, SkipClean,
         Done
<1>00. Len(sections) \in Nat /\ \A n \in 1 .. Len(sections) : sections[n] \in Section
  BY DEF TypeInv, TypeOK
<1>1. SUFFICES ASSUME NEW n \in 1 .. Len(sections'), NEW k \in 1 .. Len(sections'[n].rows)
               PROVE  RowIsRight(sections'[n].rows[k], ReadID(sections'[n], k))
  BY <1>0 DEF RowsAreRight, RowIsRight, IsNextFree, ReadID
<1>2. CASE UNCHANGED sections
  BY <1>1, <1>2 DEF RowsAreRight
<1>3. CASE WriteSectionHeader
  <2>1. n \in 1 .. Len(sections) /\ sections'[n] = sections[n]
    BY <1>00, <1>1, <1>3 DEF WriteSectionHeader, TypeInv, TypeOK
  <2>. QED  BY <1>1, <2>1 DEF RowsAreRight
<1>4. CASE WriteUsedRow \/ WriteFreeRow
  <2>1. PICK row \in Row : AddRow(row) /\ RowIsRight(row, i)
    BY <1>4, TheRowIsRight
  <2>2. /\ Len(sections) > 0 /\ i \in Nat /\ startID \in Nat
        /\ LastSection.start = startID /\ Len(LastSection.rows) = i - startID
    BY <1>4 DEF WriteUsedRow, WriteFreeRow, InRows, Open, Layout, TypeInv, TypeOK
  <2>3. /\ Len(sections') = Len(sections)
        /\ sections'[n].start = sections[n].start
        /\ \A m \in 1 .. Len(sections) - 1 : sections'[m] = sections[m]
        /\ LastSection'.rows = Append(LastSection.rows, row)
    BY <1>1, <2>1, <2>2, AddRowEffect DEF TypeInv
  <2>4. CASE n # Len(sections)
    <3>1. n \in 1 .. Len(sections) /\ sections'[n] = sections[n]
      BY <1>00, <1>1, <2>3, <2>4
    <3>. QED  BY <1>1, <3>1 DEF RowsAreRight
  <2>5. CASE n = Len(sections)
    <3>1. /\ sections[n] \in Section /\ sections[n].start = startID
          /\ Len(sections[n].rows) = i - startID
          /\ sections'[n].rows = Append(sections[n].rows, row)
          /\ sections'[n].start = sections[n].start
          /\ n \in 1 .. Len(sections)
      BY <1>00, <1>1, <2>2, <2>3, <2>5 DEF LastSection
    <3>2. CASE k = Len(sections[n].rows) + 1
      <4>1. sections'[n].rows[k] = row /\ ReadID(sections'[n], k) = i
        BY <2>2, <3>1, <3>2 DEF ReadID, Section
      <4>. QED  BY <2>1, <4>1
    <3>3. CASE k # Len(sections[n].rows) + 1
      <4>1. /\ k \in 1 .. Len(sections[n].rows)
            /\ sections'[n].rows[k] = sections[n].rows[k]
        BY <1>1, <3>1, <3>3 DEF Section
      <4>2. ReadID(sections'[n], k) = ReadID(sections[n], k)
        BY <3>1 DEF ReadID
      <4>. QED  BY <3>1, <4>1, <4>2 DEF RowsAreRight
    <3>. QED  BY <3>2, <3>3
  <2>. QED  BY <2>4, <2>5
<1>. QED
  BY <1>2, <1>3, <1>4 DEF Next, vars, locals, NextSection, ExtendRange, FailOnUnwritten,
     StartSeekingFree, SeekFree, EndSection, SkipClean, Done
-----------------------------------------------------------------------------
\* The inductive invariant.
IInv == TypeInv /\ Control /\ FreeListAhead /\ Layout /\ Covered /\ RowsAreRight

LEMMA Invariance == Spec => []IInv
<1>1. Init => IInv
  BY TypeInit, ControlInit, FreeListInit, LayoutInit, CoveredInit, RowsInit DEF IInv
<1>2. IInv /\ [Next]_vars => IInv'
  BY TypeStep, ControlStep, FreeListStep, LayoutStep, CoveredStep, RowsStep DEF IInv
<1>. QED  BY <1>1, <1>2, PTL DEF Spec

\* WriteXrefTable's loop variables never leave the registry.
THEOREM TypeCorrect == Spec => []TypeOK
<1>1. IInv => TypeOK
  BY DEF IInv, TypeInv
<1>. QED  BY <1>1, Invariance, PTL

\* Whatever the registry, every row WriteXrefTable has written says the truth of
\* the ID a reader gives it, and the free list links up.
THEOREM RowsCorrect == Spec => []RowsAreRight
<1>1. IInv => RowsAreRight
  BY DEF IInv
<1>. QED  BY <1>1, Invariance, PTL

\* Whatever the registry, a table WriteXrefTable completes lists every dirty ID
\* in disjoint subsections, none of them adjacent, in increasing order.
THEOREM TableCorrect == Spec => []TableIsComplete
<1>1. IInv => TableIsComplete
  <2>. SUFFICES ASSUME IInv, pc = "done", status = "ok"
                PROVE  /\ \A id \in DirtyIDs(registry) : HasRow(id)
                       /\ \A n \in 1 .. Len(sections) :
                             Len(sections[n].rows) = sections[n].count
                       /\ \A n \in 1 .. Len(sections) - 1 :
                             sections[n].start + sections[n].count < sections[n + 1].start
    BY DEF TableIsComplete
  <2>1. \A id \in DirtyIDs(registry) : id < Frontier
    BY DEF IInv, Control, Frontier, Open, DirtyIDs, ObjectIDs, TypeInv, TypeOK
  <2>. QED  BY <2>1 DEF IInv, Covered, Layout, Open
<1>. QED  BY <1>1, Invariance, PTL

\* Whatever the registry, WriteXrefTable fails exactly when an object the table
\* has to list is in use and was never written.
THEOREM FailureCorrect == Spec => []FailsOnlyWhenIncomplete
<1>1. IInv => FailsOnlyWhenIncomplete
  <2>. SUFFICES ASSUME IInv, pc = "done"
                PROVE  status = "ok" <=> CanWriteXref(registry)
    BY DEF FailsOnlyWhenIncomplete
  <2>1. CASE status = "ok"
    <3>1. \A id \in DirtyIDs(registry) : id < Frontier
      BY <2>1 DEF IInv, Control, Frontier, Open, DirtyIDs, ObjectIDs, TypeInv, TypeOK
    <3>. QED  BY <2>1, <3>1 DEF IInv, Covered, CanWriteXref
  <2>2. CASE status = "failed"
    BY <2>2 DEF IInv, Control
  <2>. QED  BY <2>1, <2>2 DEF IInv, TypeInv, TypeOK
<1>. QED  BY <1>1, Invariance, PTL
=============================================================================
