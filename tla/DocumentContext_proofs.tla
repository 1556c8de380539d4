------------------------ MODULE DocumentContext_proofs ------------------------
(***************************************************************************)
(* Nothing is written twice, nothing that has an ID is forgotten, and what *)
(* a written document refers to is there and is what it is referred to as. *)
(***************************************************************************)
EXTENDS DocumentContext, SequenceTheorems, FiniteSetTheorems, TLAPS

-----------------------------------------------------------------------------
(***************************************************************************)
(* Writers: a registry with a file.                                        *)
(***************************************************************************)
KindNames == {"catalog", "pages", "page", "encrypt", "content", "length", "image", "gstate",
              "form", "resources", "annotation", "info"}
RoleNames == {"Parent", "Pages", "Contents", "Annots", "XObject", "ExtGState", "Resources",
              "Length"}

FileObject == [id : Nat, kind : KindNames, refs : SUBSET (RoleNames \X Nat),
               kids : Seq(Nat), key : Int, whole : BOOLEAN]

Writers == [registry : Seq(ObjectWriteInformation), file : Seq(FileObject)]

Unwritten(w) == {id \in 1 .. Len(w.registry) - 1 : ~w.registry[id + 1].written}
Clean(w) == {id \in 1 .. Len(w.registry) - 1 : ~w.registry[id + 1].dirty}
Objects(w) == {w.file[k] : k \in 1 .. Len(w.file)}

\* The registry is right about the file, whose objects have IDs of their own, those in
\* again aside.
EntryIsRight(w, id) ==
    LET entry == w.registry[id + 1] IN
    /\ entry.type = "Used"
    /\ entry.written => /\ entry.position + 1 \in 1 .. Len(w.file)
                        /\ w.file[entry.position + 1].id = id
    /\ entry.written \/ entry.dirty

ObjectIsKnown(w, k) ==
    /\ w.file[k].id \in 1 .. Len(w.registry) - 1
    /\ w.registry[w.file[k].id + 1].written

Once(f, again) ==
    \A j, k \in 1 .. Len(f) : f[j].id = f[k].id => j = k \/ f[j].id \in again

Sound(w, again) ==
    /\ w \in Writers /\ Len(w.registry) \in Nat \ {0}
    /\ w.registry[1].type = "Free" /\ ~w.registry[1].written
    /\ \A id \in 1 .. Len(w.registry) - 1 : EntryIsRight(w, id)
    /\ \A k \in 1 .. Len(w.file) : ObjectIsKnown(w, k)
    /\ Once(w.file, again)

\* A sound writer of m - 1 objects, unwritten ones and those in the file.
Stands(w, again, m, unwritten, objects) ==
    /\ Sound(w, again)
    /\ Len(w.registry) = m /\ Unwritten(w) = unwritten /\ Objects(w) = objects

\* Nothing of the file is changed and no object gets clean again.
Extends(w, v) ==
    /\ Clean(v) \subseteq Clean(w)
    /\ Len(v.file) \in Nat /\ Len(w.file) <= Len(v.file)
    /\ \A k \in 1 .. Len(w.file) : v.file[k] = w.file[k]

LEMMA ExtendsTwice ==
    ASSUME NEW w \in Writers, NEW v \in Writers, NEW x, Extends(w, v), Extends(v, x)
    PROVE  Extends(w, x)
<1>1. Len(w.file) \in Nat /\ Len(v.file) \in Nat
  BY LenProperties DEF Writers
<1>2. Len(x.file) \in Nat /\ Len(w.file) <= Len(v.file) /\ Len(v.file) <= Len(x.file)
  BY DEF Extends
<1>3. /\ Len(w.file) <= Len(x.file)
      /\ \A k \in 1 .. Len(w.file) : k \in 1 .. Len(v.file)
  BY <1>1, <1>2
<1>4. \A k \in 1 .. Len(w.file) : x.file[k] = w.file[k]
  BY <1>3 DEF Extends
<1>. QED  BY <1>2, <1>3, <1>4 DEF Extends

LEMMA ExtendsItself ==
    ASSUME NEW w \in Writers
    PROVE  Extends(w, w)
BY LenProperties DEF Extends, Writers

\* A file that has no ID twice is no longer than the registry.
LEMMA FileIsShort ==
    ASSUME NEW w, Sound(w, {})
    PROVE  Len(w.file) \in Nat /\ Len(w.file) <= Len(w.registry) - 1
<1>1. /\ Len(w.file) \in Nat /\ Len(w.registry) \in Nat \ {0}
      /\ \A k \in 1 .. Len(w.file) : w.file[k].id \in 1 .. Len(w.registry) - 1
      /\ \A j, k \in 1 .. Len(w.file) : w.file[j].id = w.file[k].id => j = k
  BY LenProperties DEF Sound, ObjectIsKnown, Once, Writers
<1>. DEFINE f == [k \in 1 .. Len(w.file) |-> w.file[k].id]
<1>2. f \in [1 .. Len(w.file) -> 1 .. Len(w.registry) - 1]
  BY <1>1
<1>3. \A j, k \in 1 .. Len(w.file) : f[j] = f[k] => j = k
  BY <1>1
<1>4. PICK m \in Nat : m = Len(w.file)
  BY <1>1
<1>5. PICK n \in Nat : n = Len(w.registry) - 1
  <2>1. Len(w.registry) \in Nat \ {0}
    BY <1>1
  <2>. QED  BY <2>1
<1>. HIDE DEF f
<1>6. /\ IsFiniteSet(1 .. m) /\ IsFiniteSet(1 .. n)
      /\ Cardinality(1 .. m) = m /\ Cardinality(1 .. n) = n
  BY FS_Interval
<1>7. ~(n < m)
  <2>1. f \in [1 .. m -> 1 .. n]
    BY <1>2, <1>4, <1>5
  <2>2. \A j, k \in 1 .. m : f[j] = f[k] => j = k
    BY <1>3, <1>4
  <2>. QED  BY <1>6, <2>1, <2>2, FS_PigeonHole
<1>. QED  BY <1>4, <1>5, <1>7

\* An entry of the registry and an object of the file.
LEMMA WriterParts ==
    ASSUME NEW w \in Writers
    PROVE  /\ w.registry \in Seq(ObjectWriteInformation) /\ w.file \in Seq(FileObject)
           /\ Len(w.registry) \in Nat /\ Len(w.file) \in Nat
           /\ \A k \in 1 .. Len(w.registry) : w.registry[k] \in ObjectWriteInformation
           /\ \A k \in 1 .. Len(w.file) : w.file[k] \in FileObject
           /\ w = [registry |-> w.registry, file |-> w.file]
           /\ \A id \in 1 .. Len(w.registry) - 1 : id \in Nat /\ id + 1 \in 2 .. Len(w.registry)
<1>1. w.registry \in Seq(ObjectWriteInformation) /\ w.file \in Seq(FileObject)
  BY DEF Writers
<1>2. /\ Len(w.registry) \in Nat /\ Len(w.file) \in Nat
      /\ \A k \in 1 .. Len(w.registry) : w.registry[k] \in ObjectWriteInformation
      /\ \A k \in 1 .. Len(w.file) : w.file[k] \in FileObject
  BY <1>1, ElementOfSeq, LenProperties
<1>3. \A id \in 1 .. Len(w.registry) - 1 : id \in Nat /\ id + 1 \in 2 .. Len(w.registry)
  BY <1>2
<1>4. w = [registry |-> w.registry, file |-> w.file]
  BY DEF Writers
<1>. QED  BY <1>1, <1>2, <1>3, <1>4

\* The file with one more object.
LEMMA ObjectAppended ==
    ASSUME NEW f \in Seq(FileObject), NEW object \in FileObject,
           NEW g, g = Append(f, object)
    PROVE  /\ g \in Seq(FileObject) /\ Len(f) \in Nat /\ Len(g) = Len(f) + 1
           /\ Len(f) + 1 \in 1 .. Len(g)
           /\ g[Len(f) + 1] = object
           /\ \A k \in 1 .. Len(f) : k \in 1 .. Len(g) /\ k # Len(f) + 1 /\ g[k] = f[k]
           /\ \A k \in 1 .. Len(g) : k \in 1 .. Len(f) \/ k = Len(f) + 1
           /\ {g[k] : k \in 1 .. Len(g)} = {f[k] : k \in 1 .. Len(f)} \cup {object}
<1>1. /\ g \in Seq(FileObject) /\ Len(g) = Len(f) + 1 /\ g[Len(f) + 1] = object
      /\ \A k \in 1 .. Len(f) : g[k] = f[k]
  BY AppendProperties
<1>2. Len(f) \in Nat /\ Len(g) \in Nat
  BY <1>1, LenProperties
<1>3. /\ Len(f) + 1 \in 1 .. Len(g)
      /\ \A k \in 1 .. Len(f) : k \in 1 .. Len(g) /\ k # Len(f) + 1
      /\ \A k \in 1 .. Len(g) : k \in 1 .. Len(f) \/ k = Len(f) + 1
  BY <1>1, <1>2
<1>4. {g[k] : k \in 1 .. Len(g)} = {f[k] : k \in 1 .. Len(f)} \cup {object}
  BY <1>1, <1>3
<1>. QED  BY <1>1, <1>2, <1>3, <1>4

\* An entry that changes, the others being as they were.
Entry(r, id, entry, q) ==
    /\ q \in Seq(ObjectWriteInformation) /\ Len(q) = Len(r)
    /\ q[id + 1] = entry
    /\ \A k \in 1 .. Len(r) : k # id + 1 => q[k] = r[k]

LEMMA MarkedAsWritten ==
    ASSUME NEW r \in Seq(ObjectWriteInformation), NEW id \in 1 .. Len(r) - 1,
           ~r[id + 1].written, NEW position \in Nat, position <= MaxWritePosition
    PROVE  \E entry \in ObjectWriteInformation :
              /\ entry.type = r[id + 1].type /\ entry.written /\ entry.dirty
              /\ entry.position = position
              /\ Entry(r, id, entry, MarkObjectAsWritten(r, id, position))
<1>1. Len(r) \in Nat /\ id + 1 \in 1 .. Len(r) /\ id < Len(r)
  BY LenProperties
<1>2. PICK old \in ObjectWriteInformation : old = r[id + 1]
  BY <1>1, ElementOfSeq
<1>3. PICK entry : entry = [[[old EXCEPT !.dirty = TRUE] EXCEPT !.position = position]
                               EXCEPT !.written = TRUE]
  OBVIOUS
<1>4. /\ entry \in ObjectWriteInformation
      /\ entry.type = old.type /\ entry.written /\ entry.dirty /\ entry.position = position
  BY <1>3 DEF ObjectWriteInformation
<1>5. MarkObjectAsWritten(r, id, position) = [r EXCEPT ![id + 1] = entry]
  BY <1>1, <1>2, <1>3 DEF MarkObjectAsWritten, CanMarkAsWritten
<1>6. Entry(r, id, entry, [r EXCEPT ![id + 1] = entry])
  BY <1>1, <1>4, ExceptSeq DEF Entry
<1>. QED  BY <1>2, <1>4, <1>5, <1>6

\* The object of an unwritten ID is written: WriteAt.
LEMMA WriteAtStands ==
    ASSUME NEW w, NEW again, NEW m, NEW U, NEW O, Stands(w, again, m, U, O),
           NEW object \in FileObject, object.id \in U, Len(w.file) <= MaxWritePosition
    PROVE  /\ Stands(WriteAt(w, object), again, m, U \ {object.id}, O \cup {object})
           /\ Extends(w, WriteAt(w, object))
           /\ Len(WriteAt(w, object).file) = Len(w.file) + 1
<1>1. w \in Writers /\ Sound(w, again)
  BY DEF Stands, Sound
<1>2. PICK r \in Seq(ObjectWriteInformation), f \in Seq(FileObject) :
         r = w.registry /\ f = w.file
  BY <1>1, WriterParts
<1>3. PICK id : id = object.id
  OBVIOUS
<1>4. id \in 1 .. Len(r) - 1 /\ ~r[id + 1].written
  BY <1>2, <1>3 DEF Stands, Unwritten
<1>5. Len(f) \in Nat /\ Len(f) <= MaxWritePosition
  BY <1>2, LenProperties
<1>6. PICK q : q = MarkObjectAsWritten(r, id, Len(f))
  OBVIOUS
<1>7. PICK entry \in ObjectWriteInformation :
         /\ entry.type = r[id + 1].type /\ entry.written /\ entry.dirty
         /\ entry.position = Len(f) /\ Entry(r, id, entry, q)
  BY <1>4, <1>5, <1>6, MarkedAsWritten
<1>8. PICK g : g = Append(f, object)
  OBVIOUS
<1>9. PICK v : v = WriteAt(w, object)
  OBVIOUS
<1>10. v.registry = q /\ v.file = g /\ v \in Writers
  <2>1. v = [registry |-> q, file |-> g]
    BY <1>2, <1>3, <1>6, <1>8, <1>9 DEF WriteAt
  <2>2. q \in Seq(ObjectWriteInformation) /\ g \in Seq(FileObject)
    BY <1>7, <1>8, ObjectAppended DEF Entry
  <2>. QED  BY <2>1, <2>2 DEF Writers
<1>11. /\ Len(g) = Len(f) + 1 /\ Len(f) + 1 \in 1 .. Len(g) /\ g[Len(f) + 1] = object
       /\ \A k \in 1 .. Len(f) : k \in 1 .. Len(g) /\ k # Len(f) + 1 /\ g[k] = f[k]
       /\ \A k \in 1 .. Len(g) : k \in 1 .. Len(f) \/ k = Len(f) + 1
       /\ {g[k] : k \in 1 .. Len(g)} = {f[k] : k \in 1 .. Len(f)} \cup {object}
  BY <1>8, ObjectAppended
<1>12. /\ Len(q) = Len(r) /\ Len(r) \in Nat /\ q[id + 1] = entry
       /\ \A i \in 1 .. Len(r) - 1 : i # id => i + 1 \in 1 .. Len(r) /\ q[i + 1] = r[i + 1]
       /\ q[1] = r[1]
  <2>1. Len(q) = Len(r) /\ q[id + 1] = entry
    BY <1>7 DEF Entry
  <2>2. Len(r) \in Nat
    BY LenProperties
  <2>3. /\ \A i \in 1 .. Len(r) - 1 : i + 1 \in 1 .. Len(r) /\ (i # id => i + 1 # id + 1)
        /\ 1 \in 1 .. Len(r) /\ 1 # id + 1
    BY <1>4, <2>2
  <2>. QED  BY <1>7, <2>1, <2>2, <2>3 DEF Entry
<1>13. /\ \A i \in 1 .. Len(r) - 1 :
             /\ r[i + 1].type = "Used" /\ (r[i + 1].written \/ r[i + 1].dirty)
             /\ r[i + 1].written => /\ r[i + 1].position + 1 \in 1 .. Len(f)
                                     /\ f[r[i + 1].position + 1].id = i
       /\ \A k \in 1 .. Len(f) : f[k].id \in 1 .. Len(r) - 1 /\ r[f[k].id + 1].written
       /\ \A j, k \in 1 .. Len(f) : f[j].id = f[k].id => j = k \/ f[j].id \in again
       /\ Len(r) \in Nat \ {0} /\ r[1].type = "Free" /\ ~r[1].written
  BY <1>1, <1>2 DEF Sound, EntryIsRight, ObjectIsKnown, Once
<1>14. \A i \in 1 .. Len(q) - 1 : EntryIsRight(v, i)
  <2>. SUFFICES ASSUME NEW i \in 1 .. Len(q) - 1
                PROVE  EntryIsRight(v, i)
    OBVIOUS
  <2>1. CASE i = id
    BY <1>3, <1>4, <1>7, <1>10, <1>11, <1>12, <1>13, <2>1 DEF EntryIsRight
  <2>2. CASE i # id
    BY <1>10, <1>11, <1>12, <1>13, <2>2 DEF EntryIsRight
  <2>. QED  BY <2>1, <2>2
<1>15. \A k \in 1 .. Len(g) : ObjectIsKnown(v, k)
  <2>. SUFFICES ASSUME NEW k \in 1 .. Len(g)
                PROVE  ObjectIsKnown(v, k)
    OBVIOUS
  <2>1. CASE k = Len(f) + 1
    BY <1>3, <1>4, <1>7, <1>10, <1>11, <1>12, <2>1 DEF ObjectIsKnown
  <2>2. CASE k \in 1 .. Len(f)
    <3>1. PICK i \in 1 .. Len(r) - 1 : i = f[k].id
      BY <1>13, <2>2
    <3>2. g[k].id = i /\ r[i + 1].written /\ i # id
      BY <1>4, <1>11, <1>13, <2>2, <3>1
    <3>. QED  BY <1>10, <1>12, <3>1, <3>2 DEF ObjectIsKnown
  <2>. QED  BY <1>11, <2>1, <2>2
<1>16. Once(g, again)
  <2>. SUFFICES ASSUME NEW j \in 1 .. Len(g), NEW k \in 1 .. Len(g), g[j].id = g[k].id
                PROVE  j = k \/ g[j].id \in again
    BY DEF Once
  <2>1. \A i \in 1 .. Len(f) : f[i].id # id
    BY <1>4, <1>13
  <2>2. CASE j \in 1 .. Len(f) /\ k \in 1 .. Len(f)
    BY <1>11, <1>13, <2>2
  <2>3. CASE j \notin 1 .. Len(f)
    <3>1. j = Len(f) + 1 /\ g[j].id = id
      BY <1>3, <1>11, <2>3
    <3>2. k \notin 1 .. Len(f)
      BY <1>11, <2>1, <3>1
    <3>. QED  BY <1>11, <3>1, <3>2
  <2>4. CASE k \notin 1 .. Len(f)
    <3>1. k = Len(f) + 1 /\ g[k].id = id
      BY <1>3, <1>11, <2>4
    <3>2. j \notin 1 .. Len(f)
      BY <1>11, <2>1, <3>1
    <3>. QED  BY <1>11, <3>1, <3>2
  <2>. QED  BY <2>2, <2>3, <2>4
<1>17. Sound(v, again) /\ Len(v.registry) = m
  BY <1>2, <1>10, <1>12, <1>13, <1>14, <1>15, <1>16 DEF Sound, Stands
<1>18. Unwritten(v) = U \ {id}
  <2>1. U = {i \in 1 .. Len(r) - 1 : ~r[i + 1].written}
    BY <1>2 DEF Stands, Unwritten
  <2>2. Unwritten(v) = {i \in 1 .. Len(r) - 1 : ~q[i + 1].written}
    BY <1>10, <1>12 DEF Unwritten
  <2>3. \A i \in 1 .. Len(r) - 1 : i # id => q[i + 1] = r[i + 1]
    BY <1>12
  <2>. QED  BY <1>7, <1>12, <2>1, <2>2, <2>3
<1>19. Objects(v) = O \cup {object}
  <2>1. Objects(v) = {g[k] : k \in 1 .. Len(g)}
    BY <1>10 DEF Objects
  <2>2. O = {f[k] : k \in 1 .. Len(f)}
    BY <1>2 DEF Objects, Stands
  <2>. QED  BY <1>11, <2>1, <2>2
<1>20. Extends(w, v)
  <2>1. Clean(v) \subseteq Clean(w)
    <3>1. Clean(w) = {i \in 1 .. Len(r) - 1 : ~r[i + 1].dirty}
      BY <1>2 DEF Clean
    <3>2. Clean(v) = {i \in 1 .. Len(r) - 1 : ~q[i + 1].dirty}
      BY <1>10, <1>12 DEF Clean
    <3>. QED  BY <1>7, <1>12, <3>1, <3>2
  <2>2. Len(g) \in Nat /\ Len(f) <= Len(g)
    BY <1>5, <1>11
  <2>. QED  BY <1>2, <1>10, <1>11, <2>1, <2>2 DEF Extends
<1>. QED  BY <1>2, <1>3, <1>9, <1>10, <1>11, <1>17, <1>18, <1>19, <1>20 DEF Stands

\* A new ID: Allocate.
LEMMA AllocateStands ==
    ASSUME NEW w, NEW again, NEW m, NEW U, NEW O, Stands(w, again, m, U, O)
    PROVE  /\ Stands(Allocate(w), again, m + 1, U \cup {m}, O)
           /\ Extends(w, Allocate(w))
           /\ Allocate(w).file = w.file
           /\ m \in Nat \ {0} /\ m \notin U
<1>1. w \in Writers /\ Sound(w, again)
  BY DEF Stands, Sound
<1>2. PICK r \in Seq(ObjectWriteInformation), f \in Seq(FileObject) :
         r = w.registry /\ f = w.file
  BY <1>1, WriterParts
<1>3. m = Len(r) /\ m \in Nat \ {0}
  BY <1>2 DEF Stands, Sound
<1>4. PICK q : q = Append(r, NewObject)
  OBVIOUS
<1>5. PICK new : new = NewObject
  OBVIOUS
<1>6. /\ new \in ObjectWriteInformation /\ new.type = "Used" /\ ~new.written /\ new.dirty
  BY <1>5, RegistryAssumption DEF NewObject, ObjectWriteInformation, ReferenceTypes
<1>7. PICK v : v = Allocate(w)
  OBVIOUS
<1>8. /\ q \in Seq(ObjectWriteInformation) /\ Len(q) = m + 1
      /\ q[m + 1] = new /\ \A k \in 1 .. m : q[k] = r[k]
  BY <1>3, <1>4, <1>5, <1>6, AppendProperties
<1>9. v.registry = q /\ v.file = f /\ v \in Writers
  <2>1. v = [registry |-> q, file |-> f]
    BY <1>1, <1>2, <1>4, <1>7 DEF Allocate, AllocateNewObjectID, Writers
  <2>. QED  BY <1>8, <2>1 DEF Writers
<1>10. /\ \A i \in 1 .. m : i \in 1 .. m - 1 \/ i = m
       /\ \A i \in 1 .. m - 1 : i \in 1 .. m /\ i # m /\ i + 1 \in 1 .. m
       /\ m \in 1 .. m /\ 1 \in 1 .. m
       /\ m + 1 - 1 = m /\ m + 1 \in Nat \ {0}
  <2>1. m \in Nat \ {0}
    BY <1>3
  <2>. QED  BY <2>1
<1>11. \A i \in 1 .. m - 1 : q[i + 1] = r[i + 1]
  BY <1>8, <1>10
<1>12. /\ \A i \in 1 .. m - 1 :
             /\ r[i + 1].type = "Used" /\ (r[i + 1].written \/ r[i + 1].dirty)
             /\ r[i + 1].written => /\ r[i + 1].position + 1 \in 1 .. Len(f)
                                     /\ f[r[i + 1].position + 1].id = i
       /\ \A k \in 1 .. Len(f) : f[k].id \in 1 .. m - 1 /\ r[f[k].id + 1].written
       /\ Once(f, again)
       /\ r[1].type = "Free" /\ ~r[1].written
  BY <1>1, <1>2, <1>3 DEF Sound, EntryIsRight, ObjectIsKnown
<1>13. \A i \in 1 .. m : EntryIsRight(v, i)
  <2>. SUFFICES ASSUME NEW i \in 1 .. m
                PROVE  EntryIsRight(v, i)
    OBVIOUS
  <2>1. CASE i = m
    BY <1>6, <1>8, <1>9, <2>1 DEF EntryIsRight
  <2>2. CASE i \in 1 .. m - 1
    BY <1>9, <1>11, <1>12, <2>2 DEF EntryIsRight
  <2>. QED  BY <1>10, <2>1, <2>2
<1>14. \A k \in 1 .. Len(f) : ObjectIsKnown(v, k)
  <2>. SUFFICES ASSUME NEW k \in 1 .. Len(f)
                PROVE  ObjectIsKnown(v, k)
    OBVIOUS
  <2>1. PICK i \in 1 .. m - 1 : i = f[k].id /\ r[i + 1].written
    BY <1>12
  <2>2. i \in 1 .. m /\ q[i + 1].written
    BY <1>10, <1>11, <2>1
  <2>3. Len(q) - 1 = m
    BY <1>8, <1>10
  <2>. QED  BY <1>9, <2>1, <2>2, <2>3 DEF ObjectIsKnown
<1>15. Sound(v, again) /\ Len(v.registry) = m + 1
  BY <1>8, <1>9, <1>10, <1>12, <1>13, <1>14 DEF Sound
<1>16. U = {i \in 1 .. m - 1 : ~r[i + 1].written} /\ Clean(w) = {i \in 1 .. m - 1 : ~r[i + 1].dirty}
  BY <1>2, <1>3 DEF Stands, Unwritten, Clean
<1>17. Unwritten(v) = {i \in 1 .. m : ~q[i + 1].written} /\ Clean(v) = {i \in 1 .. m : ~q[i + 1].dirty}
  BY <1>8, <1>9, <1>10 DEF Unwritten, Clean
<1>18. Unwritten(v) = U \cup {m} /\ m \notin U
  BY <1>6, <1>8, <1>10, <1>11, <1>16, <1>17
<1>19. Clean(v) \subseteq Clean(w)
  BY <1>6, <1>8, <1>10, <1>11, <1>16, <1>17
<1>20. Objects(v) = O
  BY <1>2, <1>9 DEF Objects, Stands
<1>21. Extends(w, v)
  <2>1. Len(f) \in Nat /\ Len(f) <= Len(f)
    BY LenProperties
  <2>. QED  BY <1>2, <1>9, <1>19, <2>1 DEF Extends
<1>. QED  BY <1>2, <1>3, <1>7, <1>9, <1>15, <1>18, <1>20, <1>21 DEF Stands

LEMMA PrefixInduction ==
    ASSUME NEW n \in Nat, NEW S, 0 \in S, \A k \in 1 .. n : k - 1 \in S => k \in S
    PROVE  \A k \in 0 .. n : k \in S
<1>1. DEFINE T == {k \in 0 .. n : k \notin S}
<1>2. SUFFICES ASSUME T # {}
               PROVE  FALSE
  OBVIOUS
<1>3. DEFINE R == {ss \in Nat \X Nat : ss[1] < ss[2]}
<1>4. IsWellFoundedOn(R, Nat)
  BY NatLessThanWellFounded DEF OpToRel
<1>5. PICK x \in T : \A y \in T : ~(y < x)
  <2>1. T \subseteq Nat
    OBVIOUS
  <2>. HIDE DEF T, R
  <2>2. PICK x \in T : \A y \in T : <<y, x>> \notin R
    BY <1>2, <1>4, <2>1, WFMin
  <2>. QED  BY <2>1, <2>2 DEF R
<1>6. x \in 1 .. n /\ x - 1 \in 0 .. n
  OBVIOUS
<1>7. x - 1 \notin T
  BY <1>5, <1>6
<1>. QED  BY <1>6, <1>7

IsRun(f, w, tasks, n, kind) ==
    f = [k \in 0 .. n |->
           IF k = 0 THEN w ELSE WriteAt(f[k - 1], Object(tasks[k].id, kind, {}, <<>>))]

LEMMA RunExists ==
    ASSUME NEW n \in Nat, NEW w, NEW tasks, NEW kind
    PROVE  \E f : IsRun(f, w, tasks, n, kind)
<1>1. DEFINE S == {m \in 0 .. n : \E f : IsRun(f, w, tasks, m, kind)}
<1>2. 0 \in S
  <2>1. DEFINE f == [k \in 0 .. 0 |-> w]
  <2>2. IsRun(f, w, tasks, 0, kind)
    BY DEF IsRun
  <2>. QED  BY <2>2
<1>3. ASSUME NEW m \in 1 .. n, m - 1 \in S
      PROVE  m \in S
  <2>1. PICK f : IsRun(f, w, tasks, m - 1, kind)
    BY <1>3
  <2>2. DEFINE g == [k \in 0 .. m |-> IF k = m THEN WriteAt(f[m - 1], Object(tasks[m].id, kind, {}, <<>>)) ELSE f[k]]
  <2>3. \A k \in 0 .. m : k # m => k \in 0 .. m - 1 
    OBVIOUS
  <2>4. IsRun(g, w, tasks, m, kind)
    BY <2>1, <2>3 DEF IsRun
  <2>. QED  BY <2>4
<1>4. n \in S
  <2>. HIDE DEF S
  <2>. QED  BY <1>2, <1>3, PrefixInduction
<1>. QED  BY <1>4

LEMMA RunIs ==
    ASSUME NEW n \in Nat, NEW w, NEW tasks, NEW kind
    PROVE  \E f : IsRun(f, w, tasks, n, kind) /\ WriteTasks(w, tasks, n, kind) = f[n]
<1>1. PICK f : IsRun(f, w, tasks, n, kind)
  BY RunExists
<1>. DEFINE g == CHOOSE f_1 : IsRun(f_1, w, tasks, n, kind)
<1>2. IsRun(g, w, tasks, n, kind)
  BY <1>1
<1>3. WriteTasks(w, tasks, n, kind) = g[n]
  BY DEF WriteTasks, IsRun
<1>. QED  BY <1>2, <1>3

\* A task, and what one writes.
Task == [id : Nat, freed : BOOLEAN]

Written(task, kind) == Object(task.id, kind, {}, <<>>)

LEMMA WrittenIsObject ==
    ASSUME NEW task \in Task, NEW kind \in KindNames
    PROVE  /\ Written(task, kind) \in FileObject /\ Written(task, kind).id = task.id
           /\ Written(task, kind).kind = kind /\ Written(task, kind).refs = {}
           /\ Written(task, kind).kids = <<>>
<1>1. PICK o : o = Written(task, kind)
  OBVIOUS
<1>2. o = [id |-> task.id, kind |-> kind, refs |-> {}, kids |-> <<>>, key |-> 0, whole |-> TRUE]
  BY <1>1 DEF Written, Object, Plain
<1>3. task.id \in Nat
  BY DEF Task
<1>4. <<>> \in Seq(Nat)
  OBVIOUS
<1>5. o \in FileObject
  BY <1>2, <1>3, <1>4 DEF FileObject
<1>. QED  BY <1>1, <1>2, <1>5

\* Tasks of objects that are not written, each of its own, are run.
LEMMA TasksStand ==
    ASSUME NEW w, NEW m, NEW U, NEW O, Stands(w, {}, m, U, O), m <= MaxWritePosition,
           NEW tasks \in Seq(Task), NEW kind \in KindNames, NEW n \in 0 .. Len(tasks),
           \A k \in 1 .. Len(tasks) : tasks[k].id \in U,
           \A j, k \in 1 .. Len(tasks) : tasks[j].id = tasks[k].id => j = k
    PROVE  LET v == WriteTasks(w, tasks, n, kind) IN
           /\ Stands(v, {}, m, U \ {tasks[k].id : k \in 1 .. n},
                     O \cup {Written(tasks[k], kind) : k \in 1 .. n})
           /\ Extends(w, v)
<1>1. n \in Nat /\ \A k \in 1 .. n : k \in 1 .. Len(tasks)
  <2>1. Len(tasks) \in Nat /\ n \in 0 .. Len(tasks)
    BY LenProperties
  <2>. QED  BY <2>1
<1>2. PICK f : IsRun(f, w, tasks, n, kind) /\ WriteTasks(w, tasks, n, kind) = f[n]
  <2>1. PICK last \in Nat : last = n
    BY <1>1
  <2>2. \E f : /\ IsRun(f, w, tasks, last, kind)
               /\ WriteTasks(w, tasks, last, kind) = f[last]
    BY RunIs
  <2>. QED  BY <2>1, <2>2
<1>. DEFINE Run(k) == /\ Stands(f[k], {}, m, U \ {tasks[i].id : i \in 1 .. k},
                                O \cup {Written(tasks[i], kind) : i \in 1 .. k})
                      /\ Extends(w, f[k])
            S == {k \in 0 .. n : Run(k)}
<1>3. w \in Writers /\ m \in Nat
  BY DEF Stands, Sound
<1>4. 0 \in S
  <2>1. f[0] = w
    BY <1>1, <1>2 DEF IsRun
  <2>2. Extends(w, w)
    BY <1>3, ExtendsItself
  <2>3. /\ U \ {tasks[i].id : i \in 1 .. 0} = U
        /\ O \cup {Written(tasks[i], kind) : i \in 1 .. 0} = O
    OBVIOUS
  <2>4. Run(0)
    BY <2>1, <2>2, <2>3
  <2>. QED  BY <1>1, <2>4
<1>5. ASSUME NEW k \in 1 .. n, k - 1 \in S
      PROVE  k \in S
  <2>1. PICK v : v = f[k - 1]
    OBVIOUS
  <2>2. PICK task \in Task : task = tasks[k]
    BY <1>1, ElementOfSeq
  <2>3. PICK o : o = Written(task, kind)
    OBVIOUS
  <2>4. o \in FileObject /\ o.id = task.id
    BY <2>3, WrittenIsObject
  <2>5. f[k] = WriteAt(v, o)
    <3>1. k \in 0 .. n /\ k # 0
      BY <1>1
    <3>2. f[k] = WriteAt(f[k - 1], Object(tasks[k].id, kind, {}, <<>>))
      BY <1>2, <3>1 DEF IsRun
    <3>. QED  BY <2>1, <2>2, <2>3, <3>2 DEF Written
  <2>6. PICK V, P : /\ V = U \ {tasks[i].id : i \in 1 .. k - 1}
                    /\ P = O \cup {Written(tasks[i], kind) : i \in 1 .. k - 1}
    OBVIOUS
  <2>7. Stands(v, {}, m, V, P) /\ Extends(w, v)
    BY <1>5, <2>1, <2>6
  <2>8. o.id \in V
    <3>1. \A i \in 1 .. k - 1 : i \in 1 .. n /\ i # k
      BY <1>1
    <3>2. \A i \in 1 .. k - 1 : tasks[i].id # tasks[k].id
      BY <1>1, <3>1
    <3>. QED  BY <1>1, <2>2, <2>4, <2>6, <3>2
  <2>9. Len(v.file) <= MaxWritePosition
    <3>1. Sound(v, {}) /\ Len(v.registry) = m
      BY <2>7 DEF Stands
    <3>2. Len(v.file) \in Nat /\ Len(v.file) <= m - 1
      BY <3>1, FileIsShort
    <3>3. MaxWritePosition \in Nat /\ m \in Nat /\ m <= MaxWritePosition
      BY <1>3, RegistryAssumption
    <3>4. PICK j \in Nat : j = Len(v.file)
      BY <3>2
    <3>5. j <= m - 1
      BY <3>2, <3>4
    <3>. QED  BY <3>3, <3>4, <3>5
  <2>10. Stands(f[k], {}, m, V \ {o.id}, P \cup {o}) /\ Extends(v, f[k])
    <3>1. o \in FileObject /\ Stands(v, {}, m, V, P)
      BY <2>4, <2>7
    <3>2. Stands(WriteAt(v, o), {}, m, V \ {o.id}, P \cup {o}) /\ Extends(v, WriteAt(v, o))
      BY <2>8, <2>9, <3>1, WriteAtStands
    <3>. QED  BY <2>5, <3>2
  <2>11. Extends(w, f[k])
    <3>1. v \in Writers
      BY <2>7 DEF Stands, Sound
    <3>. QED  BY <1>3, <2>7, <2>10, <3>1, ExtendsTwice
  <2>12. /\ \A i \in 1 .. k : i \in 1 .. k - 1 \/ i = k
         /\ \A i \in 1 .. k - 1 : i \in 1 .. k
         /\ k \in 1 .. k
    BY <1>1
  <2>13. /\ V \ {o.id} = U \ {tasks[i].id : i \in 1 .. k}
         /\ P \cup {o} = O \cup {Written(tasks[i], kind) : i \in 1 .. k}
    BY <2>2, <2>3, <2>4, <2>6, <2>12
  <2>14. Run(k)
    BY <2>10, <2>11, <2>13
  <2>. QED  BY <1>1, <2>14
<1>6. n \in S
  <2>1. n \in Nat /\ n \in 0 .. n
    BY <1>1
  <2>. HIDE DEF S
  <2>2. \A k \in 1 .. n : k - 1 \in S => k \in S
    BY <1>5
  <2>3. \A k \in 0 .. n : k \in S
    BY <1>4, <2>1, <2>2, PrefixInduction
  <2>. QED  BY <2>1, <2>3
<1>. QED  BY <1>2, <1>6

\* A chain of writers, from x to w.
Leads(x, w, m, U, O) == x \in Writers /\ Stands(w, {}, m, U, O) /\ Extends(x, w)

LEMMA LeadsToExtension ==
    ASSUME NEW x, NEW w, NEW m, NEW U, NEW O, Leads(x, w, m, U, O),
           NEW v, NEW n, NEW V, NEW P, Stands(v, {}, n, V, P), Extends(w, v)
    PROVE  Leads(x, v, n, V, P)
<1>1. x \in Writers /\ w \in Writers /\ Extends(x, w)
  BY DEF Leads, Stands, Sound
<1>. QED  BY <1>1, ExtendsTwice DEF Leads

LEMMA LeadsToWriting ==
    ASSUME NEW x, NEW w, NEW m, NEW U, NEW O, Leads(x, w, m, U, O), m <= MaxWritePosition,
           NEW o \in FileObject, NEW id \in U, o.id = id,
           NEW v, v = WriteAt(w, o), NEW V, V = U \ {id}, NEW P, P = O \cup {o}
    PROVE  Leads(x, v, m, V, P)
<1>1. Stands(w, {}, m, U, O) /\ o.id \in U
  BY DEF Leads
<1>2. Len(w.file) <= MaxWritePosition
  <2>1. Sound(w, {}) /\ Len(w.registry) = m /\ m \in Nat
    BY <1>1 DEF Stands, Sound
  <2>2. PICK j \in Nat : j = Len(w.file) /\ j <= m - 1
    BY <2>1, FileIsShort
  <2>3. MaxWritePosition \in Nat
    BY RegistryAssumption
  <2>. QED  BY <2>1, <2>2, <2>3
<1>3. Stands(WriteAt(w, o), {}, m, U \ {o.id}, O \cup {o}) /\ Extends(w, WriteAt(w, o))
  BY <1>1, <1>2, WriteAtStands
<1>4. Stands(v, {}, m, V, P) /\ Extends(w, v)
  BY <1>3
<1>. QED  BY <1>4, LeadsToExtension

LEMMA LeadsToAllocation ==
    ASSUME NEW x, NEW w, NEW m, NEW U, NEW O, Leads(x, w, m, U, O),
           NEW v, v = Allocate(w), NEW l, l = m + 1, NEW V, V = U \cup {m}
    PROVE  Leads(x, v, l, V, O) /\ m \in Nat \ {0} /\ m \notin U
<1>1. Stands(w, {}, m, U, O)
  BY DEF Leads
<1>2. Stands(v, {}, l, V, O) /\ Extends(w, v) /\ m \in Nat \ {0} /\ m \notin U
  BY <1>1, AllocateStands
<1>. QED  BY <1>2, LeadsToExtension

LEMMA LeadsToTasks ==
    ASSUME NEW x, NEW w, NEW m, NEW U, NEW O, Leads(x, w, m, U, O), m <= MaxWritePosition,
           NEW tasks \in Seq(Task), NEW kind \in KindNames, NEW n \in 0 .. Len(tasks),
           \A k \in 1 .. Len(tasks) : tasks[k].id \in U,
           \A j, k \in 1 .. Len(tasks) : tasks[j].id = tasks[k].id => j = k,
           NEW v, v = WriteTasks(w, tasks, n, kind),
           NEW V, V = U \ {tasks[k].id : k \in 1 .. n},
           NEW P, P = O \cup {Written(tasks[k], kind) : k \in 1 .. n}
    PROVE  Leads(x, v, m, V, P)
<1>1. Stands(w, {}, m, U, O)
  BY DEF Leads
<1>2. Stands(v, {}, m, V, P) /\ Extends(w, v)
  BY SMTT(30), <1>1, TasksStand
<1>. QED  BY <1>2, LeadsToExtension

-----------------------------------------------------------------------------
(***************************************************************************)
(* What is assumed of the clients.  Their files are short enough for the   *)
(* positions of an xref table.  One that draws opacities (images) makes    *)
(* one document: Cleanup deletes the tasks that opacities wait for and     *)
(* does not forget them, and it does not forget the IDs of images.         *)
(***************************************************************************)
PositionsFit == \A c \in Clients : c.objects + 9 <= MaxWritePosition
OpacitiesOnce == \A c \in Clients : c.documents <= 1 \/ c.opacities = {}
ImagesOnce == \A c \in Clients : c.documents <= 1 \/ c.images = {}

-----------------------------------------------------------------------------
(***************************************************************************)
(* The invariant.  Every ID is given for something: K says, for every ID,  *)
(* the kind of the object it was given for, whether written or not.        *)
(***************************************************************************)
Kinds == [Nat -> KindNames]

PDFPage == [contents : Seq(Nat), xobjects : SUBSET Nat, gstates : SUBSET Nat]
FormRecord == [id : Nat, resources : Nat, xobjects : SUBSET Nat, gstates : SUBSET Nat]
HelperRecord == [encrypted : BOOLEAN, attached : BOOLEAN, pauseLevel : Int,
                 xcrypts : BOOLEAN, streamsListed : BOOLEAN, key : Int]

Shapes ==
    /\ client \in Clients /\ documents \in Nat
    /\ pages \in [PageObjects -> PDFPage]
    /\ form \in FormRecord /\ stream \in [owner : Surfaces, length : Nat]
    /\ isModified \in BOOLEAN
    /\ tree \in Nat /\ kids \in Seq(Nat) /\ annotations \subseteq Nat
    /\ imageIDs \in [Images -> Nat] /\ opacityIDs \in [Opacities -> Nat]
    /\ endTasks \in [Surfaces -> Seq(Task)] /\ moreEndTasks \in [Surfaces -> Seq(Task)]
    /\ helper \in HelperRecord

\* What is not written waits for one who will write it, and for one only.
TasksOwn(tasks, kind, K, U) ==
    /\ \A s \in Surfaces : \A j \in 1 .. Len(tasks[s]) :
          tasks[s][j].id \in U /\ K[tasks[s][j].id] = kind /\ ~tasks[s][j].freed
    /\ \A s, r \in Surfaces : \A j \in 1 .. Len(tasks[s]), k \in 1 .. Len(tasks[r]) :
          tasks[s][j].id = tasks[r][k].id => s = r /\ j = k

StreamOwns(K, U) ==
    /\ stream # NoStream =>
          /\ stream.length \in U /\ K[stream.length] = "length"
          /\ stream.owner = Form => form.resources \in U /\ K[form.resources] = "resources"
    /\ stream = NoStream \/ stream.owner # Form => form.resources = NoID

TreeOwned(K, U) == tree # NoID => tree \in U /\ K[tree] = "pages"

FormsKnown(K) == \A id \in forms : id \in 1 .. Len(registry) - 1 /\ K[id] = "form"

Owed(id) == \/ \E s \in Surfaces : id \in TaskIDsOf(s)
            \/ id = stream.length \/ id = form.resources
            \/ id \in forms \/ id = tree \/ id \in lost

\* A modified file starts with the objects it had.
OriginalCount == IF documents \in client.encrypted THEN 4 ELSE 3
OriginalsStart ==
    isModified => /\ OriginalCount <= Len(file)
                  /\ \A k \in 1 .. OriginalCount : file[k].id = k

DrawsOpacities == client.opacities # {}

RegistryFits == Len(registry) <= client.objects \/ Len(registry) <= 5

OneOwner(K) ==
    /\ Sound(W, {}) /\ RegistryFits /\ OriginalsStart
    /\ TasksOwn(endTasks, "image", K, Unwritten(W))
    /\ TasksOwn(moreEndTasks, "gstate", K, Unwritten(W))
    /\ StreamOwns(K, Unwritten(W)) /\ TreeOwned(K, Unwritten(W)) /\ FormsKnown(K)
    /\ \A id \in Unwritten(W) : Owed(id)
    /\ ~DrawsOpacities => \A s \in Surfaces : moreEndTasks[s] = <<>>
    /\ documents # 0

\* What refers to an ID uses it as what it was given for.
Used(ids, kinds, K, m) == \A id \in ids : id \in 1 .. m - 1 /\ K[id] \in kinds

Fits(object, K, m) ==
    /\ object.kind = K[object.id]
    /\ \A ref \in object.refs : ref[2] \in 1 .. m - 1 /\ K[ref[2]] \in KindsFor(ref[1])
    /\ \A k \in 1 .. Len(object.kids) : object.kids[k] \in 1 .. m - 1

SurfaceFits(surface, K, m) ==
    /\ Used(surface.xobjects, {"image", "form"}, K, m)
    /\ Used(surface.gstates, {"gstate"}, K, m)

PageFits(p, K, m) == SurfaceFits(p, K, m) /\ Used(ToSet(p.contents), {"content"}, K, m)

RightKind(K) ==
    LET m == Len(registry) IN
    /\ \A object \in Objects(W) : Fits(object, K, m)
    /\ \A p \in PageObjects : PageFits(pages[p], K, m)
    /\ SurfaceFits(form, K, m)
    /\ Used(annotations, {"annotation"}, K, m)
    /\ \A i \in Images : imageIDs[i] # NoID => Used({imageIDs[i]}, {"image"}, K, m)
    /\ \A a \in Opacities : opacityIDs[a] # NoID => Used({opacityIDs[a]}, {"gstate"}, K, m)
    /\ \A k \in 1 .. Len(kids) : kids[k] \in 1 .. m - 1
    /\ trailer.root = IF isModified THEN 1 ELSE NoID
    /\ isModified => K[1] = "catalog" /\ K[2] = "pages"
    /\ Clean(W) \subseteq IF isModified THEN 1 .. OriginalCount ELSE {}

\* Between documents all is forgotten but what the next one may not meet.
Forgotten ==
    /\ registry = EmptyRegistry /\ tree = NoID /\ kids = <<>> /\ annotations = {}
    /\ trailer = NewTrailer /\ opacityIDs = [a \in Opacities |-> NoID]
    /\ endTasks = [s \in Surfaces |-> <<>>]
    /\ documents < client.documents => moreEndTasks = [s \in Surfaces |-> <<>>]
    /\ ImagesOnce /\ documents < client.documents => imageIDs = [i \in Images |-> NoID]
    /\ NothingIsWrittenTwice
    /\ ImagesOnce => ReferencesResolve

Open(K) == OneOwner(K) /\ (ImagesOnce => RightKind(K))

\* Only the client's images are drawn, and a document has no result before it is ended.
Asides ==
    /\ \A i \in Images : i \in client.images \/ imageIDs[i] = NoID
    /\ phase = "open" => result = NoResult

DInv == /\ Shapes /\ Asides
        /\ \/ phase = "open" /\ \E K \in Kinds : Open(K)
           \/ phase = "closed" /\ Forgotten

-----------------------------------------------------------------------------
(***************************************************************************)
(* Shapes.                                                                 *)
(***************************************************************************)
LEMMA HelperShape ==
    ASSUME NEW h \in HelperRecord
    PROVE  /\ \A n \in Int : [h EXCEPT !.pauseLevel = @ + n] \in HelperRecord
           /\ \A n \in Int : Setup(h, n) \in HelperRecord
           /\ [h EXCEPT !.attached = FALSE] \in HelperRecord
           /\ [h EXCEPT !.attached = FALSE, !.pauseLevel = 0, !.xcrypts = TRUE,
                        !.streamsListed = TRUE] \in HelperRecord
<1>1. \A n \in Int : [h EXCEPT !.pauseLevel = @ + n] \in HelperRecord
  BY DEF HelperRecord
<1>2. ASSUME NEW n \in Int
      PROVE  Setup(h, n) \in HelperRecord
  <2>1. h.xcrypts \in BOOLEAN
    BY DEF HelperRecord
  <2>2. PICK listed \in BOOLEAN : listed = ~h.xcrypts
    BY <2>1
  <2>3. [h EXCEPT !.encrypted = TRUE, !.attached = TRUE, !.xcrypts = TRUE,
                  !.streamsListed = listed, !.key = n] \in HelperRecord
    BY DEF HelperRecord
  <2>. QED  BY <2>2, <2>3 DEF Setup
<1>3. [h EXCEPT !.attached = FALSE] \in HelperRecord
  BY DEF HelperRecord
<1>4. [h EXCEPT !.attached = FALSE, !.pauseLevel = 0, !.xcrypts = TRUE,
                !.streamsListed = TRUE] \in HelperRecord
  <2>1. PICK g : g = [h EXCEPT !.attached = FALSE, !.pauseLevel = 0, !.xcrypts = TRUE,
                               !.streamsListed = TRUE]
    OBVIOUS
  <2>2. g = [encrypted |-> h.encrypted, attached |-> FALSE, pauseLevel |-> 0,
             xcrypts |-> TRUE, streamsListed |-> TRUE, key |-> h.key]
    BY <2>1 DEF HelperRecord
  <2>3. h.encrypted \in BOOLEAN /\ h.key \in Int
    BY DEF HelperRecord
  <2>4. g \in HelperRecord
    BY <2>2, <2>3 DEF HelperRecord
  <2>. QED  BY <2>1, <2>4
<1>. QED  BY <1>1, <1>2, <1>3, <1>4

LEMMA PauseShape ==
    ASSUME helper \in HelperRecord, PauseEncryption \/ ReleaseEncryption
    PROVE  helper' \in HelperRecord
<1>1. PICK h \in HelperRecord : h = helper
  OBVIOUS
<1>2. 1 \in Int /\ -1 \in Int
  OBVIOUS
<1>. QED  BY <1>1, <1>2, HelperShape DEF PauseEncryption, ReleaseEncryption, ChangePauseLevel

LEMMA NoSurfaces ==
    /\ NoForm \in FormRecord /\ NewPDFPage \in PDFPage
    /\ NoStream \in [owner : Surfaces, length : Nat]
    /\ [p \in PageObjects |-> NewPDFPage] \in [PageObjects -> PDFPage]
    /\ [i \in Images |-> NoID] \in [Images -> Nat]
    /\ [a \in Opacities |-> NoID] \in [Opacities -> Nat]
    /\ [s \in Surfaces |-> <<>>] \in [Surfaces -> Seq(Task)]
<1>1. NewPDFPage \in PDFPage
  BY DEF NewPDFPage, PDFPage
<1>. QED  BY <1>1 DEF NoForm, FormRecord, NoStream, Surfaces, NoID

\* Surfaces get references to what is drawn on them.
LEMMA PageGets ==
    ASSUME NEW p \in PDFPage, NEW id \in Nat
    PROVE  /\ [p EXCEPT !.xobjects = @ \cup {id}] \in PDFPage
           /\ [p EXCEPT !.gstates = @ \cup {id}] \in PDFPage
           /\ [p EXCEPT !.contents = Append(@, id)] \in PDFPage
<1>1. PICK c \in Seq(Nat) : c = p.contents
  BY DEF PDFPage
<1>2. Append(c, id) \in Seq(Nat)
  BY AppendProperties
<1>. QED  BY <1>1, <1>2 DEF PDFPage

LEMMA FormGets ==
    ASSUME NEW f \in FormRecord, NEW id \in Nat
    PROVE  /\ [f EXCEPT !.xobjects = @ \cup {id}] \in FormRecord
           /\ [f EXCEPT !.gstates = @ \cup {id}] \in FormRecord
BY DEF FormRecord

LEMMA SurfaceGets ==
    ASSUME pages \in [PageObjects -> PDFPage], form \in FormRecord,
           NEW s \in Surfaces, NEW id \in Nat, AddXObject(s, id) \/ AddExtGState(s, id)
    PROVE  pages' \in [PageObjects -> PDFPage] /\ form' \in FormRecord
<1>1. CASE s = Form
  BY <1>1, FormGets DEF AddXObject, AddExtGState
<1>2. CASE s # Form
  <2>1. s \in PageObjects
    BY <1>2 DEF Surfaces
  <2>2. PICK p \in PDFPage : p = pages[s]
    BY <2>1
  <2>3. /\ [p EXCEPT !.xobjects = @ \cup {id}] \in PDFPage
        /\ [p EXCEPT !.gstates = @ \cup {id}] \in PDFPage
    BY PageGets
  <2>. QED  BY <1>2, <2>1, <2>2, <2>3 DEF AddXObject, AddExtGState
<1>. QED  BY <1>1, <1>2

LEMMA TaskScheduled ==
    ASSUME NEW tasks \in [Surfaces -> Seq(Task)], NEW s \in Surfaces, NEW id \in Nat
    PROVE  Scheduled(tasks, s, id) \in [Surfaces -> Seq(Task)]
<1>1. PICK task \in Task : task = [id |-> id, freed |-> FALSE]
  BY DEF Task
<1>2. PICK t \in Seq(Task) : t = tasks[s]
  OBVIOUS
<1>3. Append(t, task) \in Seq(Task)
  BY AppendProperties
<1>. QED  BY <1>1, <1>2, <1>3 DEF Scheduled

LEMMA TasksDiscarded ==
    ASSUME NEW tasks \in [Surfaces -> Seq(Task)], NEW s \in Surfaces
    PROVE  Discarded(tasks, s) \in [Surfaces -> Seq(Task)]
BY DEF Discarded

LEMMA TasksFreed ==
    ASSUME moreEndTasks \in [Surfaces -> Seq(Task)], NEW s \in Surfaces
    PROVE  /\ TasksAfterCleanup(s) \in Seq(Task)
           /\ moreEndTasks[s] = <<>> => TasksAfterCleanup(s) = <<>>
<1>1. PICK t \in Seq(Task) : t = moreEndTasks[s]
  OBVIOUS
<1>2. Len(t) \in Nat /\ \A k \in 1 .. Len(t) : t[k] \in Task
  BY LenProperties, ElementOfSeq
<1>3. \A k \in 1 .. Len(t) : [t[k] EXCEPT !.freed = TRUE] \in Task
  BY <1>2 DEF Task
<1>4. [k \in 1 .. Len(t) |-> [t[k] EXCEPT !.freed = TRUE]] \in Seq(Task)
  BY <1>2, <1>3, IsASeq
<1>5. t = <<>> => [k \in 1 .. Len(t) |-> [t[k] EXCEPT !.freed = TRUE]] = <<>>
  OBVIOUS
<1>. QED  BY <1>1, <1>4, <1>5 DEF TasksAfterCleanup

LEMMA ClientNumbers ==
    ASSUME NEW c \in Clients
    PROVE  /\ c.documents \in Nat /\ c.objects \in Nat
           /\ c.documents + 1 \in Int
<1>1. IsClient(c)
  BY DocumentAssumption
<1>. QED  BY <1>1 DEF IsClient

LEMMA NextDocumentShapes ==
    ASSUME Shapes, NextDocument, UNCHANGED client, isModified' \in BOOLEAN,
           helper' \in HelperRecord
    PROVE  Shapes'
<1>1. documents' \in Nat
  BY DEF Shapes, NextDocument
<1>. QED  BY <1>1, NoSurfaces DEF Shapes, NextDocument, Surfaces

LEMMA StartShapes ==
    ASSUME Shapes, StartPDF \/ ModifyPDF, UNCHANGED client
    PROVE  Shapes'
<1>1. documents' \in Int /\ OriginalID \in Int
  BY ClientNumbers DEF Shapes, StartPDF, ModifyPDF, NextDocument, OriginalID
<1>2. PICK h \in HelperRecord : h = helper
  BY DEF Shapes
<1>3. Setup(h, documents') \in HelperRecord /\ Setup(h, OriginalID) \in HelperRecord
  BY <1>1, <1>2, HelperShape
<1>4. helper' \in HelperRecord
  BY <1>2, <1>3 DEF StartPDF, ModifyPDF
<1>5. isModified' \in BOOLEAN /\ NextDocument
  BY DEF StartPDF, ModifyPDF
<1>. QED  BY <1>4, <1>5, NextDocumentShapes

\* The numbers an action takes from the registry.
LEMMA NumbersOfIDs ==
    ASSUME Len(registry) \in Nat
    PROVE  NextID(W) \in Nat /\ NextID(W) + 1 \in Nat
BY DEF NextID, W, GetObjectsCount

LEMMA CleanupShapes ==
    ASSUME Shapes, Cleanup, UNCHANGED client
    PROVE  Shapes'
<1>1. helper' \in HelperRecord
  BY HelperShape DEF Cleanup, Shapes
<1>2. \A s \in Surfaces : TasksAfterCleanup(s) \in Seq(Task)
  BY TasksFreed DEF Shapes
<1>3. moreEndTasks' \in [Surfaces -> Seq(Task)]
  BY <1>2 DEF Cleanup
<1>4. tree' \in Nat /\ kids' \in Seq(Nat) /\ annotations' \subseteq Nat
  BY DEF Cleanup, KidsAfterCleanup, AnnotationsAfterCleanup, NoID
<1>5. opacityIDs' \in [Opacities -> Nat] /\ endTasks' \in [Surfaces -> Seq(Task)]
  BY NoSurfaces DEF Cleanup
<1>. QED  BY <1>1, <1>3, <1>4, <1>5 DEF Cleanup, Shapes, Surfaces

LEMMA StreamShapes ==
    ASSUME Shapes, Len(registry) \in Nat, UNCHANGED client,
           \/ \E p \in PageObjects : StartContentStream(p)
           \/ EndContentStream
    PROVE  Shapes'
<1>1. CASE \E p \in PageObjects : StartContentStream(p)
  <2>1. PICK p \in PageObjects : StartContentStream(p)
    BY <1>1
  <2>2. PICK id \in Nat : id = NextID(W) /\ id + 1 \in Nat
    BY NumbersOfIDs
  <2>3. PICK page \in PDFPage : page = pages[p]
    BY DEF Shapes
  <2>4. [page EXCEPT !.contents = Append(@, id)] \in PDFPage
    BY PageGets
  <2>5. pages' \in [PageObjects -> PDFPage]
    BY <2>1, <2>2, <2>3, <2>4 DEF StartContentStream, Shapes
  <2>6. stream' \in [owner : Surfaces, length : Nat]
    BY <2>1, <2>2 DEF StartContentStream, Surfaces
  <2>7. helper' \in HelperRecord
    BY <2>1, PauseShape DEF StartContentStream, Shapes
  <2>. QED  BY <2>1, <2>5, <2>6, <2>7 DEF StartContentStream, Shapes, Surfaces, identity
<1>2. CASE EndContentStream
  <2>1. helper' \in HelperRecord
    BY <1>2, PauseShape DEF EndContentStream, Shapes
  <2>. QED  BY <1>2, <2>1, NoSurfaces DEF EndContentStream, Shapes, Surfaces, identity
<1>. QED  BY <1>1, <1>2

LEMMA DrawingShapes ==
    ASSUME Shapes, Len(registry) \in Nat, UNCHANGED client, NEW s \in Surfaces,
           \/ \E image \in client.images : DrawImage(s, image)
           \/ \E alpha \in client.opacities : SetOpacity(s, alpha)
    PROVE  Shapes'
<1>1. PICK id \in Nat : id = NextID(W)
  BY NumbersOfIDs
<1>2. client.images \subseteq Images /\ client.opacities \subseteq Opacities
  BY DocumentAssumption DEF IsClient, Shapes
<1>3. CASE \E image \in client.images : DrawImage(s, image)
  <2>1. PICK image \in Images : DrawImage(s, image)
    BY <1>2, <1>3
  <2>2. imageIDs' \in [Images -> Nat] /\ imageIDs'[image] \in Nat
    <3>1. \/ imageIDs' = [imageIDs EXCEPT ![image] = NextID(W)]
          \/ imageIDs' = imageIDs
      BY <2>1 DEF DrawImage
    <3>2. NextID(W) \in Nat
      BY <1>1
    <3>3. imageIDs \in [Images -> Nat] /\ opacityIDs \in [Opacities -> Nat]
      BY DEF Shapes
    <3>. QED  BY <3>1, <3>2, <3>3
  <2>3. endTasks' \in [Surfaces -> Seq(Task)]
    <3>1. endTasks' = Scheduled(endTasks, s, NextID(W)) \/ endTasks' = endTasks
      BY <2>1 DEF DrawImage
    <3>2. NextID(W) \in Nat /\ endTasks \in [Surfaces -> Seq(Task)]
      BY <1>1 DEF Shapes
    <3>. QED  BY <3>1, <3>2, TaskScheduled
  <2>4. pages' \in [PageObjects -> PDFPage] /\ form' \in FormRecord
    BY <2>1, <2>2, SurfaceGets DEF DrawImage, Shapes
  <2>. QED  BY <2>1, <2>2, <2>3, <2>4 DEF DrawImage, Shapes, Surfaces, identity
<1>4. CASE \E alpha \in client.opacities : SetOpacity(s, alpha)
  <2>1. PICK alpha \in Opacities : SetOpacity(s, alpha)
    BY <1>2, <1>4
  <2>2. opacityIDs' \in [Opacities -> Nat] /\ opacityIDs'[alpha] \in Nat
    <3>1. \/ opacityIDs' = [opacityIDs EXCEPT ![alpha] = NextID(W)]
          \/ opacityIDs' = opacityIDs
      BY <2>1 DEF SetOpacity
    <3>2. NextID(W) \in Nat
      BY <1>1
    <3>3. imageIDs \in [Images -> Nat] /\ opacityIDs \in [Opacities -> Nat]
      BY DEF Shapes
    <3>. QED  BY <3>1, <3>2, <3>3
  <2>3. moreEndTasks' \in [Surfaces -> Seq(Task)]
    <3>1. moreEndTasks' = Scheduled(moreEndTasks, s, NextID(W)) \/ moreEndTasks' = moreEndTasks
      BY <2>1 DEF SetOpacity
    <3>2. NextID(W) \in Nat /\ moreEndTasks \in [Surfaces -> Seq(Task)]
      BY <1>1 DEF Shapes
    <3>. QED  BY <3>1, <3>2, TaskScheduled
  <2>4. pages' \in [PageObjects -> PDFPage] /\ form' \in FormRecord
    BY <2>1, <2>2, SurfaceGets DEF SetOpacity, Shapes
  <2>. QED  BY <2>1, <2>2, <2>3, <2>4 DEF SetOpacity, Shapes, Surfaces, identity
<1>. QED  BY <1>3, <1>4

LEMMA FormShapes ==
    ASSUME Shapes, Len(registry) \in Nat, UNCHANGED client, forms \subseteq Nat,
           \/ AllocateForm
           \/ \E id \in forms : \/ StartFormXObject(id)
                                \/ \E p \in PageObjects : DrawForm(p, id)
           \/ \E n \in Nat : EndFormXObject(n)
    PROVE  Shapes'
<1>1. CASE AllocateForm
  BY <1>1 DEF AllocateForm, Shapes, Surfaces, drawing, identity
<1>2. ASSUME NEW id \in forms, StartFormXObject(id)
      PROVE  Shapes'
  <2>1. PICK r \in Nat : r = NextID(W) /\ r + 1 \in Nat
    BY NumbersOfIDs
  <2>2. form' = [NoForm EXCEPT !.id = id, !.resources = r]
    BY <1>2, <2>1 DEF StartFormXObject
  <2>3. form' = [id |-> id, resources |-> r, xobjects |-> {}, gstates |-> {}]
    BY <2>2 DEF NoForm
  <2>4. form' \in FormRecord
    BY <2>3 DEF FormRecord
  <2>5. stream' \in [owner : Surfaces, length : Nat]
    BY <1>2, <2>1 DEF StartFormXObject, Surfaces
  <2>6. helper' \in HelperRecord
    BY <1>2, PauseShape DEF StartFormXObject, Shapes
  <2>. QED  BY <1>2, <2>4, <2>5, <2>6 DEF StartFormXObject, Shapes, Surfaces, identity
<1>3. ASSUME NEW id \in forms, NEW p \in PageObjects, DrawForm(p, id)
      PROVE  Shapes'
  <2>1. PICK page \in PDFPage : page = pages[p]
    BY DEF Shapes
  <2>2. [page EXCEPT !.xobjects = @ \cup {id}] \in PDFPage
    BY PageGets
  <2>3. pages' \in [PageObjects -> PDFPage]
    BY <1>3, <2>1, <2>2 DEF DrawForm, Shapes
  <2>. QED  BY <1>3, <2>3 DEF DrawForm, Shapes, Surfaces, document, identity
<1>4. ASSUME NEW n \in Nat, EndFormXObject(n)
      PROVE  Shapes'
  <2>1. helper' \in HelperRecord
    BY <1>4, PauseShape DEF EndFormXObject, Shapes
  <2>2. endTasks' \in [Surfaces -> Seq(Task)] /\ moreEndTasks' \in [Surfaces -> Seq(Task)]
    BY <1>4, TasksDiscarded DEF EndFormXObject, RunTasks, Shapes, Surfaces
  <2>. QED  BY <1>4, <2>1, <2>2, NoSurfaces DEF EndFormXObject, Shapes, Surfaces, identity
<1>. QED  BY <1>1, <1>2, <1>3, <1>4

LEMMA PageShapes ==
    ASSUME Shapes, registry \in Seq(ObjectWriteInformation), UNCHANGED client,
           \/ AttachURLLinktoCurrentPage
           \/ \E p \in PageObjects, release \in BOOLEAN :
                 \/ \E n \in Nat : WritePage(p, n, release)
                 \/ WritePageFailsOnResources(p, release)
    PROVE  Shapes'
<1>1. PICK id \in Nat : id = NextID(W)
  BY NumbersOfIDs, LenProperties
<1>2. CASE AttachURLLinktoCurrentPage
  BY <1>1, <1>2 DEF AttachURLLinktoCurrentPage, Shapes, Surfaces, drawing, identity
<1>3. ASSUME NEW p \in PageObjects, NEW release \in BOOLEAN, AddPageToPageTree,
             Release(p, release), phase' \in {phase} \cup CrashesOn({p}),
             annotations' \subseteq Nat,
             endTasks' \in [Surfaces -> Seq(Task)], moreEndTasks' \in [Surfaces -> Seq(Task)]
      PROVE  Shapes'
  <2>1. kids' \in Seq(Nat)
    <3>1. PICK k \in Seq(Nat) : k = kids
      BY DEF Shapes
    <3>2. Append(k, id) \in Seq(Nat)
      BY AppendProperties
    <3>. QED  BY <1>1, <1>3, <3>1, <3>2 DEF AddPageToPageTree, KidsAfter
  <2>2. tree' \in Nat
    <3>1. NextID(StartPage) = Len(Append(registry, NewObject))
      BY DEF NextID, StartPage, Allocate, W, AllocateNewObjectID, GetObjectsCount
    <3>2. NextID(StartPage) \in Nat
      BY <3>1, RegistryAssumption, AppendProperties, LenProperties
         DEF NewObject, ObjectWriteInformation, ReferenceTypes
    <3>. QED  BY <1>3, <3>2 DEF AddPageToPageTree, TreeAfter, Shapes
  <2>3. pages' \in [PageObjects -> PDFPage]
    BY <1>3, NoSurfaces DEF Release, Shapes
  <2>. QED  BY <1>3, <2>1, <2>2, <2>3 DEF AddPageToPageTree, Shapes, Surfaces, identity
<1>4. ASSUME NEW p \in PageObjects, NEW release \in BOOLEAN, NEW n \in Nat,
             WritePage(p, n, release)
      PROVE  Shapes'
  <2>1. endTasks' \in [Surfaces -> Seq(Task)] /\ moreEndTasks' \in [Surfaces -> Seq(Task)]
    BY <1>4, TasksDiscarded DEF WritePage, RunTasks, Shapes, Surfaces
  <2>. QED  BY <1>3, <1>4, <2>1 DEF WritePage, AnnotationsAfterPage
<1>5. ASSUME NEW p \in PageObjects, NEW release \in BOOLEAN,
             WritePageFailsOnResources(p, release)
      PROVE  Shapes'
  BY <1>3, <1>5 DEF WritePageFailsOnResources, Shapes
<1>. QED  BY <1>2, <1>4, <1>5

LEMMA RestartShapes ==
    ASSUME Shapes, ShutdownAndContinue \/ SetCreationDate, UNCHANGED client
    PROVE  Shapes'
<1>1. CASE ShutdownAndContinue
  <2>1. helper' \in HelperRecord
    BY <1>1, HelperShape DEF ShutdownAndContinue, Shapes
  <2>. QED  BY <1>1, <2>1, NoSurfaces DEF ShutdownAndContinue, Shapes, Surfaces, identity
<1>2. CASE SetCreationDate
  BY <1>2 DEF SetCreationDate, Shapes, Surfaces, drawing, identity
<1>. QED  BY <1>1, <1>2

-----------------------------------------------------------------------------
(***************************************************************************)
(* What the steps of an open document have in common.                      *)
(***************************************************************************)
LEMMA OpenWriter ==
    ASSUME Shapes, NEW K, OneOwner(K), PositionsFit
    PROVE  /\ Stands(W, {}, Len(registry), Unwritten(W), Objects(W))
           /\ W \in Writers /\ W.registry = registry /\ W.file = file
           /\ registry \in Seq(ObjectWriteInformation) /\ file \in Seq(FileObject)
           /\ Len(registry) \in Nat \ {0} /\ NextID(W) = Len(registry)
           /\ Len(registry) + 4 <= MaxWritePosition
           /\ Len(file) \in Nat /\ Len(file) <= Len(registry) - 1
           /\ Unwritten(W) \subseteq 1 .. Len(registry) - 1
<1>1. W.registry = registry /\ W.file = file
  BY DEF W
<1>2. Sound(W, {}) /\ W \in Writers /\ Len(registry) \in Nat \ {0}
  BY <1>1 DEF OneOwner, Sound
<1>3. registry \in Seq(ObjectWriteInformation) /\ file \in Seq(FileObject)
  BY <1>1, <1>2, WriterParts
<1>4. Len(file) \in Nat /\ Len(file) <= Len(registry) - 1
  BY <1>1, <1>2, FileIsShort
<1>5. Len(registry) + 4 <= MaxWritePosition
  <2>1. client.objects \in Nat /\ client.objects + 9 <= MaxWritePosition
    BY ClientNumbers DEF PositionsFit, Shapes
  <2>2. Len(registry) <= client.objects \/ Len(registry) <= 5
    BY DEF OneOwner, RegistryFits
  <2>3. MaxWritePosition \in Nat /\ Len(registry) \in Nat
    BY <1>2, RegistryAssumption
  <2>. QED  BY <2>1, <2>2, <2>3
<1>6. Unwritten(W) \subseteq 1 .. Len(registry) - 1
  BY <1>1 DEF Unwritten
<1>7. NextID(W) = Len(registry)
  BY <1>1 DEF NextID, GetObjectsCount
<1>. QED  BY <1>1, <1>2, <1>3, <1>4, <1>5, <1>6, <1>7 DEF Stands

LEMMA Became ==
    ASSUME NEW v \in Writers, Become(v)
    PROVE  W' = v
<1>1. v = [registry |-> v.registry, file |-> v.file]
  BY DEF Writers
<1>. QED  BY <1>1 DEF Become, W

\* A chain begins where the document is, and it becomes the end of it.
LEMMA LeadsFrom ==
    ASSUME Shapes, NEW K, OneOwner(K), PositionsFit
    PROVE  \E n, U, O :
              /\ n \in Nat \ {0} /\ n \in Nat
              /\ n = Len(registry) /\ U = Unwritten(W) /\ O = Objects(W)
              /\ Leads(W, W, n, U, O) /\ U \subseteq 1 .. n - 1 /\ NextID(W) = n
              /\ n + 4 <= MaxWritePosition /\ n <= MaxWritePosition
<1>1. PICK n, U, O : n = Len(registry) /\ U = Unwritten(W) /\ O = Objects(W)
  OBVIOUS
<1>2. /\ Stands(W, {}, n, U, O) /\ W \in Writers /\ n \in Nat \ {0} /\ NextID(W) = n
      /\ n + 4 <= MaxWritePosition /\ U \subseteq 1 .. n - 1
  BY <1>1, OpenWriter
<1>3. Leads(W, W, n, U, O)
  BY <1>2, ExtendsItself DEF Leads
<1>4. n <= MaxWritePosition
  BY <1>2, RegistryAssumption
<1>. QED  BY <1>1, <1>2, <1>3, <1>4

LEMMA LeadsTo ==
    ASSUME NEW v, NEW m, NEW U, NEW O, Leads(W, v, m, U, O), Become(v)
    PROVE  Stands(W', {}, m, U, O) /\ Extends(W, W')
<1>1. Stands(v, {}, m, U, O) /\ Extends(W, v) /\ v \in Writers
  BY DEF Leads, Stands, Sound
<1>2. W' = v
  BY <1>1, Became
<1>. QED  BY <1>1, <1>2

LEMMA SameWriter ==
    ASSUME W \in Writers, UNCHANGED <<registry, file>>
    PROVE  W' = W /\ Extends(W, W')
<1>1. W' = W
  BY DEF W
<1>. QED  BY <1>1, ExtendsItself

\* K, and what the IDs from m on are given for.
Agree(K, L, m) == L \in Kinds /\ \A i \in 1 .. m - 1 : L[i] = K[i]

LEMMA NewKind ==
    ASSUME NEW K \in Kinds, NEW m \in Nat \ {0}, NEW kind \in KindNames
    PROVE  Agree(K, [K EXCEPT ![m] = kind], m) /\ [K EXCEPT ![m] = kind][m] = kind
<1>1. m \in Nat /\ \A i \in 1 .. m - 1 : i \in Nat /\ i # m
  OBVIOUS
<1>2. PICK L : L = [K EXCEPT ![m] = kind]
  OBVIOUS
<1>3. L \in Kinds /\ L[m] = kind /\ \A i \in Nat : i # m => L[i] = K[i]
  BY <1>1, <1>2 DEF Kinds
<1>. QED  BY <1>1, <1>2, <1>3 DEF Agree

LEMMA SameKinds ==
    ASSUME NEW K \in Kinds, NEW m
    PROVE  Agree(K, K, m)
BY DEF Agree

LEMMA AgreeTwice ==
    ASSUME NEW K, NEW L, NEW M, NEW m \in Nat, NEW n \in Nat, m <= n,
           Agree(K, L, m), Agree(L, M, n)
    PROVE  Agree(K, M, m)
<1>1. \A i \in 1 .. m - 1 : i \in 1 .. n - 1
  OBVIOUS
<1>. QED  BY <1>1 DEF Agree

LEMMA TasksKept ==
    ASSUME NEW tasks, NEW kind, NEW K, NEW U, TasksOwn(tasks, kind, K, U), NEW L, NEW V,
           \A id \in U : K[id] = kind => id \in V /\ L[id] = kind
    PROVE  TasksOwn(tasks, kind, L, V)
BY DEF TasksOwn

LEMMA NoTasksOwn ==
    ASSUME NEW K, NEW kind, NEW U
    PROVE  TasksOwn([s \in Surfaces |-> <<>>], kind, K, U)
BY DEF TasksOwn

\* K and U with one more ID, that the object is given for.
OneMore(id, kind, K, U, L, V) ==
    /\ \A i \in U : i \in V /\ L[i] = K[i]
    /\ id \notin U /\ id \in V /\ L[id] = kind

\* A task appended to those of a surface.
LEMMA TaskIsLast ==
    ASSUME NEW tasks \in [Surfaces -> Seq(Task)], NEW s \in Surfaces, NEW id \in Nat,
           NEW after, after = Scheduled(tasks, s, id)
    PROVE  \E n \in Nat :
              /\ n = Len(tasks[s])
              /\ \A k \in 1 .. Len(after[s]) :
                    \/ k \in 1 .. n /\ after[s][k] = tasks[s][k]
                    \/ k = n + 1 /\ after[s][k] = [id |-> id, freed |-> FALSE]
<1>1. PICK task : task = [id |-> id, freed |-> FALSE]
  OBVIOUS
<1>2. task \in Task /\ task.id = id /\ ~task.freed
  BY <1>1 DEF Task
<1>3. PICK t \in Seq(Task) : t = tasks[s]
  OBVIOUS
<1>4. PICK g : g = Append(t, task)
  OBVIOUS
<1>5. PICK n \in Nat : n = Len(t)
  BY LenProperties
<1>6. /\ Len(g) = n + 1 /\ g[n + 1] = task
      /\ \A k \in 1 .. n : g[k] = t[k]
  BY <1>2, <1>4, <1>5, AppendProperties
<1>7. /\ \A k \in 1 .. Len(g) : k \in 1 .. n \/ k = n + 1
      /\ n + 1 \in 1 .. Len(g) /\ \A k \in 1 .. n : k \in 1 .. Len(g)
  <2>1. n \in Nat /\ Len(g) = n + 1
    BY <1>6
  <2>. QED  BY <2>1
<1>8. after[s] = g
  BY <1>1, <1>3, <1>4 DEF Scheduled
<1>9. \A k \in 1 .. Len(g) : \/ k \in 1 .. n /\ g[k] = t[k]
                             \/ k = n + 1 /\ g[k] = task
  BY <1>6, <1>7
<1>. QED  BY <1>1, <1>3, <1>5, <1>8, <1>9

LEMMA ScheduledIDs ==
    ASSUME NEW tasks \in [Surfaces -> Seq(Task)], NEW s \in Surfaces, NEW id \in Nat
    PROVE  /\ id \in TaskIDs(Scheduled(tasks, s, id)[s])
           /\ \A i \in TaskIDs(tasks[s]) : i \in TaskIDs(Scheduled(tasks, s, id)[s])
<1>0. PICK after : after = Scheduled(tasks, s, id)
  OBVIOUS
<1>1. PICK task : task = [id |-> id, freed |-> FALSE]
  OBVIOUS
<1>2. task \in Task /\ task.id = id /\ ~task.freed
  BY <1>1 DEF Task
<1>3. PICK t \in Seq(Task) : t = tasks[s]
  OBVIOUS
<1>4. PICK g : g = Append(t, task)
  OBVIOUS
<1>5. PICK n \in Nat : n = Len(t)
  BY LenProperties
<1>6. /\ Len(g) = n + 1 /\ g[n + 1] = task
      /\ \A k \in 1 .. n : g[k] = t[k]
  BY <1>2, <1>4, <1>5, AppendProperties
<1>7. /\ \A k \in 1 .. Len(g) : k \in 1 .. n \/ k = n + 1
      /\ n + 1 \in 1 .. Len(g) /\ \A k \in 1 .. n : k \in 1 .. Len(g)
  <2>1. n \in Nat /\ Len(g) = n + 1
    BY <1>6
  <2>. QED  BY <2>1
<1>8. after[s] = g
  BY <1>0, <1>1, <1>3, <1>4 DEF Scheduled
<1>9. \A k \in 1 .. Len(g) : \/ k \in 1 .. n /\ g[k] = t[k]
                             \/ k = n + 1 /\ g[k] = task
  BY <1>6, <1>7
<1>10. /\ id \in TaskIDs(after[s])
       /\ \A i \in TaskIDs(tasks[s]) : i \in TaskIDs(after[s])
  BY <1>2, <1>3, <1>5, <1>6, <1>7, <1>8, <1>9 DEF TaskIDs
<1>. QED  BY <1>0, <1>10

LEMMA TaskAdded ==
    ASSUME NEW tasks \in [Surfaces -> Seq(Task)], NEW kind, NEW K, NEW U, NEW L, NEW V,
           NEW s \in Surfaces, NEW id \in Nat, NEW after, after = Scheduled(tasks, s, id),
           TasksOwn(tasks, kind, K, U), OneMore(id, kind, K, U, L, V)
    PROVE  TasksOwn(after, kind, L, V)
<1>1. PICK n \in Nat :
         /\ n = Len(tasks[s])
         /\ \A k \in 1 .. Len(after[s]) :
               \/ k \in 1 .. n /\ after[s][k] = tasks[s][k]
               \/ k = n + 1 /\ after[s][k] = [id |-> id, freed |-> FALSE]
  BY TaskIsLast
<1>2. \A r \in Surfaces : r # s => after[r] = tasks[r]
  BY DEF Scheduled
<1>3. /\ \A i \in U : i \in V /\ L[i] = K[i]
      /\ id \notin U /\ id \in V /\ L[id] = kind
  BY DEF OneMore
<1>4. ASSUME NEW r \in Surfaces, NEW j \in 1 .. Len(after[r])
      PROVE  \/ /\ j \in 1 .. Len(tasks[r]) /\ after[r][j] = tasks[r][j]
                /\ tasks[r][j].id \in U /\ K[tasks[r][j].id] = kind /\ ~tasks[r][j].freed
             \/ r = s /\ j = n + 1 /\ after[r][j].id = id /\ ~after[r][j].freed
  <2>1. CASE r = s
    <3>1. \/ j \in 1 .. n /\ after[s][j] = tasks[s][j]
          \/ j = n + 1 /\ after[s][j] = [id |-> id, freed |-> FALSE]
      BY <1>1, <1>4, <2>1
    <3>2. [id |-> id, freed |-> FALSE].id = id /\ ~[id |-> id, freed |-> FALSE].freed
      OBVIOUS
    <3>. QED  BY <1>1, <2>1, <3>1, <3>2 DEF TasksOwn
  <2>2. CASE r # s
    BY <1>2, <2>2 DEF TasksOwn
  <2>. QED  BY <2>1, <2>2
<1>5. ASSUME NEW r \in Surfaces, NEW j \in 1 .. Len(after[r])
      PROVE  /\ after[r][j].id \in V /\ L[after[r][j].id] = kind /\ ~after[r][j].freed
             /\ \/ /\ j \in 1 .. Len(tasks[r]) /\ after[r][j] = tasks[r][j]
                   /\ after[r][j].id # id
                \/ r = s /\ j = n + 1 /\ after[r][j].id = id
  BY <1>3, <1>4
<1>6. ASSUME NEW r \in Surfaces, NEW q \in Surfaces, NEW j \in 1 .. Len(after[r]),
             NEW k \in 1 .. Len(after[q]), after[r][j].id = after[q][k].id
      PROVE  r = q /\ j = k
  <2>1. CASE after[r][j].id = id
    <3>1. (r = s /\ j = n + 1) /\ (q = s /\ k = n + 1)
      BY <1>5, <1>6, <2>1
    <3>. QED  BY <3>1
  <2>2. CASE after[r][j].id # id
    <3>1. /\ j \in 1 .. Len(tasks[r]) /\ after[r][j] = tasks[r][j]
          /\ k \in 1 .. Len(tasks[q]) /\ after[q][k] = tasks[q][k]
      BY <1>5, <1>6, <2>2
    <3>2. tasks[r][j].id = tasks[q][k].id
      BY <1>6, <3>1
    <3>. QED  BY <3>1, <3>2 DEF TasksOwn
  <2>. QED  BY <2>1, <2>2
<1>. QED  BY <1>5, <1>6 DEF TasksOwn

LEMMA TasksRun ==
    ASSUME NEW tasks \in [Surfaces -> Seq(Task)], NEW kind, NEW K, NEW U,
           TasksOwn(tasks, kind, K, U), NEW L, NEW V, NEW s \in Surfaces,
           \A i \in U : K[i] = kind /\ i \notin TaskIDs(tasks[s]) => i \in V /\ L[i] = kind
    PROVE  TasksOwn(Discarded(tasks, s), kind, L, V)
<1>1. PICK after : after = Discarded(tasks, s)
  OBVIOUS
<1>2. after[s] = <<>> /\ \A r \in Surfaces : r # s => after[r] = tasks[r]
  BY <1>1 DEF Discarded
<1>3. ASSUME NEW r \in Surfaces, NEW j \in 1 .. Len(after[r])
      PROVE  r # s /\ after[r] = tasks[r] /\ tasks[r][j].id \notin TaskIDs(tasks[s])
  <2>1. r # s /\ after[r] = tasks[r]
    BY <1>2
  <2>2. \A k \in 1 .. Len(tasks[s]) : tasks[r][j].id # tasks[s][k].id
    BY <2>1 DEF TasksOwn
  <2>. QED  BY <2>1, <2>2 DEF TaskIDs
<1>4. TasksOwn(after, kind, L, V)
  <2>1. \A r \in Surfaces : \A j \in 1 .. Len(after[r]) :
           after[r][j].id \in V /\ L[after[r][j].id] = kind /\ ~after[r][j].freed
    <3>. SUFFICES ASSUME NEW r \in Surfaces, NEW j \in 1 .. Len(after[r])
                  PROVE  /\ after[r][j].id \in V /\ L[after[r][j].id] = kind
                         /\ ~after[r][j].freed
      OBVIOUS
    <3>1. r # s /\ after[r] = tasks[r] /\ tasks[r][j].id \notin TaskIDs(tasks[s])
      BY <1>3
    <3>2. tasks[r][j].id \in U /\ K[tasks[r][j].id] = kind /\ ~tasks[r][j].freed
      BY <3>1 DEF TasksOwn
    <3>. QED  BY <3>1, <3>2
  <2>2. \A r, t \in Surfaces : \A j \in 1 .. Len(after[r]), k \in 1 .. Len(after[t]) :
           after[r][j].id = after[t][k].id => r = t /\ j = k
    BY <1>3 DEF TasksOwn
  <2>. QED  BY <2>1, <2>2 DEF TasksOwn
<1>. QED  BY <1>1, <1>2, <1>4

LEMMA OriginalsKept ==
    ASSUME OriginalsStart, Extends(W, W'), Len(file) \in Nat,
           UNCHANGED <<isModified, documents, client>>
    PROVE  OriginalsStart'
<1>1. OriginalCount' = OriginalCount /\ OriginalCount \in Nat
  BY DEF OriginalCount
<1>2. /\ Len(file') \in Nat /\ Len(file) <= Len(file')
      /\ \A k \in 1 .. Len(file) : file'[k] = file[k]
  BY DEF Extends, W
<1>3. CASE isModified
  <2>1. OriginalCount <= Len(file) /\ \A k \in 1 .. OriginalCount : file[k].id = k
    BY <1>3 DEF OriginalsStart
  <2>2. OriginalCount <= Len(file')
    BY <1>1, <1>2, <2>1
  <2>3. \A k \in 1 .. OriginalCount : k \in 1 .. Len(file)
    BY <1>1, <2>1
  <2>. QED  BY <1>1, <1>2, <2>1, <2>2, <2>3 DEF OriginalsStart
<1>. QED  BY <1>3 DEF OriginalsStart

\* One owner each, after a step that leaves a sound writer.
LEMMA OwnersStep ==
    ASSUME Shapes, NEW K, OneOwner(K), NEW L, Agree(K, L, Len(registry)),
           NEW m \in Nat, NEW V, NEW P, Stands(W', {}, m, V, P), Extends(W, W'),
           Len(registry) \in Nat, Len(file) \in Nat, Len(registry) <= m,
           m <= client.objects \/ m = Len(registry),
           UNCHANGED <<isModified, documents, client>>,
           TasksOwn(endTasks', "image", L, V), TasksOwn(moreEndTasks', "gstate", L, V),
           StreamOwns(L, V)', TreeOwned(L, V)',
           \A id \in forms' : id \in forms \/ (id \in 1 .. m - 1 /\ L[id] = "form"),
           \A id \in V : Owed(id)',
           \A s \in Surfaces : moreEndTasks'[s] = <<>> \/ moreEndTasks'[s] = moreEndTasks[s]
                                                      \/ DrawsOpacities
    PROVE  OneOwner(L)'
<1>1. Sound(W', {}) /\ Unwritten(W') = V /\ Len(registry') = m
  BY DEF Stands, W
<1>2. OriginalsStart'
  BY OriginalsKept DEF OneOwner
<1>3. RegistryFits'
  BY <1>1 DEF OneOwner, RegistryFits
<1>4. FormsKnown(L)'
  <2>1. \A i \in 1 .. Len(registry) - 1 : i \in 1 .. m - 1
    OBVIOUS
  <2>2. \A id \in forms : id \in 1 .. Len(registry) - 1 /\ K[id] = "form"
    BY DEF OneOwner, FormsKnown
  <2>. QED  BY <1>1, <2>1, <2>2 DEF FormsKnown, Agree
<1>5. ~DrawsOpacities' => \A s \in Surfaces : moreEndTasks'[s] = <<>>
  BY DEF OneOwner, DrawsOpacities
<1>. QED  BY <1>1, <1>2, <1>3, <1>4, <1>5 DEF OneOwner, Surfaces

LEMMA UsedKept ==
    ASSUME NEW ids, NEW kinds, NEW K, NEW n \in Nat, Used(ids, kinds, K, n),
           NEW L, Agree(K, L, n), NEW m \in Nat, n <= m
    PROVE  Used(ids, kinds, L, m)
<1>1. \A i \in 1 .. n - 1 : i \in 1 .. m - 1
  OBVIOUS
<1>. QED  BY <1>1 DEF Used, Agree

LEMMA FitsKept ==
    ASSUME NEW K, NEW n \in Nat, NEW object, object.id \in 1 .. n - 1, Fits(object, K, n),
           NEW L, Agree(K, L, n), NEW m \in Nat, n <= m
    PROVE  Fits(object, L, m)
<1>1. \A i \in 1 .. n - 1 : i \in 1 .. m - 1
  OBVIOUS
<1>. QED  BY <1>1 DEF Fits, Agree

\* All is used as what it was given for, after a step that writes some objects.
LEMMA RightStep ==
    ASSUME Shapes, NEW K, RightKind(K), NEW L, Agree(K, L, Len(registry)),
           NEW U, NEW O, Stands(W, {}, Len(registry), U, O),
           NEW m \in Nat, NEW V, NEW P, Stands(W', {}, m, V, P), Extends(W, W'),
           Len(registry) \in Nat \ {0}, isModified => 3 <= Len(registry) , Len(registry) <= m,
           \A object \in P : object \in O \/ Fits(object, L, m),
           UNCHANGED <<isModified, documents, client>>, trailer'.root = trailer.root,
           \A p \in PageObjects : pages'[p] = pages[p] \/ PageFits(pages'[p], L, m),
           form' = form \/ SurfaceFits(form', L, m),
           \A id \in annotations' : id \in annotations \/ Used({id}, {"annotation"}, L, m),
           \A i \in Images : \/ imageIDs'[i] = imageIDs[i] \/ imageIDs'[i] = NoID
                             \/ Used({imageIDs'[i]}, {"image"}, L, m),
           \A a \in Opacities : \/ opacityIDs'[a] = opacityIDs[a] \/ opacityIDs'[a] = NoID
                                \/ Used({opacityIDs'[a]}, {"gstate"}, L, m),
           \A k \in 1 .. Len(kids') : kids'[k] \in 1 .. m - 1
    PROVE  RightKind(L)'
<1>. DEFINE n == Len(registry)
<1>1. Len(registry') = m /\ Objects(W') = P /\ Clean(W') \subseteq Clean(W)
  BY DEF Stands, W, Extends
<1>2. Objects(W) = O /\ \A object \in O : object.id \in 1 .. n - 1
  <2>1. O = {file[k] : k \in 1 .. Len(file)}
    BY DEF Stands, Objects, W
  <2>2. \A k \in 1 .. Len(file) : file[k].id \in 1 .. n - 1
    BY DEF Stands, Sound, ObjectIsKnown, W
  <2>. QED  BY <2>1, <2>2 DEF Stands
<1>3. n \in Nat /\ n <= m
  OBVIOUS
<1>. HIDE DEF n
<1>a. Agree(K, L, n) /\ n = Len(registry)
  BY DEF n
<1>4. \A object \in Objects(W') : Fits(object, L, m)
  BY <1>1, <1>2, <1>3, <1>a, FitsKept DEF RightKind
<1>5. \A p \in PageObjects : PageFits(pages'[p], L, m)
  BY <1>3, <1>a, UsedKept DEF RightKind, PageFits, SurfaceFits
<1>6. SurfaceFits(form', L, m)
  BY <1>3, <1>a, UsedKept DEF RightKind, SurfaceFits
<1>7. Used(annotations', {"annotation"}, L, m)
  <2>1. Used(annotations, {"annotation"}, L, m)
    BY <1>3, <1>a, UsedKept DEF RightKind
  <2>. QED  BY <2>1 DEF Used
<1>8. \A i \in Images : imageIDs'[i] # NoID => Used({imageIDs'[i]}, {"image"}, L, m)
  BY <1>3, <1>a, UsedKept DEF RightKind
<1>9. \A a \in Opacities : opacityIDs'[a] # NoID => Used({opacityIDs'[a]}, {"gstate"}, L, m)
  BY <1>3, <1>a, UsedKept DEF RightKind
<1>10. trailer'.root = IF isModified' THEN 1 ELSE NoID
  BY DEF RightKind
<1>11. isModified => L[1] = "catalog" /\ L[2] = "pages"
  <2>1. isModified => 1 \in 1 .. Len(registry) - 1 /\ 2 \in 1 .. Len(registry) - 1
    OBVIOUS
  <2>. QED  BY <2>1 DEF RightKind, Agree
<1>12. Clean(W') \subseteq IF isModified' THEN 1 .. OriginalCount' ELSE {}
  BY <1>1 DEF RightKind, OriginalCount
<1>. QED  BY <1>1, <1>4, <1>5, <1>6, <1>7, <1>8, <1>9, <1>10, <1>11, <1>12 DEF RightKind

\* A modified file has at least three objects.
LEMMA ModifiedHasObjects ==
    ASSUME OriginalsStart, Len(file) \in Nat, Len(registry) \in Nat,
           Len(file) <= Len(registry) - 1, isModified
    PROVE  /\ 3 <= Len(file) /\ 3 <= Len(registry)
           /\ 2 \in 1 .. Len(file) /\ 2 \in 1 .. Len(registry) - 1
           /\ file[1].id = 1 /\ file[2].id = 2
           /\ OriginalCount \in Nat /\ 3 <= OriginalCount
<1>1. OriginalCount \in Nat /\ 3 <= OriginalCount /\ OriginalCount <= Len(file)
  BY DEF OriginalsStart, OriginalCount
<1>2. /\ 3 <= Len(file) /\ 3 <= Len(registry)
      /\ 2 \in 1 .. Len(file) /\ 2 \in 1 .. Len(registry) - 1
      /\ 1 \in 1 .. OriginalCount /\ 2 \in 1 .. OriginalCount
  BY <1>1
<1>. QED  BY <1>1, <1>2 DEF OriginalsStart

\* What is owned, except the kinds of objects that are being written, is owned still.
LEMMA StillOwned ==
    ASSUME NEW K, OneOwner(K), NEW L, Agree(K, L, Len(registry)),
           Unwritten(W) \subseteq 1 .. Len(registry) - 1, NEW V, NEW gone,
           \A id \in Unwritten(W) : id \in V \/ K[id] \in gone
    PROVE  /\ "image" \notin gone => TasksOwn(endTasks, "image", L, V)
           /\ "gstate" \notin gone => TasksOwn(moreEndTasks, "gstate", L, V)
           /\ "pages" \notin gone => TreeOwned(L, V)
           /\ "length" \notin gone /\ "resources" \notin gone => StreamOwns(L, V)
<1>1. \A id \in Unwritten(W) : L[id] = K[id]
  BY DEF Agree
<1>2. "image" \notin gone => TasksOwn(endTasks, "image", L, V)
  BY <1>1, TasksKept DEF OneOwner
<1>3. "gstate" \notin gone => TasksOwn(moreEndTasks, "gstate", L, V)
  BY <1>1, TasksKept DEF OneOwner
<1>4. "pages" \notin gone => TreeOwned(L, V)
  BY <1>1 DEF OneOwner, TreeOwned
<1>5. "length" \notin gone /\ "resources" \notin gone => StreamOwns(L, V)
  BY <1>1 DEF OneOwner, StreamOwns
<1>. QED  BY <1>2, <1>3, <1>4, <1>5

LEMMA StillOwedBySome ==
    ASSUME NEW id, Owed(id),
           \A s \in Surfaces : id \in TaskIDsOf(s) => id \in TaskIDsOf(s)' \/ id \in lost',
           forms \subseteq forms', lost \subseteq lost', tree' = tree \/ id # tree,
           stream'.length = stream.length \/ id # stream.length,
           form'.resources = form.resources \/ id # form.resources
    PROVE  Owed(id)'
BY DEF Owed, Surfaces

LEMMA StillOwed ==
    ASSUME NEW id, Owed(id), UNCHANGED <<endTasks, moreEndTasks>>,
           forms \subseteq forms', lost \subseteq lost', tree' = tree \/ id # tree,
           stream'.length = stream.length \/ id # stream.length,
           form'.resources = form.resources \/ id # form.resources
    PROVE  Owed(id)'
<1>1. \A s \in Surfaces : TaskIDsOf(s)' = TaskIDsOf(s)
  BY DEF TaskIDsOf, TaskIDs
<1>. QED  BY <1>1 DEF Owed, Surfaces

LEMMA Names ==
    /\ "catalog" \in KindNames /\ "pages" \in KindNames /\ "page" \in KindNames
    /\ "encrypt" \in KindNames /\ "content" \in KindNames /\ "length" \in KindNames
    /\ "image" \in KindNames /\ "gstate" \in KindNames /\ "form" \in KindNames
    /\ "resources" \in KindNames /\ "annotation" \in KindNames /\ "info" \in KindNames
    /\ "Parent" \in RoleNames /\ "Pages" \in RoleNames /\ "Contents" \in RoleNames
    /\ "Annots" \in RoleNames /\ "XObject" \in RoleNames /\ "ExtGState" \in RoleNames
    /\ "Resources" \in RoleNames /\ "Length" \in RoleNames
BY DEF KindNames, RoleNames

\* References, and what they are to.
LEMMA RefsAre ==
    ASSUME NEW role \in RoleNames, NEW ids, ids \subseteq Nat
    PROVE  /\ Refs(role, ids) \in SUBSET (RoleNames \X Nat)
           /\ \A ref \in Refs(role, ids) : ref[1] = role /\ ref[2] \in ids
<1>1. ASSUME NEW ref \in Refs(role, ids)
      PROVE  ref \in RoleNames \X Nat /\ ref[1] = role /\ ref[2] \in ids
  <2>1. PICK id \in ids : ref = <<role, id>>
    BY DEF Refs
  <2>2. id \in Nat
    OBVIOUS
  <2>. QED  BY <2>1, <2>2
<1>. QED  BY <1>1

LEMMA Roles ==
    /\ KindsFor("Parent") = {"pages"} /\ KindsFor("Pages") = {"pages"}
    /\ KindsFor("Contents") = {"content"} /\ KindsFor("Annots") = {"annotation"}
    /\ KindsFor("XObject") = {"image", "form"} /\ KindsFor("ExtGState") = {"gstate"}
    /\ KindsFor("Resources") = {"resources"} /\ KindsFor("Length") = {"length"}
BY DEF KindsFor

RefsFit(refs, K, m) ==
    \A ref \in refs : ref[2] \in 1 .. m - 1 /\ K[ref[2]] \in KindsFor(ref[1])

LEMMA RefsFitUsed ==
    ASSUME NEW role \in RoleNames, NEW ids, NEW K, NEW m, Used(ids, KindsFor(role), K, m),
           ids \subseteq Nat
    PROVE  RefsFit(Refs(role, ids), K, m)
<1>1. \A ref \in Refs(role, ids) : ref[1] = role /\ ref[2] \in ids
  BY RefsAre
<1>2. \A id \in ids : id \in 1 .. m - 1 /\ K[id] \in KindsFor(role)
  BY DEF Used
<1>. QED  BY <1>1, <1>2 DEF RefsFit

LEMMA ObjectIs ==
    ASSUME NEW id \in Nat, NEW kind \in KindNames, NEW refs \in SUBSET (RoleNames \X Nat),
           NEW list \in Seq(Nat), NEW k \in Int, NEW whole \in BOOLEAN, NEW o,
           o = [[Object(id, kind, refs, list) EXCEPT !.key = k] EXCEPT !.whole = whole]
    PROVE  /\ o \in FileObject /\ o.id = id /\ o.kind = kind /\ o.refs = refs
           /\ o.kids = list
<1>1. o = [id |-> id, kind |-> kind, refs |-> refs, kids |-> list, key |-> k, whole |-> whole]
  BY DEF Object
<1>2. /\ o \in FileObject /\ o.id = id /\ o.kind = kind /\ o.refs = refs /\ o.kids = list
  <2>1. PICK r : r = [id |-> id, kind |-> kind, refs |-> refs, kids |-> list, key |-> k,
                      whole |-> whole]
    OBVIOUS
  <2>2. /\ r \in FileObject /\ r.id = id /\ r.kind = kind /\ r.refs = refs
        /\ r.kids = list
    BY <2>1 DEF FileObject
  <2>. QED  BY <1>1, <2>1, <2>2
<1>. QED  BY <1>2

LEMMA PlainObject ==
    ASSUME NEW id \in Nat, NEW kind \in KindNames, NEW refs \in SUBSET (RoleNames \X Nat),
           NEW list \in Seq(Nat), NEW o, o = Object(id, kind, refs, list)
    PROVE  /\ o \in FileObject /\ o.id = id /\ o.kind = kind /\ o.refs = refs
           /\ o.kids = list
<1>1. o = [id |-> id, kind |-> kind, refs |-> refs, kids |-> list, key |-> 0, whole |-> TRUE]
  BY DEF Object, Plain
<1>. QED  BY <1>1 DEF FileObject

LEMMA ObjectFits ==
    ASSUME NEW o, NEW K, NEW m, o.kind = K[o.id], RefsFit(o.refs, K, m),
           o.kids = <<>>
    PROVE  Fits(o, K, m)
BY DEF Fits, RefsFit

LEMMA StreamKeyIs ==
    ASSUME Shapes
    PROVE  StreamKey \in Int
BY DEF StreamKey, Shapes, HelperRecord, Plain, EmptyKey

\* What every step of an open document comes to.
Onward(K) == \E L \in Kinds : OneOwner(L)' /\ (RightKind(K) => RightKind(L)')

\* A step that writes nothing and gives no ID.
LEMMA NothingWritten ==
    ASSUME PositionsFit, Shapes, Shapes', NEW K \in Kinds, OneOwner(K),
           UNCHANGED <<registry, file, isModified, documents, client, stream, tree, forms,
                       kids, annotations, imageIDs, opacityIDs, endTasks, moreEndTasks,
                       lost>>,
           trailer'.root = trailer.root, form'.resources = form.resources,
           RightKind(K) => form' = form \/ SurfaceFits(form', K, Len(registry)),
           RightKind(K) =>
               \A p \in PageObjects :
                   pages'[p] = pages[p] \/ PageFits(pages'[p], K, Len(registry))
    PROVE  Onward(K)
<1>. DEFINE n == Len(registry)
<1>0. PICK U, O : U = Unwritten(W) /\ O = Objects(W)
  OBVIOUS
<1>1. /\ Stands(W, {}, n, U, O) /\ W \in Writers /\ n \in Nat \ {0} /\ Len(file) \in Nat
      /\ Len(file) <= n - 1 /\ U \subseteq 1 .. n - 1
  BY <1>0, OpenWriter
<1>2. W' = W /\ Extends(W, W')
  BY <1>1, SameWriter
<1>3. Stands(W', {}, n, U, O)
  BY <1>1, <1>2
<1>4. Agree(K, K, n) /\ n \in Nat /\ n <= n
  BY <1>1, SameKinds
<1>5. /\ TasksOwn(endTasks, "image", K, U) /\ TasksOwn(moreEndTasks, "gstate", K, U)
      /\ TreeOwned(K, U) /\ StreamOwns(K, U)
  BY <1>0 DEF OneOwner
<1>6. \A id \in U : Owed(id)'
  BY <1>0, StillOwed DEF OneOwner
<1>7. OneOwner(K)'
  <2>1. StreamOwns(K, U)' /\ TreeOwned(K, U)'
    BY <1>5 DEF StreamOwns, TreeOwned
  <2>. QED  BY <1>1, <1>2, <1>3, <1>4, <1>5, <1>6, <2>1, OwnersStep
<1>8. ASSUME RightKind(K)
      PROVE  RightKind(K)'
  <2>1. isModified => 3 <= n
    BY <1>1, ModifiedHasObjects DEF OneOwner
  <2>2. \A k \in 1 .. Len(kids) : kids[k] \in 1 .. n - 1
    BY <1>8 DEF RightKind
  <2>. QED  BY <1>1, <1>2, <1>3, <1>4, <1>8, <2>1, <2>2, RightStep
<1>. QED  BY <1>7, <1>8 DEF Onward

LEMMA NumberAppended ==
    ASSUME NEW s \in Seq(Nat), NEW n \in Nat
    PROVE  ToSet(Append(s, n)) = ToSet(s) \cup {n}
<1>1. PICK t : t = Append(s, n)
  OBVIOUS
<1>2. /\ t \in Seq(Nat) /\ Len(t) = Len(s) + 1 /\ t[Len(s) + 1] = n
      /\ \A k \in 1 .. Len(s) : t[k] = s[k]
  BY <1>1, AppendProperties
<1>3. DOMAIN s = 1 .. Len(s) /\ DOMAIN t = 1 .. Len(t) /\ Len(s) \in Nat
  BY <1>2, LenProperties
<1>4. /\ Len(s) + 1 \in 1 .. Len(t) /\ \A k \in 1 .. Len(s) : k \in 1 .. Len(t)
      /\ \A k \in 1 .. Len(t) : k \in 1 .. Len(s) \/ k = Len(s) + 1
  BY <1>2, <1>3
<1>5. ToSet(t) = ToSet(s) \cup {n}
  BY <1>2, <1>3, <1>4 DEF ToSet
<1>. QED  BY <1>1, <1>5

\* There is room for the next object of a file.
LEMMA RoomForOne ==
    ASSUME NEW n \in Nat \ {0}, Len(file) \in Nat, Len(file) <= n - 1,
           n + 4 <= MaxWritePosition
    PROVE  Len(file) <= MaxWritePosition /\ n + 2 <= MaxWritePosition
BY RegistryAssumption

LEMMA KindGiven ==
    ASSUME NEW K \in Kinds, NEW m \in Nat \ {0}, NEW kind \in KindNames
    PROVE  \E L \in Kinds : Agree(K, L, m) /\ L[m] = kind
<1>1. PICK L : L = [K EXCEPT ![m] = kind]
  OBVIOUS
<1>2. Agree(K, L, m) /\ L[m] = kind
  BY <1>1, NewKind
<1>. QED  BY <1>2 DEF Agree

LEMMA KindsGiven ==
    ASSUME NEW K \in Kinds, NEW m \in Nat \ {0}, NEW first \in KindNames, NEW second \in KindNames,
           NEW n \in Nat, n = m + 1
    PROVE  \E L \in Kinds : Agree(K, L, m) /\ L[m] = first /\ L[n] = second
<1>1. PICK M \in Kinds : Agree(K, M, m) /\ M[m] = first
  BY KindGiven
<1>2. n \in Nat \ {0}
  OBVIOUS
<1>3. PICK L \in Kinds : Agree(M, L, n) /\ L[n] = second
  BY <1>1, <1>2, KindGiven
<1>4. m \in Nat /\ n \in Nat /\ m <= n /\ m \in 1 .. n - 1
  BY <1>2
<1>5. Agree(K, L, m)
  BY <1>1, <1>3, <1>4, AgreeTwice
<1>6. L[m] = first
  BY <1>1, <1>3, <1>4 DEF Agree
<1>. QED  BY <1>2, <1>3, <1>5, <1>6

\* The IDs a step gives: n the first, then l, up to m.
Follow(n, l, m) ==
    /\ n \in Nat \ {0} /\ n \in Nat /\ l \in Nat /\ m \in Nat /\ l = n + 1 /\ m = n + 2
    /\ n <= m /\ n # l
    /\ n \in 1 .. m - 1 /\ l \in 1 .. m - 1
    /\ \A i \in 1 .. n - 1 : i \in 1 .. m - 1
    /\ n \notin 1 .. n - 1 /\ l \notin 1 .. n - 1

LEMMA Following ==
    ASSUME NEW n \in Nat \ {0}
    PROVE  \E l, m \in Nat : Follow(n, l, m)
<1>1. Follow(n, n + 1, n + 2)
  BY DEF Follow
<1>2. n + 1 \in Nat /\ n + 2 \in Nat
  OBVIOUS
<1>. QED  BY <1>1, <1>2

LEMMA AllStillOwned ==
    ASSUME NEW K, OneOwner(K), NEW L, Agree(K, L, Len(registry)),
           Unwritten(W) \subseteq 1 .. Len(registry) - 1, NEW V, Unwritten(W) \subseteq V
    PROVE  /\ TasksOwn(endTasks, "image", L, V) /\ TasksOwn(moreEndTasks, "gstate", L, V)
           /\ TreeOwned(L, V) /\ StreamOwns(L, V)
<1>1. PICK gone : gone = {}
  OBVIOUS
<1>2. \A id \in Unwritten(W) : id \in V \/ K[id] \in gone
  OBVIOUS
<1>3. /\ "image" \notin gone /\ "gstate" \notin gone /\ "pages" \notin gone
      /\ "length" \notin gone /\ "resources" \notin gone
  BY <1>1
<1>. QED  BY <1>2, <1>3, StillOwned

\* One page changes.
LEMMA OnePage ==
    ASSUME Shapes, NEW p \in PageObjects, NEW page, pages' = [pages EXCEPT ![p] = page]
    PROVE  \A q \in PageObjects : pages'[q] = pages[q] \/ (q = p /\ pages'[q] = page)
<1>1. pages \in [PageObjects -> PDFPage]
  BY DEF Shapes
<1>. QED  BY <1>1

\* A reference to one object.
LEMMA OneRef ==
    ASSUME NEW role \in RoleNames, NEW id \in Nat
    PROVE  /\ Refs(role, {id}) \in SUBSET (RoleNames \X Nat)
           /\ \A K, m : id \in 1 .. m - 1 /\ K[id] \in KindsFor(role) =>
                  RefsFit(Refs(role, {id}), K, m)
<1>1. {id} \subseteq Nat
  OBVIOUS
<1>2. ASSUME NEW K, NEW m, id \in 1 .. m - 1, K[id] \in KindsFor(role)
      PROVE  RefsFit(Refs(role, {id}), K, m)
  <2>1. Used({id}, KindsFor(role), K, m)
    BY <1>2 DEF Used
  <2>. QED  BY <1>1, <2>1, RefsFitUsed
<1>3. Refs(role, {id}) \in SUBSET (RoleNames \X Nat)
  BY <1>1, RefsAre
<1>. QED  BY <1>2, <1>3

-----------------------------------------------------------------------------
(***************************************************************************)
(* The steps of an open document, operation by operation.                  *)
(***************************************************************************)
LEMMA CreationDateOnward ==
    ASSUME PositionsFit, Shapes, Shapes', NEW K \in Kinds, OneOwner(K), UNCHANGED client,
           SetCreationDate
    PROVE  Onward(K)
<1>1. trailer'.root = trailer.root
  BY DEF SetCreationDate
<1>. QED  BY <1>1, NothingWritten DEF SetCreationDate, drawing, identity, history

LEMMA DrawFormOnward ==
    ASSUME PositionsFit, Shapes, Shapes', NEW K \in Kinds, OneOwner(K), UNCHANGED client,
           NEW p \in PageObjects, NEW id \in forms, DrawForm(p, id)
    PROVE  Onward(K)
<1>1. id \in 1 .. Len(registry) - 1 /\ K[id] = "form"
  BY DEF OneOwner, FormsKnown
<1>2. PICK page \in PDFPage : page = pages[p]
  BY DEF Shapes
<1>3. PICK after : after = [page EXCEPT !.xobjects = @ \cup {id}]
  OBVIOUS
<1>4. /\ after.xobjects = page.xobjects \cup {id} /\ after.gstates = page.gstates
      /\ after.contents = page.contents
  BY <1>3 DEF PDFPage
<1>5. \A q \in PageObjects : pages'[q] = pages[q] \/ (q = p /\ pages'[q] = after)
  <2>1. pages' = [pages EXCEPT ![p] = [pages[p] EXCEPT !.xobjects = @ \cup {id}]]
    BY DEF DrawForm
  <2>2. pages' = [pages EXCEPT ![p] = after]
    BY <1>2, <1>3, <2>1
  <2>. QED  BY <2>2, OnePage
<1>6. RightKind(K) => PageFits(after, K, Len(registry))
  BY <1>1, <1>2, <1>4 DEF RightKind, PageFits, SurfaceFits, Used
<1>. QED  BY <1>5, <1>6, NothingWritten DEF DrawForm, document, identity, history

LEMMA StartContentOnward ==
    ASSUME PositionsFit, Shapes, Shapes', NEW K \in Kinds, OneOwner(K), UNCHANGED client,
           NEW p \in PageObjects, StartContentStream(p)
    PROVE  Onward(K)
<1>1. PICK n, U, O : n = Len(registry) /\ U = Unwritten(W) /\ O = Objects(W)
  OBVIOUS
<1>2. /\ Stands(W, {}, n, U, O) /\ W \in Writers /\ n \in Nat \ {0} /\ Len(file) \in Nat
      /\ Len(file) <= n - 1 /\ n + 4 <= MaxWritePosition
      /\ U \subseteq 1 .. n - 1 /\ NextID(W) = n /\ W.file = file
  BY <1>1, OpenWriter
<1>3. PICK l, m \in Nat : Follow(n, l, m)
  BY <1>2, Following
<1>4. PICK content :
         content = [Object(n, "content", Refs("Length", {l}), <<>>) EXCEPT !.key = StreamKey]
  OBVIOUS
<1>5. PICK a, b, v : /\ a = Allocate(W) /\ b = WriteAt(a, content) /\ v = Allocate(b)
  OBVIOUS
<1>6. /\ Become(v) /\ pages' = [pages EXCEPT ![p].contents = Append(@, n)]
      /\ stream' = [owner |-> p, length |-> l]
  BY <1>2, <1>3, <1>4, <1>5 DEF StartContentStream, Follow
<1>7. Refs("Length", {l}) \in SUBSET (RoleNames \X Nat)
  BY <1>3, OneRef, Names
<1>8. /\ content \in FileObject /\ content.id = n /\ content.kind = "content"
      /\ content.refs = Refs("Length", {l}) /\ content.kids = <<>>
  <2>1. PICK o : o = Object(n, "content", Refs("Length", {l}), <<>>)
    OBVIOUS
  <2>2. n \in Nat /\ <<>> \in Seq(Nat) /\ "content" \in KindNames
    BY <1>2, Names
  <2>3. /\ o \in FileObject /\ o.id = n /\ o.kind = "content"
        /\ o.refs = Refs("Length", {l}) /\ o.kids = <<>>
    <3>1. PICK refs \in SUBSET (RoleNames \X Nat) : refs = Refs("Length", {l})
      BY <1>7
    <3>2. PICK list \in Seq(Nat), kind \in KindNames : list = <<>> /\ kind = "content"
      BY <2>2
    <3>3. o = Object(n, kind, refs, list)
      BY <2>1, <3>1, <3>2
    <3>4. /\ o \in FileObject /\ o.id = n /\ o.kind = kind /\ o.refs = refs /\ o.kids = list
      BY <2>2, <3>3, PlainObject
    <3>. QED  BY <3>1, <3>2, <3>4
  <2>4. content = [o EXCEPT !.key = StreamKey] /\ StreamKey \in Int
    BY <1>4, <2>1, StreamKeyIs
  <2>. QED  BY <2>3, <2>4 DEF FileObject
<1>9. /\ Stands(a, {}, l, U \cup {n}, O) /\ Extends(W, a) /\ a.file = file /\ n \notin U
  BY <1>2, <1>3, <1>5, AllocateStands DEF Follow
<1>10. /\ Stands(b, {}, l, (U \cup {n}) \ {n}, O \cup {content}) /\ Extends(a, b)
  <2>1. Len(a.file) <= MaxWritePosition
    BY <1>2, <1>9, RoomForOne
  <2>2. content.id \in U \cup {n}
    BY <1>8
  <2>. QED  BY <1>5, <1>8, <1>9, <2>1, <2>2, WriteAtStands
<1>11. Stands(b, {}, l, U, O \cup {content})
  <2>1. (U \cup {n}) \ {n} = U
    BY <1>9
  <2>. QED  BY <1>10, <2>1
<1>12. /\ Stands(v, {}, m, U \cup {l}, O \cup {content}) /\ Extends(b, v)
  <2>1. l + 1 = m
    BY <1>2, <1>3 DEF Follow
  <2>. QED  BY <1>5, <1>11, <2>1, AllocateStands
<1>13. a \in Writers /\ b \in Writers /\ v \in Writers
  BY <1>9, <1>10, <1>12 DEF Stands, Sound
<1>14. Extends(W, v)
  BY <1>2, <1>9, <1>10, <1>12, <1>13, ExtendsTwice
<1>15. W' = v
  BY <1>6, <1>13, Became
<1>16. PICK L \in Kinds : Agree(K, L, n) /\ L[n] = "content" /\ L[l] = "length"
  BY <1>2, <1>3, KindsGiven, Names DEF Follow
<1>17. PICK V : V = U \cup {l}
  OBVIOUS
<1>18. OneOwner(L)'
  <2>1. /\ TasksOwn(endTasks, "image", L, V) /\ TasksOwn(moreEndTasks, "gstate", L, V)
        /\ TreeOwned(L, V)
    <3>1. U \subseteq V
      BY <1>17
    <3>. QED  BY <1>1, <1>2, <1>16, <3>1, AllStillOwned
  <2>2. TreeOwned(L, V)'
    BY <2>1 DEF StartContentStream, TreeOwned
  <2>3. StreamOwns(L, V)'
    <3>1. stream'.owner = p /\ stream'.length = l /\ p # Form
      BY <1>6, SurfacesAssumption DEF Form
    <3>2. form'.resources = NoID
      BY DEF StartContentStream, Idle, OneOwner, StreamOwns
    <3>. QED  BY <1>16, <1>17, <3>1, <3>2 DEF StreamOwns
  <2>4. ASSUME NEW id \in V
        PROVE  Owed(id)'
    <3>1. CASE id = l
      <4>1. stream'.length = l
        BY <1>6
      <4>. QED  BY <3>1, <4>1 DEF Owed
    <3>2. CASE id \in U
      <4>1. id # 0
        <5>1. id \in 1 .. n - 1
          BY <1>2, <3>2
        <5>. QED  BY <5>1
      <4>2. stream.length = 0
        BY DEF StartContentStream, Idle, NoStream, NoID
      <4>3. UNCHANGED <<endTasks, moreEndTasks, forms, lost, tree, form>>
        BY DEF StartContentStream, history
      <4>. QED  BY <1>1, <3>2, <4>1, <4>2, <4>3, StillOwed DEF OneOwner
    <3>. QED  BY <1>17, <2>4, <3>1, <3>2
  <2>5. m <= client.objects
    BY <1>1, <1>3 DEF StartContentStream, HasRoomFor, GetObjectsCount, Follow
  <2>6. UNCHANGED <<isModified, documents, client, endTasks, moreEndTasks, forms>>
    BY DEF StartContentStream, identity, history
  <2>7. n \in Nat /\ n <= m
    BY <1>3 DEF Follow
  <2>. QED  BY <1>1, <1>2, <1>12, <1>14, <1>15, <1>16, <1>17, <2>1, <2>2, <2>3, <2>4, <2>5,
               <2>6, <2>7, OwnersStep
<1>19. ASSUME RightKind(K)
       PROVE  RightKind(L)'
  <2>1. Fits(content, L, m)
    <3>1. l \in 1 .. m - 1 /\ L[l] \in KindsFor("Length")
      BY <1>3, <1>16, Roles DEF Follow
    <3>2. RefsFit(Refs("Length", {l}), L, m)
      BY <1>3, <3>1, OneRef, Names
    <3>. QED  BY <1>8, <1>16, <3>2, ObjectFits
  <2>2. PICK page \in PDFPage : page = pages[p]
    BY DEF Shapes
  <2>3. PICK c \in Seq(Nat) : c = page.contents
    BY DEF PDFPage
  <2>4. PICK after : after = [page EXCEPT !.contents = Append(c, n)]
    OBVIOUS
  <2>5. /\ after.xobjects = page.xobjects /\ after.gstates = page.gstates
        /\ after.contents = Append(c, n)
    BY <2>4 DEF PDFPage
  <2>6. \A q \in PageObjects : pages'[q] = pages[q] \/ (q = p /\ pages'[q] = after)
    <3>1. pages' = [pages EXCEPT ![p] = [pages[p] EXCEPT !.contents = Append(@, n)]]
      BY <1>6
    <3>2. pages' = [pages EXCEPT ![p] = after]
      BY <2>2, <2>3, <2>4, <3>1
    <3>. QED  BY <3>2, OnePage
  <2>7. n \in Nat /\ n <= m /\ n \in 1 .. m - 1
    BY <1>3 DEF Follow
  <2>8. PageFits(page, L, m)
    BY <1>1, <1>16, <1>19, <2>2, <2>7, UsedKept DEF RightKind, PageFits, SurfaceFits
  <2>9. ToSet(after.contents) = ToSet(c) \cup {n}
    BY <2>3, <2>5, <2>7, NumberAppended
  <2>10. PageFits(after, L, m)
    BY <1>16, <2>3, <2>5, <2>7, <2>8, <2>9 DEF PageFits, SurfaceFits, Used
  <2>11. \A q \in PageObjects : pages'[q] = pages[q] \/ PageFits(pages'[q], L, m)
    BY <2>6, <2>10
  <2>12. isModified => 3 <= n
    BY <1>1, <1>2, <2>7, ModifiedHasObjects DEF OneOwner
  <2>13. \A k \in 1 .. Len(kids') : kids'[k] \in 1 .. m - 1
    BY <1>1, <1>3, <1>19 DEF RightKind, StartContentStream, Follow
  <2>14. UNCHANGED <<isModified, documents, client, trailer, form, annotations, imageIDs,
                     opacityIDs>>
    BY DEF StartContentStream, identity
  <2>. QED  BY <1>1, <1>2, <1>12, <1>14, <1>15, <1>16, <1>17, <1>19, <2>1, <2>7, <2>11, <2>12,
               <2>13, <2>14, RightStep
<1>. QED  BY <1>16, <1>18, <1>19 DEF Onward

\* The object of the length of a stream.
LEMMA LengthObject ==
    ASSUME Shapes
    PROVE  LET o == Object(stream.length, "length", {}, <<>>) IN
           /\ o \in FileObject /\ o.id = stream.length /\ o.kind = "length"
           /\ o.refs = {} /\ o.kids = <<>>
<1>1. PICK task \in Task : task = [id |-> stream.length, freed |-> FALSE]
  BY DEF Shapes, Task
<1>2. PICK kind \in KindNames : kind = "length"
  BY Names
<1>3. task.id = stream.length
  BY <1>1
<1>. QED  BY <1>2, <1>3, WrittenIsObject DEF Written

LEMMA EndContentOnward ==
    ASSUME PositionsFit, Shapes, Shapes', NEW K \in Kinds, OneOwner(K), UNCHANGED client,
           EndContentStream
    PROVE  Onward(K)
<1>1. PICK n, U, O :
         /\ n \in Nat \ {0} /\ n \in Nat
         /\ n = Len(registry) /\ U = Unwritten(W) /\ O = Objects(W)
         /\ Leads(W, W, n, U, O) /\ U \subseteq 1 .. n - 1 /\ n <= MaxWritePosition
  BY LeadsFrom
<1>2. PICK l, o, v, V, P :
         /\ l = stream.length /\ o = Object(stream.length, "length", {}, <<>>)
         /\ v = WriteAt(W, o) /\ V = U \ {l} /\ P = O \cup {o}
  OBVIOUS
<1>3. /\ o \in FileObject /\ o.id = l /\ o.kind = "length" /\ o.refs = {} /\ o.kids = <<>>
  BY <1>2, LengthObject
<1>4. l \in U /\ K[l] = "length"
  <2>1. stream.owner # Form
    BY SurfacesAssumption DEF EndContentStream, Form
  <2>. QED  BY <1>1, <1>2, <2>1 DEF OneOwner, StreamOwns, NoStream
<1>5. Leads(W, v, n, V, P)
  BY <1>1, <1>2, <1>3, <1>4, LeadsToWriting
<1>6. Stands(W', {}, n, V, P) /\ Extends(W, W')
  <2>1. Become(v)
    BY <1>2 DEF EndContentStream, WriteLength
  <2>. QED  BY <1>5, <2>1, LeadsTo
<1>7. Agree(K, K, n) /\ n \in Nat /\ n <= n
  BY <1>1, SameKinds
<1>8. UNCHANGED <<isModified, documents, client, endTasks, moreEndTasks, forms, lost, tree,
                  kids, annotations, trailer, pages, form, imageIDs, opacityIDs>>
  BY DEF EndContentStream, identity, history
<1>9. OneOwner(K)'
  <2>1. PICK gone : gone = {"length"}
    OBVIOUS
  <2>2. "image" \notin gone /\ "gstate" \notin gone /\ "pages" \notin gone
    BY <2>1
  <2>3. \A id \in Unwritten(W) : id \in V \/ K[id] \in gone
    BY <1>1, <1>2, <1>4, <2>1
  <2>4. Agree(K, K, Len(registry)) /\ Unwritten(W) \subseteq 1 .. Len(registry) - 1
    BY <1>1, <1>7
  <2>5. /\ TasksOwn(endTasks, "image", K, V) /\ TasksOwn(moreEndTasks, "gstate", K, V)
        /\ TreeOwned(K, V)
    BY <2>2, <2>3, <2>4, StillOwned
  <2>6. TreeOwned(K, V)' /\ StreamOwns(K, V)'
    <3>1. stream.owner # Form
      BY SurfacesAssumption DEF EndContentStream, Form
    <3>2. form'.resources = NoID /\ stream' = NoStream
      BY <1>8, <3>1 DEF EndContentStream, OneOwner, StreamOwns
    <3>. QED  BY <1>8, <2>5, <3>2 DEF TreeOwned, StreamOwns
  <2>7. ASSUME NEW id \in V
        PROVE  Owed(id)'
    <3>1. id \in U /\ id # stream.length
      BY <1>2
    <3>. QED  BY <1>1, <1>8, <3>1, StillOwed DEF OneOwner
  <2>8. Len(file) \in Nat
    BY OpenWriter
  <2>. QED  BY <1>1, <1>6, <1>7, <1>8, <2>5, <2>6, <2>7, <2>8, OwnersStep
<1>10. ASSUME RightKind(K)
       PROVE  RightKind(K)'
  <2>1. Fits(o, K, n)
    BY <1>3, <1>4, ObjectFits DEF RefsFit
  <2>2. isModified => 3 <= n
    BY <1>1, <1>7, OpenWriter, ModifiedHasObjects DEF OneOwner
  <2>3. \A k \in 1 .. Len(kids') : kids'[k] \in 1 .. n - 1
    BY <1>1, <1>8, <1>10 DEF RightKind
  <2>4. Stands(W, {}, n, U, O) /\ \A object \in P : object \in O \/ Fits(object, K, n)
    BY <1>1, <1>2, <2>1 DEF Leads
  <2>. QED  BY <1>1, <1>6, <1>7, <1>8, <1>10, <2>2, <2>3, <2>4, RightStep
<1>. QED  BY <1>9, <1>10 DEF Onward

\* A surface that refers to one object more.
LEMMA XObjectAdded ==
    ASSUME Shapes, NEW s \in Surfaces, NEW id \in Nat, AddXObject(s, id)
    PROVE  /\ form'.resources = form.resources
           /\ \A K, m : /\ \A p \in PageObjects : PageFits(pages[p], K, m)
                        /\ SurfaceFits(form, K, m)
                        /\ id \in 1 .. m - 1 /\ K[id] \in {"image", "form"}
                        => /\ \A p \in PageObjects : PageFits(pages'[p], K, m)
                           /\ SurfaceFits(form', K, m)
<1>1. CASE s = Form
  <2>1. PICK f \in FormRecord : f = form
    BY DEF Shapes
  <2>2. PICK after : after = [f EXCEPT !.xobjects = @ \cup {id}]
    OBVIOUS
  <2>3. /\ after.xobjects = f.xobjects \cup {id} /\ after.gstates = f.gstates
        /\ after.resources = f.resources
    BY <2>2 DEF FormRecord
  <2>4. form' = after /\ UNCHANGED pages
    BY <1>1, <2>1, <2>2 DEF AddXObject
  <2>. QED  BY <2>1, <2>3, <2>4 DEF SurfaceFits, Used
<1>2. CASE s # Form
  <2>1. s \in PageObjects
    BY <1>2 DEF Surfaces
  <2>2. PICK page \in PDFPage : page = pages[s]
    BY <2>1 DEF Shapes
  <2>3. PICK after : after = [page EXCEPT !.xobjects = @ \cup {id}]
    OBVIOUS
  <2>4. /\ after.xobjects = page.xobjects \cup {id} /\ after.gstates = page.gstates
        /\ after.contents = page.contents
    BY <2>3 DEF PDFPage
  <2>5. pages' = [pages EXCEPT ![s] = after] /\ UNCHANGED form
    BY <1>2, <2>2, <2>3 DEF AddXObject
  <2>6. \A q \in PageObjects : pages'[q] = pages[q] \/ (q = s /\ pages'[q] = after)
    BY <2>1, <2>5, OnePage
  <2>. QED  BY <2>1, <2>2, <2>4, <2>5, <2>6 DEF PageFits, SurfaceFits, Used
<1>. QED  BY <1>1, <1>2

LEMMA ExtGStateAdded ==
    ASSUME Shapes, NEW s \in Surfaces, NEW id \in Nat, AddExtGState(s, id)
    PROVE  /\ form'.resources = form.resources
           /\ \A K, m : /\ \A p \in PageObjects : PageFits(pages[p], K, m)
                        /\ SurfaceFits(form, K, m)
                        /\ id \in 1 .. m - 1 /\ K[id] = "gstate"
                        => /\ \A p \in PageObjects : PageFits(pages'[p], K, m)
                           /\ SurfaceFits(form', K, m)
<1>1. CASE s = Form
  <2>1. PICK f \in FormRecord : f = form
    BY DEF Shapes
  <2>2. PICK after : after = [f EXCEPT !.gstates = @ \cup {id}]
    OBVIOUS
  <2>3. /\ after.gstates = f.gstates \cup {id} /\ after.xobjects = f.xobjects
        /\ after.resources = f.resources
    BY <2>2 DEF FormRecord
  <2>4. form' = after /\ UNCHANGED pages
    BY <1>1, <2>1, <2>2 DEF AddExtGState
  <2>. QED  BY <2>1, <2>3, <2>4 DEF SurfaceFits, Used
<1>2. CASE s # Form
  <2>1. s \in PageObjects
    BY <1>2 DEF Surfaces
  <2>2. PICK page \in PDFPage : page = pages[s]
    BY <2>1 DEF Shapes
  <2>3. PICK after : after = [page EXCEPT !.gstates = @ \cup {id}]
    OBVIOUS
  <2>4. /\ after.gstates = page.gstates \cup {id} /\ after.xobjects = page.xobjects
        /\ after.contents = page.contents
    BY <2>3 DEF PDFPage
  <2>5. pages' = [pages EXCEPT ![s] = after] /\ UNCHANGED form
    BY <1>2, <2>2, <2>3 DEF AddExtGState
  <2>6. \A q \in PageObjects : pages'[q] = pages[q] \/ (q = s /\ pages'[q] = after)
    BY <2>1, <2>5, OnePage
  <2>. QED  BY <2>1, <2>2, <2>4, <2>5, <2>6 DEF PageFits, SurfaceFits, Used
<1>. QED  BY <1>1, <1>2

\* The room an action makes sure of.
LEMMA RoomIs ==
    ASSUME NEW j, HasRoomFor(j)
    PROVE  Len(registry) + j <= client.objects
BY DEF HasRoomFor, GetObjectsCount

\* A step that gives an ID, n, for an object of some kind, and writes nothing.
NamesOnly(n, L, V) ==
    /\ TasksOwn(endTasks', "image", L, V) /\ TasksOwn(moreEndTasks', "gstate", L, V)
    /\ UNCHANGED <<isModified, documents, stream, tree, lost, kids, annotations, client>>
    /\ trailer'.root = trailer.root /\ form'.resources = form.resources
    /\ forms \subseteq forms' /\ \A id \in forms' : id \in forms \/ (id = n /\ L[n] = "form")
    /\ \A s \in Surfaces : \A id \in TaskIDsOf(s) : id \in TaskIDsOf(s)'
    /\ Owed(n)'
    /\ \A s \in Surfaces : moreEndTasks'[s] = moreEndTasks[s] \/ DrawsOpacities

NamesRightly(L, m) ==
    /\ \A p \in PageObjects : pages'[p] = pages[p] \/ PageFits(pages'[p], L, m)
    /\ form' = form \/ SurfaceFits(form', L, m)
    /\ \A i \in Images : imageIDs'[i] = imageIDs[i] \/ Used({imageIDs'[i]}, {"image"}, L, m)
    /\ \A a \in Opacities : \/ opacityIDs'[a] = opacityIDs[a]
                            \/ Used({opacityIDs'[a]}, {"gstate"}, L, m)

LEMMA AllocatedOnward ==
    ASSUME PositionsFit, Shapes, NEW K \in Kinds, OneOwner(K),
           HasRoomFor(1), Become(Allocate(W)), NEW n, n = Len(registry), NEW m, m = n + 1,
           NEW V, V = Unwritten(W) \cup {n}, NEW L \in Kinds, Agree(K, L, n),
           NamesOnly(n, L, V), RightKind(K) => NamesRightly(L, m)
    PROVE  Onward(K)
<1>1. PICK U, O :
         /\ U = Unwritten(W) /\ O = Objects(W)
         /\ Leads(W, W, n, U, O) /\ U \subseteq 1 .. n - 1 /\ n \in Nat \ {0}
  BY LeadsFrom
<1>2. Stands(W', {}, m, V, O) /\ Extends(W, W')
  <2>1. PICK v : v = Allocate(W)
    OBVIOUS
  <2>2. V = U \cup {n} /\ Leads(W, W, n, U, O)
    BY <1>1
  <2>3. Leads(W, v, m, V, O)
    BY <2>1, <2>2, LeadsToAllocation
  <2>. QED  BY <2>1, <2>3, LeadsTo
<1>3. /\ n <= m /\ \A i \in 1 .. n - 1 : i \in 1 .. m - 1
      /\ n \in 1 .. m - 1 /\ n \notin 1 .. n - 1
      /\ n \in Nat /\ m \in Nat
  BY <1>1
<1>4. Len(file) \in Nat
  BY OpenWriter
<1>5. OneOwner(L)'
  <2>1. TreeOwned(L, V) /\ StreamOwns(L, V)
    BY <1>1, AllStillOwned
  <2>2. TreeOwned(L, V)' /\ StreamOwns(L, V)'
    BY <2>1 DEF TreeOwned, StreamOwns, NamesOnly
  <2>3. ASSUME NEW id \in V
        PROVE  Owed(id)'
    <3>1. CASE id \in U
      <4>1. Owed(id)
        BY <1>1, <3>1 DEF OneOwner
      <4>. QED  BY <4>1, StillOwedBySome DEF NamesOnly
    <3>. QED  BY <1>1, <3>1 DEF NamesOnly
  <2>4. \A id \in forms' : id \in forms \/ (id \in 1 .. m - 1 /\ L[id] = "form")
    BY <1>3 DEF NamesOnly
  <2>5. m <= client.objects
    BY RoomIs
  <2>6. /\ TasksOwn(endTasks', "image", L, V) /\ TasksOwn(moreEndTasks', "gstate", L, V)
        /\ UNCHANGED <<isModified, documents, client>>
        /\ \A s \in Surfaces : moreEndTasks'[s] = moreEndTasks[s] \/ DrawsOpacities
    BY DEF NamesOnly
  <2>. QED  BY <1>1, <1>2, <1>3, <1>4, <2>2, <2>3, <2>4, <2>5, <2>6, OwnersStep
<1>6. ASSUME RightKind(K)
      PROVE  RightKind(L)'
  <2>1. isModified => 3 <= n
    BY <1>1, OpenWriter, ModifiedHasObjects DEF OneOwner
  <2>2. \A k \in 1 .. Len(kids') : kids'[k] \in 1 .. m - 1
    BY <1>1, <1>3, <1>6 DEF RightKind, NamesOnly
  <2>3. Stands(W, {}, n, U, O) /\ n = Len(registry) /\ n \in Nat \ {0}
    BY <1>1 DEF Leads
  <2>4. UNCHANGED <<isModified, documents, client, annotations>> /\ trailer'.root = trailer.root
    BY DEF NamesOnly
  <2>5. /\ \A p \in PageObjects : pages'[p] = pages[p] \/ PageFits(pages'[p], L, m)
        /\ form' = form \/ SurfaceFits(form', L, m)
        /\ \A i \in Images : imageIDs'[i] = imageIDs[i] \/ Used({imageIDs'[i]}, {"image"}, L, m)
        /\ \A a \in Opacities : \/ opacityIDs'[a] = opacityIDs[a]
                                \/ Used({opacityIDs'[a]}, {"gstate"}, L, m)
    BY <1>6 DEF NamesRightly
  <2>. QED  BY ZenonT(40), <1>2, <1>3, <1>6, <2>1, <2>2, <2>3, <2>4, <2>5, RightStep
<1>. QED  BY <1>5, <1>6 DEF Onward

\* The tasks of a surface, one step on.
LEMMA TaskIDsPrimed ==
    \A s : TaskIDsOf(s)' = TaskIDs(endTasks'[s]) \cup TaskIDs(moreEndTasks'[s])
BY DEF TaskIDsOf, TaskIDs

LEMMA FitStill ==
    ASSUME NEW K, RightKind(K), NEW n \in Nat, n = Len(registry), NEW L, Agree(K, L, n),
           NEW m \in Nat, n <= m
    PROVE  (\A p \in PageObjects : PageFits(pages[p], L, m)) /\ SurfaceFits(form, L, m)
BY UsedKept DEF RightKind, PageFits, SurfaceFits

\* A surface is given a task, of an object that is given an ID.
GivenTask(tasks, after, s, n) ==
    /\ n \in TaskIDs(after[s]) /\ \A i \in TaskIDs(tasks[s]) : i \in TaskIDs(after[s])
    /\ \A r \in Surfaces : r # s => after[r] = tasks[r]

LEMMA TaskGiven ==
    ASSUME NEW tasks \in [Surfaces -> Seq(Task)], NEW kind, NEW K, NEW U, NEW L, NEW V,
           NEW s \in Surfaces, NEW n \in Nat, NEW after, after = Scheduled(tasks, s, n),
           TasksOwn(tasks, kind, K, U), OneMore(n, kind, K, U, L, V)
    PROVE  TasksOwn(after, kind, L, V) /\ GivenTask(tasks, after, s, n)
<1>1. TasksOwn(after, kind, L, V)
  BY TaskAdded
<1>2. n \in TaskIDs(after[s]) /\ \A i \in TaskIDs(tasks[s]) : i \in TaskIDs(after[s])
  BY ScheduledIDs
<1>3. \A r \in Surfaces : r # s => after[r] = tasks[r]
  BY DEF Scheduled
<1>. QED  BY <1>1, <1>2, <1>3 DEF GivenTask

LEMMA DrawImageOnward ==
    ASSUME PositionsFit, Shapes, Shapes', NEW K \in Kinds, OneOwner(K), UNCHANGED client,
           NEW s \in Surfaces, NEW image \in client.images, DrawImage(s, image)
    PROVE  Onward(K)
<1>1. PICK n, U, O :
         /\ n \in Nat \ {0} /\ n \in Nat
         /\ n = Len(registry) /\ U = Unwritten(W) /\ O = Objects(W)
         /\ Leads(W, W, n, U, O) /\ U \subseteq 1 .. n - 1 /\ NextID(W) = n
  BY LeadsFrom
<1>2. image \in Images
  BY DocumentAssumption DEF IsClient, Shapes
<1>3. PICK id \in Nat : id = imageIDs'[image]
  BY <1>2 DEF Shapes
<1>4. AddXObject(s, id)
  BY <1>3 DEF DrawImage
<1>5. UNCHANGED <<isModified, documents, client, stream, tree, forms, lost, kids, annotations,
                  trailer, opacityIDs, moreEndTasks>>
  BY DEF DrawImage, identity, history
<1>6. form'.resources = form.resources
  BY <1>4, XObjectAdded
<1>7. CASE imageIDs[image] # NoID
  <2>1. UNCHANGED <<registry, file, imageIDs, endTasks>>
    BY <1>7 DEF DrawImage, RegisterImage
  <2>2. ASSUME RightKind(K)
        PROVE  /\ \A p \in PageObjects : PageFits(pages'[p], K, n)
               /\ SurfaceFits(form', K, n)
    <3>1. Used({id}, {"image"}, K, n)
      BY <1>1, <1>2, <1>3, <1>7, <2>1, <2>2 DEF RightKind
    <3>2. id \in 1 .. n - 1 /\ K[id] \in {"image", "form"}
      BY <3>1 DEF Used
    <3>3. (\A p \in PageObjects : PageFits(pages[p], K, n)) /\ SurfaceFits(form, K, n)
      BY <1>1, <2>2 DEF RightKind
    <3>. QED  BY <1>4, <3>2, <3>3, XObjectAdded
  <2>. QED  BY <1>1, <1>5, <1>6, <2>1, <2>2, NothingWritten
<1>8. CASE imageIDs[image] = NoID
  <2>1. /\ HasRoomFor(1) /\ Become(Allocate(W))
        /\ imageIDs' = [imageIDs EXCEPT ![image] = n]
        /\ endTasks' = Scheduled(endTasks, s, n)
    BY <1>1, <1>8 DEF DrawImage, RegisterImage
  <2>2. id = n
    BY <1>2, <1>3, <2>1 DEF Shapes
  <2>3. PICK kind \in KindNames : kind = "image"
    BY Names
  <2>4. PICK L \in Kinds : Agree(K, L, n) /\ L[n] = "image"
    BY <1>1, <2>3, KindGiven
  <2>a. PICK m \in Nat : m = n + 1
    BY <1>1
  <2>5. PICK V : V = U \cup {n}
    OBVIOUS
  <2>6. n <= m /\ n \in 1 .. m - 1 /\ n \notin U /\ n \in Nat
    BY <1>1, <2>a
  <2>7. TasksOwn(moreEndTasks, "gstate", L, V)
    BY <1>1, <2>4, <2>5, AllStillOwned
  <2>8. /\ TasksOwn(endTasks', "image", L, V)
        /\ n \in TaskIDs(endTasks'[s]) /\ \A i \in TaskIDs(endTasks[s]) : i \in TaskIDs(endTasks'[s])
        /\ \A r \in Surfaces : r # s => endTasks'[r] = endTasks[r]
    <3>1. endTasks \in [Surfaces -> Seq(Task)]
      BY DEF Shapes
    <3>2. TasksOwn(endTasks, "image", K, U)
      BY <1>1 DEF OneOwner
    <3>3. OneMore(n, kind, K, U, L, V)
      BY <1>1, <2>3, <2>4, <2>5, <2>6 DEF Agree, OneMore
    <3>4. TasksOwn(endTasks, kind, K, U) /\ n \in Nat
      BY <2>3, <2>6, <3>2
    <3>5. PICK after : after = Scheduled(endTasks, s, n)
      OBVIOUS
    <3>6. /\ TasksOwn(after, kind, L, V)
          /\ n \in TaskIDs(after[s]) /\ \A i \in TaskIDs(endTasks[s]) : i \in TaskIDs(after[s])
          /\ \A r \in Surfaces : r # s => after[r] = endTasks[r]
      <4>1. PICK tasks \in [Surfaces -> Seq(Task)] : tasks = endTasks
        BY <3>1
      <4>2. TasksOwn(tasks, kind, K, U) /\ after = Scheduled(tasks, s, n)
        BY <3>4, <3>5, <4>1
      <4>3. TasksOwn(after, kind, L, V) /\ GivenTask(tasks, after, s, n)
        BY <3>3, <3>4, <4>1, <4>2, TaskGiven
      <4>. QED  BY <4>1, <4>3 DEF GivenTask
    <3>. QED  BY <2>1, <2>3, <3>5, <3>6
  <2>9. /\ \A r \in Surfaces : \A i \in TaskIDsOf(r) : i \in TaskIDsOf(r)'
        /\ n \in TaskIDsOf(s)'
    BY <1>5, <2>8, TaskIDsPrimed DEF TaskIDsOf
  <2>10. Owed(n)'
    BY <2>9 DEF Owed, Surfaces
  <2>11. \A i \in Images : imageIDs'[i] = imageIDs[i] \/ imageIDs'[i] = n
    BY <2>1 DEF Shapes
  <2>12. Used({n}, {"image"}, L, m)
    BY <2>4, <2>6 DEF Used
  <2>13. ASSUME RightKind(K)
         PROVE  /\ \A p \in PageObjects : PageFits(pages'[p], L, m)
                /\ SurfaceFits(form', L, m)
    <3>1. (\A p \in PageObjects : PageFits(pages[p], L, m)) /\ SurfaceFits(form, L, m)
      BY <1>1, <2>4, <2>6, <2>13, FitStill
    <3>2. id \in 1 .. m - 1 /\ L[id] \in {"image", "form"}
      BY <2>2, <2>4, <2>6
    <3>. QED  BY <1>4, <3>1, <3>2, XObjectAdded
  <2>14. V = Unwritten(W) \cup {n}
    BY <1>1, <2>5
  <2>15. NamesOnly(n, L, V)
    <3>1. TasksOwn(endTasks', "image", L, V) /\ TasksOwn(moreEndTasks', "gstate", L, V)
      BY <1>5, <2>7, <2>8
    <3>2. /\ forms \subseteq forms' /\ \A i \in forms' : i \in forms
          /\ \A r \in Surfaces : moreEndTasks'[r] = moreEndTasks[r]
          /\ trailer'.root = trailer.root
      BY <1>5
    <3>3. \A r \in Surfaces : \A i \in TaskIDsOf(r) : i \in TaskIDsOf(r)'
      BY <2>9
    <3>. QED  BY <1>5, <1>6, <2>10, <3>1, <3>2, <3>3 DEF NamesOnly
  <2>16. RightKind(K) => NamesRightly(L, m)
    BY <1>5, <2>11, <2>12, <2>13 DEF NamesRightly
  <2>17. HasRoomFor(1) /\ Become(Allocate(W)) /\ n = Len(registry)
    BY <1>1, <2>1
  <2>. QED  BY <2>4, <2>a, <2>14, <2>15, <2>16, <2>17, AllocatedOnward
<1>. QED  BY <1>7, <1>8

LEMMA SetOpacityOnward ==
    ASSUME PositionsFit, Shapes, Shapes', NEW K \in Kinds, OneOwner(K), UNCHANGED client,
           NEW s \in Surfaces, NEW alpha \in client.opacities, SetOpacity(s, alpha)
    PROVE  Onward(K)
<1>1. PICK n, U, O :
         /\ n \in Nat \ {0} /\ n \in Nat
         /\ n = Len(registry) /\ U = Unwritten(W) /\ O = Objects(W)
         /\ Leads(W, W, n, U, O) /\ U \subseteq 1 .. n - 1 /\ NextID(W) = n
  BY LeadsFrom
<1>2. alpha \in Opacities
  BY DocumentAssumption DEF IsClient, Shapes
<1>3. PICK id \in Nat : id = opacityIDs'[alpha]
  BY <1>2 DEF Shapes
<1>4. AddExtGState(s, id)
  BY <1>3 DEF SetOpacity
<1>5. UNCHANGED <<isModified, documents, client, stream, tree, forms, lost, kids, annotations,
                  trailer, imageIDs, endTasks>>
  BY DEF SetOpacity, identity, history
<1>6. form'.resources = form.resources
  BY <1>4, ExtGStateAdded
<1>7. CASE opacityIDs[alpha] # NoID
  <2>1. UNCHANGED <<registry, file, opacityIDs, moreEndTasks>>
    BY <1>7 DEF SetOpacity
  <2>2. ASSUME RightKind(K)
        PROVE  /\ \A p \in PageObjects : PageFits(pages'[p], K, n)
               /\ SurfaceFits(form', K, n)
    <3>1. Used({id}, {"gstate"}, K, n)
      BY <1>1, <1>2, <1>3, <1>7, <2>1, <2>2 DEF RightKind
    <3>2. id \in 1 .. n - 1 /\ K[id] = "gstate"
      BY <3>1 DEF Used
    <3>3. (\A p \in PageObjects : PageFits(pages[p], K, n)) /\ SurfaceFits(form, K, n)
      BY <1>1, <2>2 DEF RightKind
    <3>. QED  BY <1>4, <3>2, <3>3, ExtGStateAdded
  <2>. QED  BY <1>1, <1>5, <1>6, <2>1, <2>2, NothingWritten
<1>8. CASE opacityIDs[alpha] = NoID
  <2>1. /\ HasRoomFor(1) /\ Become(Allocate(W))
        /\ opacityIDs' = [opacityIDs EXCEPT ![alpha] = n]
        /\ moreEndTasks' = Scheduled(moreEndTasks, s, n)
    BY <1>1, <1>8 DEF SetOpacity
  <2>2. id = n
    BY <1>2, <1>3, <2>1 DEF Shapes
  <2>3. PICK kind \in KindNames : kind = "gstate"
    BY Names
  <2>4. PICK L \in Kinds : Agree(K, L, n) /\ L[n] = "gstate"
    BY <1>1, <2>3, KindGiven
  <2>a. PICK m \in Nat : m = n + 1
    BY <1>1
  <2>5. PICK V : V = U \cup {n}
    OBVIOUS
  <2>6. n <= m /\ n \in 1 .. m - 1 /\ n \notin U /\ n \in Nat
    BY <1>1, <2>a
  <2>7. TasksOwn(endTasks, "image", L, V)
    BY <1>1, <2>4, <2>5, AllStillOwned
  <2>8. /\ TasksOwn(moreEndTasks', "gstate", L, V)
        /\ n \in TaskIDs(moreEndTasks'[s]) /\ \A i \in TaskIDs(moreEndTasks[s]) : i \in TaskIDs(moreEndTasks'[s])
        /\ \A r \in Surfaces : r # s => moreEndTasks'[r] = moreEndTasks[r]
    <3>1. moreEndTasks \in [Surfaces -> Seq(Task)]
      BY DEF Shapes
    <3>2. TasksOwn(moreEndTasks, "gstate", K, U)
      BY <1>1 DEF OneOwner
    <3>3. OneMore(n, kind, K, U, L, V)
      BY <1>1, <2>3, <2>4, <2>5, <2>6 DEF Agree, OneMore
    <3>4. TasksOwn(moreEndTasks, kind, K, U) /\ n \in Nat
      BY <2>3, <2>6, <3>2
    <3>5. PICK after : after = Scheduled(moreEndTasks, s, n)
      OBVIOUS
    <3>6. /\ TasksOwn(after, kind, L, V)
          /\ n \in TaskIDs(after[s]) /\ \A i \in TaskIDs(moreEndTasks[s]) : i \in TaskIDs(after[s])
          /\ \A r \in Surfaces : r # s => after[r] = moreEndTasks[r]
      <4>1. PICK tasks \in [Surfaces -> Seq(Task)] : tasks = moreEndTasks
        BY <3>1
      <4>2. TasksOwn(tasks, kind, K, U) /\ after = Scheduled(tasks, s, n)
        BY <3>4, <3>5, <4>1
      <4>3. TasksOwn(after, kind, L, V) /\ GivenTask(tasks, after, s, n)
        BY <3>3, <3>4, <4>1, <4>2, TaskGiven
      <4>. QED  BY <4>1, <4>3 DEF GivenTask
    <3>. QED  BY <2>1, <2>3, <3>5, <3>6
  <2>9. /\ \A r \in Surfaces : \A i \in TaskIDsOf(r) : i \in TaskIDsOf(r)'
        /\ n \in TaskIDsOf(s)'
    BY <1>5, <2>8, TaskIDsPrimed DEF TaskIDsOf
  <2>10. Owed(n)'
    BY <2>9 DEF Owed, Surfaces
  <2>11. \A i \in Opacities : opacityIDs'[i] = opacityIDs[i] \/ opacityIDs'[i] = n
    BY <2>1 DEF Shapes
  <2>12. Used({n}, {"gstate"}, L, m)
    BY <2>4, <2>6 DEF Used
  <2>13. ASSUME RightKind(K)
         PROVE  /\ \A p \in PageObjects : PageFits(pages'[p], L, m)
                /\ SurfaceFits(form', L, m)
    <3>1. (\A p \in PageObjects : PageFits(pages[p], L, m)) /\ SurfaceFits(form, L, m)
      BY <1>1, <2>4, <2>6, <2>13, FitStill
    <3>2. id \in 1 .. m - 1 /\ L[id] = "gstate"
      BY <2>2, <2>4, <2>6
    <3>. QED  BY <1>4, <3>1, <3>2, ExtGStateAdded
  <2>14. V = Unwritten(W) \cup {n}
    BY <1>1, <2>5
  <2>15. NamesOnly(n, L, V)
    <3>1. TasksOwn(endTasks', "image", L, V) /\ TasksOwn(moreEndTasks', "gstate", L, V)
      BY <1>5, <2>7, <2>8
    <3>2. /\ forms \subseteq forms' /\ \A i \in forms' : i \in forms
          /\ trailer'.root = trailer.root /\ DrawsOpacities
      BY <1>5 DEF DrawsOpacities
    <3>3. \A r \in Surfaces : \A i \in TaskIDsOf(r) : i \in TaskIDsOf(r)'
      BY <2>9
    <3>. QED  BY <1>5, <1>6, <2>10, <3>1, <3>2, <3>3 DEF NamesOnly
  <2>16. RightKind(K) => NamesRightly(L, m)
    BY <1>5, <2>11, <2>12, <2>13 DEF NamesRightly
  <2>17. HasRoomFor(1) /\ Become(Allocate(W)) /\ n = Len(registry)
    BY <1>1, <2>1
  <2>. QED  BY <2>4, <2>a, <2>14, <2>15, <2>16, <2>17, AllocatedOnward
<1>. QED  BY <1>7, <1>8

LEMMA AllocateFormOnward ==
    ASSUME PositionsFit, Shapes, Shapes', NEW K \in Kinds, OneOwner(K), UNCHANGED client,
           AllocateForm
    PROVE  Onward(K)
<1>1. PICK n, U, O :
         /\ n \in Nat \ {0} /\ n \in Nat
         /\ n = Len(registry) /\ U = Unwritten(W) /\ O = Objects(W)
         /\ Leads(W, W, n, U, O) /\ U \subseteq 1 .. n - 1 /\ NextID(W) = n
  BY LeadsFrom
<1>2. /\ HasRoomFor(1) /\ Become(Allocate(W)) /\ forms' = forms \cup {n}
      /\ UNCHANGED <<isModified, documents, client, stream, tree, lost, kids, annotations,
                     trailer, pages, form, imageIDs, opacityIDs, endTasks, moreEndTasks>>
  BY <1>1 DEF AllocateForm, drawing, identity
<1>3. PICK kind \in KindNames : kind = "form"
  BY Names
<1>4. PICK L \in Kinds : Agree(K, L, n) /\ L[n] = "form"
  BY <1>1, <1>3, KindGiven
<1>5. PICK m, V : m = n + 1 /\ V = U \cup {n}
  OBVIOUS
<1>6. TasksOwn(endTasks, "image", L, V) /\ TasksOwn(moreEndTasks, "gstate", L, V)
  BY <1>1, <1>4, <1>5, AllStillOwned
<1>7. \A s : TaskIDsOf(s)' = TaskIDsOf(s)
  BY <1>2, TaskIDsPrimed DEF TaskIDsOf
<1>8. Owed(n)'
  BY <1>2 DEF Owed
<1>9. NamesOnly(n, L, V)
  <2>1. TasksOwn(endTasks', "image", L, V) /\ TasksOwn(moreEndTasks', "gstate", L, V)
    BY <1>2, <1>6
  <2>2. forms \subseteq forms' /\ \A id \in forms' : id \in forms \/ (id = n /\ L[n] = "form")
    BY <1>2, <1>4
  <2>3. /\ \A s \in Surfaces : moreEndTasks'[s] = moreEndTasks[s]
        /\ trailer'.root = trailer.root /\ form'.resources = form.resources
    BY <1>2
  <2>. QED  BY <1>2, <1>7, <1>8, <2>1, <2>2, <2>3 DEF NamesOnly
<1>10. NamesRightly(L, m)
  BY <1>2 DEF NamesRightly
<1>11. n = Len(registry) /\ V = Unwritten(W) \cup {n}
  BY <1>1, <1>5
<1>. QED  BY <1>2, <1>4, <1>5, <1>9, <1>10, <1>11, AllocatedOnward

LEMMA AttachLinkOnward ==
    ASSUME PositionsFit, Shapes, Shapes', NEW K \in Kinds, OneOwner(K), UNCHANGED client,
           AttachURLLinktoCurrentPage
    PROVE  Onward(K)
<1>1. PICK n, U, O :
         /\ n \in Nat \ {0} /\ n \in Nat
         /\ n = Len(registry) /\ U = Unwritten(W) /\ O = Objects(W)
         /\ Leads(W, W, n, U, O) /\ U \subseteq 1 .. n - 1 /\ NextID(W) = n
         /\ n + 4 <= MaxWritePosition
  BY LeadsFrom
<1>2. PICK m \in Nat : m = n + 1
  BY <1>1
<1>3. /\ m <= MaxWritePosition /\ n <= m /\ n \in 1 .. m - 1
      /\ \A i \in 1 .. n - 1 : i \in 1 .. m - 1
  BY <1>1, <1>2, RegistryAssumption
<1>4. PICK kind \in KindNames : kind = "annotation"
  BY Names
<1>5. PICK L \in Kinds : Agree(K, L, n) /\ L[n] = kind
  BY <1>1, KindGiven
<1>6. PICK task \in Task : task = [id |-> n, freed |-> FALSE]
  BY <1>1 DEF Task
<1>7. PICK o : o = Written(task, kind)
  OBVIOUS
<1>8. /\ o \in FileObject /\ o.id = n /\ o.kind = kind /\ o.refs = {} /\ o.kids = <<>>
  BY <1>6, <1>7, WrittenIsObject
<1>9. PICK a, v, X, P : a = Allocate(W) /\ v = WriteAt(a, o) /\ X = U \cup {n} /\ P = O \cup {o}
  OBVIOUS
<1>10. Become(v)
  <2>1. Refs("Annots", {}) = {}
    BY DEF Refs
  <2>2. v = WriteNew(W, "annotation", {})
    BY <1>1, <1>4, <1>6, <1>7, <1>9 DEF WriteNew, Written
  <2>. QED  BY <2>2 DEF AttachURLLinktoCurrentPage
<1>11. Leads(W, a, m, X, O) /\ n \notin U
  BY <1>1, <1>2, <1>9, LeadsToAllocation
<1>12. Leads(W, v, m, U, P)
  <2>1. n \in X /\ U = X \ {n}
    BY <1>9, <1>11
  <2>. QED  BY <1>3, <1>8, <1>9, <1>11, <2>1, LeadsToWriting
<1>13. Stands(W', {}, m, U, P) /\ Extends(W, W')
  BY <1>10, <1>12, LeadsTo
<1>14. /\ UNCHANGED <<isModified, documents, client, stream, tree, lost, kids, forms,
                      trailer, pages, form, imageIDs, opacityIDs, endTasks, moreEndTasks>>
       /\ annotations' = annotations \cup {n}
  BY <1>1 DEF AttachURLLinktoCurrentPage, drawing, identity, history
<1>15. OneOwner(L)'
  <2>1. /\ TasksOwn(endTasks, "image", L, U) /\ TasksOwn(moreEndTasks, "gstate", L, U)
        /\ TreeOwned(L, U) /\ StreamOwns(L, U)
    BY <1>1, <1>5, AllStillOwned
  <2>2. TreeOwned(L, U)' /\ StreamOwns(L, U)'
    BY <1>14, <2>1 DEF TreeOwned, StreamOwns
  <2>3. \A id \in U : Owed(id)'
    BY <1>1, <1>14, StillOwed DEF OneOwner
  <2>4. m <= client.objects
    <3>1. PICK j : j = 1
      OBVIOUS
    <3>2. HasRoomFor(j)
      BY <3>1 DEF AttachURLLinktoCurrentPage
    <3>. QED  BY <1>1, <1>2, <3>1, <3>2, RoomIs
  <2>5. Len(file) \in Nat
    BY OpenWriter
  <2>. QED  BY <1>1, <1>3, <1>5, <1>13, <1>14, <2>1, <2>2, <2>3, <2>4, <2>5, OwnersStep
<1>16. ASSUME RightKind(K)
       PROVE  RightKind(L)'
  <2>1. Fits(o, L, m)
    BY <1>5, <1>8, ObjectFits DEF RefsFit
  <2>2. isModified => 3 <= n
    BY <1>1, OpenWriter, ModifiedHasObjects DEF OneOwner
  <2>3. \A k \in 1 .. Len(kids') : kids'[k] \in 1 .. m - 1
    BY <1>1, <1>3, <1>14, <1>16 DEF RightKind
  <2>4. Stands(W, {}, n, U, O) /\ \A object \in P : object \in O \/ Fits(object, L, m)
    BY <1>1, <1>9, <2>1 DEF Leads
  <2>5. \A id \in annotations' : id \in annotations \/ Used({id}, {"annotation"}, L, m)
    BY <1>3, <1>4, <1>5, <1>14 DEF Used
  <2>6. /\ UNCHANGED <<isModified, documents, client>> /\ trailer'.root = trailer.root
        /\ \A p \in PageObjects : pages'[p] = pages[p]
        /\ form' = form
        /\ \A i \in Images : imageIDs'[i] = imageIDs[i]
        /\ \A a_1 \in Opacities : opacityIDs'[a_1] = opacityIDs[a_1]
    BY <1>14
  <2>7. Agree(K, L, Len(registry)) /\ Stands(W, {}, Len(registry), U, O) /\ Len(registry) <= m
        /\ Len(registry) \in Nat \ {0} /\ (isModified => 3 <= Len(registry))
    BY <1>1, <1>3, <1>5, <2>2, <2>4
  <2>. QED  BY <1>13, <1>16, <2>3, <2>4, <2>5, <2>6, <2>7, RightStep
<1>. QED  BY <1>15, <1>16 DEF Onward

LEMMA StartFormOnward ==
    ASSUME PositionsFit, Shapes, Shapes', NEW K \in Kinds, OneOwner(K), UNCHANGED client,
           NEW id \in forms, StartFormXObject(id)
    PROVE  Onward(K)
<1>1. PICK n, U, O :
         /\ n \in Nat \ {0} /\ n \in Nat
         /\ n = Len(registry) /\ U = Unwritten(W) /\ O = Objects(W)
         /\ Leads(W, W, n, U, O) /\ U \subseteq 1 .. n - 1 /\ NextID(W) = n
         /\ n <= MaxWritePosition
  BY LeadsFrom
<1>2. PICK l, m \in Nat : Follow(n, l, m)
  BY <1>1, Following
<1>3. id \in U /\ K[id] = "form" /\ id \in Nat /\ id # n
  <2>1. id \in 1 .. n - 1 /\ K[id] = "form"
    BY <1>1 DEF OneOwner, FormsKnown
  <2>2. ~registry[id + 1].written
    BY DEF StartFormXObject, IsUnwritten, GetNthObjectReference
  <2>. QED  BY <1>1, <2>1, <2>2 DEF Unwritten, W
<1>4. PICK refs : refs = Refs("Resources", {n}) \cup Refs("Length", {l})
  OBVIOUS
<1>5. PICK list \in Seq(Nat), kind \in KindNames, key \in Int :
         list = <<>> /\ kind = "form" /\ key = StreamKey
  <2>1. <<>> \in Seq(Nat)
    OBVIOUS
  <2>. QED  BY <2>1, StreamKeyIs, Names
<1>6. PICK o : o = [Object(id, kind, refs, list) EXCEPT !.key = key]
  OBVIOUS
<1>7. PICK a, b, v, X, P : /\ a = WriteAt(W, o) /\ b = Allocate(a) /\ v = Allocate(b)
                           /\ X = U \ {id} /\ P = O \cup {o}
  OBVIOUS
<1>8. /\ Become(v) /\ form' = [NoForm EXCEPT !.id = id, !.resources = n]
      /\ stream' = [owner |-> Form, length |-> l]
  BY <1>1, <1>2, <1>4, <1>5, <1>6, <1>7 DEF StartFormXObject, Follow
<1>9. form'.resources = n /\ form'.xobjects = {} /\ form'.gstates = {}
  BY <1>8 DEF NoForm
<1>10. refs \in SUBSET (RoleNames \X Nat)
  BY <1>1, <1>2, <1>4, OneRef, Names
<1>11. /\ o \in FileObject /\ o.id = id /\ o.kind = "form" /\ o.refs = refs
       /\ o.kids = <<>>
  <2>1. PICK p : p = Object(id, kind, refs, list)
    OBVIOUS
  <2>2. /\ p \in FileObject /\ p.id = id /\ p.kind = kind /\ p.refs = refs /\ p.kids = list
    BY <1>3, <1>10, <2>1, PlainObject
  <2>3. o = [p EXCEPT !.key = key]
    BY <1>6, <2>1
  <2>. QED  BY <1>5, <2>2, <2>3 DEF FileObject
<1>12. PICK V : V = (X \cup {n}) \cup {l}
  OBVIOUS
<1>13. Leads(W, v, m, V, P)
  <2>1. Leads(W, a, n, X, P)
    BY <1>1, <1>3, <1>7, <1>11, LeadsToWriting
  <2>2. l = n + 1 /\ m = l + 1
    BY <1>2 DEF Follow
  <2>3. PICK Y : Y = X \cup {n}
    OBVIOUS
  <2>4. Leads(W, b, l, Y, P)
    BY <1>7, <2>1, <2>2, <2>3, LeadsToAllocation
  <2>5. V = Y \cup {l}
    BY <1>12, <2>3
  <2>. QED  BY <1>7, <2>2, <2>4, <2>5, LeadsToAllocation
<1>14. Stands(W', {}, m, V, P) /\ Extends(W, W')
  BY <1>8, <1>13, LeadsTo
<1>15. PICK L \in Kinds : Agree(K, L, n) /\ L[n] = "resources" /\ L[l] = "length"
  <2>1. l = n + 1
    BY <1>2 DEF Follow
  <2>2. PICK first \in KindNames, second \in KindNames : first = "resources" /\ second = "length"
    BY Names
  <2>3. PICK M \in Kinds : Agree(K, M, n) /\ M[n] = first
    <3>1. n \in Nat \ {0} /\ K \in Kinds
      BY <1>1
    <3>. QED  BY <3>1, KindGiven
  <2>4. l \in Nat \ {0} /\ n <= l /\ n \in 1 .. l - 1
    BY <1>1, <2>1
  <2>5. PICK L \in Kinds : Agree(M, L, l) /\ L[l] = second
    BY <2>4, KindGiven
  <2>6. Agree(K, L, n)
    BY <1>1, <2>3, <2>4, <2>5, AgreeTwice
  <2>7. L[n] = first
    BY <2>3, <2>4, <2>5 DEF Agree
  <2>. QED  BY <2>2, <2>5, <2>6, <2>7
<1>16. /\ UNCHANGED <<isModified, documents, client, tree, lost, kids, forms,
                      trailer, pages, annotations, imageIDs, opacityIDs, endTasks,
                      moreEndTasks>>
       /\ stream = NoStream
  BY DEF StartFormXObject, identity, history, Idle
<1>17. n \in Nat /\ n <= m
  BY <1>2 DEF Follow
<1>18. OneOwner(L)'
  <2>1. /\ TasksOwn(endTasks, "image", L, V) /\ TasksOwn(moreEndTasks, "gstate", L, V)
        /\ TreeOwned(L, V)
    <3>1. PICK gone : gone = {"form"}
      OBVIOUS
    <3>2. "image" \notin gone /\ "gstate" \notin gone /\ "pages" \notin gone
      BY <3>1
    <3>3. \A i \in Unwritten(W) : i \in V \/ K[i] \in gone
      BY <1>1, <1>3, <1>7, <1>12, <3>1
    <3>4. Agree(K, L, Len(registry)) /\ Unwritten(W) \subseteq 1 .. Len(registry) - 1
      BY <1>1, <1>15
    <3>. QED  BY <3>2, <3>3, <3>4, StillOwned
  <2>2. TreeOwned(L, V)' /\ StreamOwns(L, V)'
    <3>1. stream'.length = l /\ stream'.owner = Form /\ stream' # NoStream
      <4>1. l # 0
        BY <1>1, <1>2 DEF Follow
      <4>. QED  BY <1>8, <4>1 DEF NoStream, NoID
    <3>. QED  BY <1>9, <1>12, <1>15, <1>16, <2>1, <3>1 DEF TreeOwned, StreamOwns
  <2>3. ASSUME NEW i \in V
        PROVE  Owed(i)'
    <3>1. CASE i = n \/ i = l
      BY <1>8, <1>9, <3>1 DEF Owed
    <3>2. CASE i \in X
      <4>1. i \in U /\ i # 0
        BY <1>1, <1>7, <3>2
      <4>2. stream.length = 0 /\ form.resources = 0
        BY <1>16 DEF OneOwner, StreamOwns, NoStream, NoID
      <4>. QED  BY <1>1, <1>16, <4>1, <4>2, StillOwed DEF OneOwner
    <3>. QED  BY <1>12, <2>3, <3>1, <3>2
  <2>4. m <= client.objects
    <3>1. PICK j : j = 2
      OBVIOUS
    <3>2. HasRoomFor(j)
      BY <3>1 DEF StartFormXObject
    <3>. QED  BY <1>1, <1>2, <3>1, <3>2, RoomIs DEF Follow
  <2>5. Len(file) \in Nat
    BY OpenWriter
  <2>6. \A s \in Surfaces : moreEndTasks'[s] = moreEndTasks[s]
    BY <1>16
  <2>7. /\ TasksOwn(endTasks', "image", L, V) /\ TasksOwn(moreEndTasks', "gstate", L, V)
        /\ UNCHANGED <<isModified, documents, client>> /\ \A i \in forms' : i \in forms
    BY <1>16, <2>1
  <2>. QED  BY <1>1, <1>14, <1>15, <1>17, <2>2, <2>3, <2>4, <2>5, <2>6, <2>7, OwnersStep
<1>19. ASSUME RightKind(K)
       PROVE  RightKind(L)'
  <2>1. Fits(o, L, m)
    <3>1. /\ n \in 1 .. m - 1 /\ L[n] \in KindsFor("Resources")
          /\ l \in 1 .. m - 1 /\ L[l] \in KindsFor("Length")
      BY <1>2, <1>15, Roles DEF Follow
    <3>2. RefsFit(Refs("Resources", {n}), L, m) /\ RefsFit(Refs("Length", {l}), L, m)
      BY <1>1, <1>2, <3>1, OneRef, Names
    <3>3. RefsFit(o.refs, L, m)
      BY <1>4, <1>11, <3>2 DEF RefsFit
    <3>4. L[id] = "form"
      BY <1>1, <1>3, <1>15 DEF Agree
    <3>. QED  BY <1>11, <3>3, <3>4, ObjectFits
  <2>2. isModified => 3 <= n
    BY <1>1, OpenWriter, ModifiedHasObjects DEF OneOwner
  <2>3. \A k \in 1 .. Len(kids') : kids'[k] \in 1 .. m - 1
    BY <1>1, <1>2, <1>16, <1>19 DEF RightKind, Follow
  <2>4. Stands(W, {}, n, U, O) /\ \A object \in P : object \in O \/ Fits(object, L, m)
    BY <1>1, <1>7, <2>1 DEF Leads
  <2>5. /\ UNCHANGED <<isModified, documents, client, annotations>>
        /\ trailer'.root = trailer.root
        /\ \A p \in PageObjects : pages'[p] = pages[p]
        /\ \A i \in Images : imageIDs'[i] = imageIDs[i]
        /\ \A i \in Opacities : opacityIDs'[i] = opacityIDs[i]
    BY <1>16
  <2>6. SurfaceFits(form', L, m)
    BY <1>9 DEF SurfaceFits, Used
  <2>7. Agree(K, L, Len(registry)) /\ Stands(W, {}, Len(registry), U, O) /\ Len(registry) <= m
        /\ Len(registry) \in Nat \ {0} /\ (isModified => 3 <= Len(registry))
    BY <1>1, <1>15, <1>17, <2>2, <2>4
  <2>. QED  BY <1>14, <1>19, <2>3, <2>4, <2>5, <2>6, <2>7, RightStep
<1>. QED  BY <1>15, <1>18, <1>19 DEF Onward

\* The tasks after the one that failed.
LEMMA LeftOver ==
    ASSUME NEW tasks \in Seq(Task), NEW q \in Nat, NEW k \in q + 1 .. Len(tasks)
    PROVE  tasks[k].id \in TaskIDs(SubSeq(tasks, q + 1, Len(tasks)))
<1>1. PICK n \in Nat : n = Len(tasks)
  BY LenProperties
<1>2. PICK rest : rest = SubSeq(tasks, q + 1, n)
  OBVIOUS
<1>3. k - q \in 1 .. n - q /\ q + 1 \in Nat /\ n - (q + 1) + 1 = n - q /\ q + 1 <= n + 1
  BY <1>1
<1>4. rest = [i \in 1 .. n - q |-> tasks[q + i]] 
  <2>1. \A i \in 1 .. n - q : i + (q + 1) - 1 = q + i
    BY <1>1
  <2>. QED  BY <1>1, <1>2, <1>3, <2>1
<1>5. Len(rest) = n - q
  BY <1>1, <1>3, <1>4
<1>6. rest[k - q] = tasks[k]
  <2>1. q + (k - q) = k
    BY <1>1
  <2>. QED  BY <1>3, <1>4, <2>1
<1>7. k - q \in 1 .. Len(rest) /\ rest[k - q].id = tasks[k].id
  BY <1>3, <1>5, <1>6
<1>. QED  BY <1>1, <1>2, <1>7 DEF TaskIDs

\* The objects that the tasks of a surface write when q of its images succeed.
Ran(s, q) == {endTasks[s][k].id : k \in 1 .. q}
             \cup IF q < Len(endTasks[s]) THEN {} ELSE TaskIDs(moreEndTasks[s])

WrittenByTasks(s, q) ==
    {Written(endTasks[s][k], "image") : k \in 1 .. q}
    \cup IF q < Len(endTasks[s]) THEN {}
         ELSE {Written(moreEndTasks[s][k], "gstate") : k \in 1 .. Len(moreEndTasks[s])}

LEMMA OwnTasks ==
    ASSUME NEW tasks \in [Surfaces -> Seq(Task)], NEW kind, NEW K, NEW U,
           TasksOwn(tasks, kind, K, U), NEW s \in Surfaces
    PROVE  /\ tasks[s] \in Seq(Task)
           /\ \A k \in 1 .. Len(tasks[s]) : tasks[s][k].id \in U /\ K[tasks[s][k].id] = kind
           /\ \A j, k \in 1 .. Len(tasks[s]) : tasks[s][j].id = tasks[s][k].id => j = k
BY DEF TasksOwn

LEMMA SurfaceTasks ==
    ASSUME Shapes, NEW x, NEW w, NEW m, NEW U, NEW O, Leads(x, w, m, U, O),
           m <= MaxWritePosition, NEW s \in Surfaces, NEW q \in 0 .. Len(endTasks[s]),
           NEW K, TasksOwn(endTasks, "image", K, U), TasksOwn(moreEndTasks, "gstate", K, U),
           NEW v, v = TasksWritten(w, s, q), NEW V, V = U \ Ran(s, q),
           NEW P, P = O \cup WrittenByTasks(s, q)
    PROVE  Leads(x, v, m, V, P)
<1>1. PICK ends, mores, n :
         ends = endTasks[s] /\ mores = moreEndTasks[s] /\ n = Len(mores)
  OBVIOUS
<1>2. /\ ends \in Seq(Task)
      /\ \A k \in 1 .. Len(ends) : ends[k].id \in U /\ K[ends[k].id] = "image"
      /\ \A j, k \in 1 .. Len(ends) : ends[j].id = ends[k].id => j = k
  <2>1. PICK tasks \in [Surfaces -> Seq(Task)], kind \in KindNames :
           tasks = endTasks /\ kind = "image"
    BY Names DEF Shapes
  <2>2. TasksOwn(tasks, kind, K, U)
    BY <2>1
  <2>3. /\ tasks[s] \in Seq(Task)
        /\ \A k \in 1 .. Len(tasks[s]) : tasks[s][k].id \in U /\ K[tasks[s][k].id] = kind
        /\ \A j, k \in 1 .. Len(tasks[s]) : tasks[s][j].id = tasks[s][k].id => j = k
    BY <2>2, OwnTasks
  <2>. QED  BY <1>1, <2>1, <2>3
<1>3. /\ mores \in Seq(Task)
      /\ \A k \in 1 .. Len(mores) : mores[k].id \in U /\ K[mores[k].id] = "gstate"
      /\ \A j, k \in 1 .. Len(mores) : mores[j].id = mores[k].id => j = k
  <2>1. PICK tasks \in [Surfaces -> Seq(Task)], kind \in KindNames :
           tasks = moreEndTasks /\ kind = "gstate"
    BY Names DEF Shapes
  <2>2. TasksOwn(tasks, kind, K, U)
    BY <2>1
  <2>3. /\ tasks[s] \in Seq(Task)
        /\ \A k \in 1 .. Len(tasks[s]) : tasks[s][k].id \in U /\ K[tasks[s][k].id] = kind
        /\ \A j, k \in 1 .. Len(tasks[s]) : tasks[s][j].id = tasks[s][k].id => j = k
    BY <2>2, OwnTasks
  <2>. QED  BY <1>1, <2>1, <2>3
<1>4. PICK image \in KindNames, gstate \in KindNames : image = "image" /\ gstate = "gstate"
  BY Names
<1>5. PICK y, X, Q : /\ y = WriteTasks(w, ends, q, image)
                     /\ X = U \ {ends[k].id : k \in 1 .. q}
                     /\ Q = O \cup {Written(ends[k], image) : k \in 1 .. q}
  OBVIOUS
<1>6. /\ Len(ends) \in Nat /\ n \in Nat /\ n \in 0 .. Len(mores) /\ q \in 0 .. Len(ends)
      /\ \A k \in 1 .. q : k \in 1 .. Len(ends)
  BY <1>1, <1>2, <1>3, LenProperties
<1>7. Leads(x, y, m, X, Q)
  BY <1>2, <1>5, <1>6, LeadsToTasks
<1>8. CASE q < Len(endTasks[s])
  <2>1. v = y /\ V = X /\ P = Q
    BY <1>1, <1>4, <1>5, <1>8 DEF TasksWritten, Ran, WrittenByTasks
  <2>. QED  BY <1>7, <2>1
<1>9. CASE ~(q < Len(endTasks[s]))
  <2>1. v = WriteTasks(y, mores, n, gstate)
    BY <1>1, <1>4, <1>5, <1>9 DEF TasksWritten
  <2>2. V = X \ {mores[k].id : k \in 1 .. n}
    BY <1>1, <1>5, <1>9 DEF Ran, TaskIDs
  <2>3. P = Q \cup {Written(mores[k], gstate) : k \in 1 .. n}
    BY <1>1, <1>4, <1>5, <1>9 DEF WrittenByTasks
  <2>4. \A k \in 1 .. Len(mores) : mores[k].id \in X
    BY <1>2, <1>3, <1>5, <1>6
  <2>. QED  BY SMTT(30), <1>3, <1>6, <1>7, <2>1, <2>2, <2>3, <2>4, LeadsToTasks
<1>. QED  BY <1>8, <1>9

\* What has run is owed no more, what has not is lost.
TasksAreLeft(K, U, V) ==
    /\ TasksOwn(endTasks', "image", K, V) /\ TasksOwn(moreEndTasks', "gstate", K, V)
    /\ \A id \in U : K[id] \notin {"image", "gstate"} => id \in V
    /\ \A s \in Surfaces : \A id \in V : id \in TaskIDsOf(s) =>
          id \in TaskIDsOf(s)' \/ id \in lost'
    /\ lost \subseteq lost'
    /\ \A s \in Surfaces : moreEndTasks'[s] = <<>> \/ moreEndTasks'[s] = moreEndTasks[s]

LEMMA TasksLeft ==
    ASSUME Shapes, NEW s \in Surfaces, NEW q \in 0 .. Len(endTasks[s]), RunTasks(s, q),
           NEW K, NEW U, TasksOwn(endTasks, "image", K, U),
           TasksOwn(moreEndTasks, "gstate", K, U), NEW V, V = U \ Ran(s, q)
    PROVE  TasksAreLeft(K, U, V)
<1>1. PICK ends, mores : ends = endTasks[s] /\ mores = moreEndTasks[s]
  OBVIOUS
<1>2. /\ ends \in Seq(Task) /\ Len(ends) \in Nat
      /\ \A k \in 1 .. Len(ends) : ends[k].id \in U /\ K[ends[k].id] = "image"
      /\ \A k \in 1 .. Len(mores) : mores[k].id \in U /\ K[mores[k].id] = "gstate"
  <2>1. ends \in Seq(Task)
    BY <1>1 DEF Shapes
  <2>. QED  BY <1>1, <2>1, LenProperties DEF TasksOwn
<1>3. /\ q \in Nat /\ \A k \in 1 .. q : k \in 1 .. Len(ends)
      /\ \A k \in 1 .. Len(ends) : k \in 1 .. q \/ k \in q + 1 .. Len(ends)
  <2>1. Len(ends) \in Nat /\ q \in 0 .. Len(ends)
    BY <1>1, <1>2
  <2>. QED  BY <2>1
<1>4. \A id \in Ran(s, q) : /\ K[id] = "image" \/ K[id] = "gstate"
                            /\ K[id] = "image" => id \in TaskIDs(ends)
                            /\ K[id] = "gstate" => id \in TaskIDs(mores) /\ ~(q < Len(ends))
  BY <1>1, <1>2, <1>3 DEF Ran, TaskIDs
<1>5. /\ endTasks' = Discarded(endTasks, s)
      /\ q < Len(ends) => moreEndTasks' = moreEndTasks
      /\ ~(q < Len(ends)) => moreEndTasks' = Discarded(moreEndTasks, s)
      /\ lost' = lost \cup TaskIDs(SubSeq(ends, q + 1, Len(ends)))
  BY <1>1 DEF RunTasks
<1>6. PICK tasks, others \in [Surfaces -> Seq(Task)] : tasks = endTasks /\ others = moreEndTasks
  BY DEF Shapes
<1>7. PICK image, gstate \in KindNames : image = "image" /\ gstate = "gstate"
  BY Names
<1>8. TasksOwn(tasks, image, K, U) /\ TasksOwn(others, gstate, K, U)
  BY <1>6, <1>7
<1>9. /\ TasksOwn(Discarded(tasks, s), image, K, V)
      /\ Discarded(tasks, s)[s] = <<>>
      /\ \A r \in Surfaces : r # s => Discarded(tasks, s)[r] = tasks[r]
  <2>1. \A i \in U : K[i] = image /\ i \notin TaskIDs(tasks[s]) => i \in V /\ K[i] = image
    BY <1>1, <1>4, <1>6, <1>7
  <2>2. TasksOwn(Discarded(tasks, s), image, K, V)
    BY <1>8, <2>1, TasksRun
  <2>. QED  BY <2>2 DEF Discarded
<1>10. CASE q < Len(ends)
  <2>1. \A i \in U : K[i] = gstate => i \in V /\ K[i] = gstate
    BY <1>4, <1>7, <1>10
  <2>2. TasksOwn(others, gstate, K, V)
    BY <1>8, <2>1, TasksKept
  <2>3. ASSUME NEW r \in Surfaces, NEW id \in V, id \in TaskIDsOf(r)
        PROVE  id \in TaskIDsOf(r)' \/ id \in lost'
    <3>1. CASE id \in TaskIDs(moreEndTasks[r])
      BY <1>5, <1>10, <3>1, TaskIDsPrimed
    <3>2. CASE id \in TaskIDs(endTasks[r]) /\ r # s
      BY <1>5, <1>6, <1>9, <3>2, TaskIDsPrimed
    <3>3. CASE id \in TaskIDs(endTasks[r]) /\ r = s
      <4>1. PICK k \in 1 .. Len(ends) : id = ends[k].id
        BY <1>1, <3>3 DEF TaskIDs
      <4>2. k \in q + 1 .. Len(ends)
        <5>1. k \notin 1 .. q
          BY <1>1, <2>3, <4>1 DEF Ran
        <5>. QED  BY <1>3, <5>1
      <4>. QED  BY <1>2, <1>3, <1>5, <4>1, <4>2, LeftOver
    <3>. QED  BY <2>3, <3>1, <3>2, <3>3 DEF TaskIDsOf
  <2>4. TasksOwn(endTasks', "image", K, V) /\ TasksOwn(moreEndTasks', "gstate", K, V)
    BY <1>5, <1>6, <1>7, <1>9, <1>10, <2>2
  <2>5. \A id \in U : K[id] \notin {"image", "gstate"} => id \in V
    BY <1>4
  <2>. QED  BY <1>5, <1>10, <2>3, <2>4, <2>5 DEF TasksAreLeft
<1>11. CASE ~(q < Len(ends))
  <2>1. \A i \in U : K[i] = gstate /\ i \notin TaskIDs(others[s]) => i \in V /\ K[i] = gstate
    BY <1>1, <1>4, <1>6, <1>7
  <2>2. /\ TasksOwn(Discarded(others, s), gstate, K, V)
        /\ Discarded(others, s)[s] = <<>>
        /\ \A r \in Surfaces : r # s => Discarded(others, s)[r] = others[r]
    <3>1. TasksOwn(Discarded(others, s), gstate, K, V)
      BY <1>8, <2>1, TasksRun
    <3>. QED  BY <3>1 DEF Discarded
  <2>3. ASSUME NEW r \in Surfaces, NEW id \in V, id \in TaskIDsOf(r)
        PROVE  id \in TaskIDsOf(r)'
    <3>1. r # s
      <4>1. q = Len(ends)
        BY <1>2, <1>1, <1>11
      <4>2. Ran(s, q) = TaskIDs(ends) \cup TaskIDs(mores)
        BY <1>1, <1>11, <4>1 DEF Ran, TaskIDs
      <4>. QED  BY <1>1, <2>3, <4>2 DEF TaskIDsOf
    <3>. QED  BY <1>5, <1>6, <1>9, <1>11, <2>2, <2>3, <3>1, TaskIDsPrimed DEF TaskIDsOf
  <2>4. TasksOwn(endTasks', "image", K, V) /\ TasksOwn(moreEndTasks', "gstate", K, V)
    BY <1>5, <1>6, <1>7, <1>9, <1>11, <2>2
  <2>5. \A id \in U : K[id] \notin {"image", "gstate"} => id \in V
    BY <1>4
  <2>6. \A r \in Surfaces : moreEndTasks'[r] = <<>> \/ moreEndTasks'[r] = moreEndTasks[r]
    BY <1>5, <1>6, <1>11, <2>2
  <2>. QED  BY <1>5, <2>3, <2>4, <2>5, <2>6 DEF TasksAreLeft
<1>. QED  BY <1>10, <1>11

LEMMA TaskObjectsFit ==
    ASSUME Shapes, NEW s \in Surfaces, NEW q \in 0 .. Len(endTasks[s]), NEW K, NEW U,
           TasksOwn(endTasks, "image", K, U), TasksOwn(moreEndTasks, "gstate", K, U), NEW m
    PROVE  \A object \in WrittenByTasks(s, q) : Fits(object, K, m)
<1>1. PICK ends \in Seq(Task), mores \in Seq(Task) :
         ends = endTasks[s] /\ mores = moreEndTasks[s]
  BY DEF Shapes
<1>2. /\ Len(ends) \in Nat /\ Len(mores) \in Nat
      /\ \A k \in 1 .. Len(ends) : ends[k] \in Task /\ K[ends[k].id] = "image"
      /\ \A k \in 1 .. Len(mores) : mores[k] \in Task /\ K[mores[k].id] = "gstate"
  BY <1>1, LenProperties, ElementOfSeq DEF TasksOwn
<1>3. \A k \in 1 .. q : k \in 1 .. Len(ends)
  BY <1>1, <1>2
<1>4. ASSUME NEW task \in Task, NEW kind \in KindNames, K[task.id] = kind
      PROVE  Fits(Written(task, kind), K, m)
  <2>1. PICK o : o = Written(task, kind)
    OBVIOUS
  <2>2. o.id = task.id /\ o.kind = kind /\ o.refs = {} /\ o.kids = <<>>
    BY <2>1, WrittenIsObject
  <2>3. Fits(o, K, m)
    BY <1>4, <2>2, ObjectFits DEF RefsFit
  <2>. QED  BY <2>1, <2>3
<1>5. ASSUME NEW object \in WrittenByTasks(s, q)
      PROVE  Fits(object, K, m)
  <2>1. \/ \E k \in 1 .. Len(ends) : object = Written(ends[k], "image")
        \/ \E k \in 1 .. Len(mores) : object = Written(mores[k], "gstate")
    BY <1>1, <1>3, <1>5 DEF WrittenByTasks
  <2>2. PICK task \in Task, kind \in KindNames : object = Written(task, kind) /\ K[task.id] = kind
    BY <1>2, <2>1, Names
  <2>. QED  BY <1>4, <2>2
<1>. QED  BY <1>5

LEMMA EndFormOnward ==
    ASSUME PositionsFit, Shapes, Shapes', NEW K \in Kinds, OneOwner(K), UNCHANGED client,
           NEW q \in 0 .. Len(endTasks[Form]), EndFormXObject(q)
    PROVE  Onward(K)
<1>1. PICK n, U, O :
         /\ n \in Nat \ {0} /\ n \in Nat
         /\ n = Len(registry) /\ U = Unwritten(W) /\ O = Objects(W)
         /\ Leads(W, W, n, U, O) /\ U \subseteq 1 .. n - 1 /\ n <= MaxWritePosition
  BY LeadsFrom
<1>2. PICK length, resources : length = stream.length /\ resources = form.resources
  OBVIOUS
<1>3. /\ length \in U /\ K[length] = "length" /\ resources \in U /\ K[resources] = "resources"
      /\ length # resources /\ length \in Nat /\ resources \in Nat
  <2>1. /\ length \in U /\ K[length] = "length" /\ resources \in U /\ K[resources] = "resources"
    BY <1>1, <1>2 DEF EndFormXObject, Drawing, OneOwner, StreamOwns
  <2>2. length # resources
    BY <2>1
  <2>. QED  BY <1>1, <2>1, <2>2
<1>4. PICK refs : refs = Refs("XObject", form.xobjects) \cup Refs("ExtGState", form.gstates)
  OBVIOUS
<1>5. PICK list \in Seq(Nat), kind \in KindNames : list = <<>> /\ kind = "resources"
  <2>1. <<>> \in Seq(Nat)
    OBVIOUS
  <2>. QED  BY <2>1, Names
<1>6. PICK o, r : /\ o = Object(stream.length, "length", {}, <<>>)
                  /\ r = Object(resources, kind, refs, list)
  OBVIOUS
<1>7. /\ o \in FileObject /\ o.id = length /\ o.kind = "length" /\ o.refs = {} /\ o.kids = <<>>
  BY <1>2, <1>6, LengthObject
<1>8. form.xobjects \subseteq Nat /\ form.gstates \subseteq Nat
  <2>1. PICK f \in FormRecord : f = form
    BY DEF Shapes
  <2>. QED  BY <2>1 DEF FormRecord
<1>9. /\ r \in FileObject /\ r.id = resources /\ r.kind = kind /\ r.refs = refs
      /\ r.kids = list
  <2>1. Refs("XObject", form.xobjects) \in SUBSET (RoleNames \X Nat)
    BY <1>8, RefsAre, Names
  <2>2. Refs("ExtGState", form.gstates) \in SUBSET (RoleNames \X Nat)
    BY <1>8, RefsAre, Names
  <2>3. refs \in SUBSET (RoleNames \X Nat)
    BY <1>4, <2>1, <2>2
  <2>. QED  BY <1>3, <1>6, <2>3, PlainObject
<1>10. PICK a, b, v : /\ a = WriteAt(W, o) /\ b = WriteAt(a, r)
                      /\ v = TasksWritten(b, Form, q)
  OBVIOUS
<1>11. PICK X, Y, P, Q : /\ X = U \ {length} /\ P = O \cup {o}
                         /\ Y = X \ {resources} /\ Q = P \cup {r}
  OBVIOUS
<1>12. PICK V, R : V = Y \ Ran(Form, q) /\ R = Q \cup WrittenByTasks(Form, q)
  OBVIOUS
<1>13. Become(v) /\ RunTasks(Form, q) /\ form' = NoForm /\ stream' = NoStream
  BY <1>2, <1>4, <1>5, <1>6, <1>10 DEF EndFormXObject, WriteLength
<1>14. TasksOwn(endTasks, "image", K, Y) /\ TasksOwn(moreEndTasks, "gstate", K, Y)
       /\ TreeOwned(K, Y)
  <2>1. PICK gone : gone = {"length", "resources"}
    OBVIOUS
  <2>2. "image" \notin gone /\ "gstate" \notin gone /\ "pages" \notin gone
    BY <2>1
  <2>3. \A i \in Unwritten(W) : i \in Y \/ K[i] \in gone
    BY <1>1, <1>3, <1>11, <2>1
  <2>4. Agree(K, K, Len(registry)) /\ Unwritten(W) \subseteq 1 .. Len(registry) - 1
    BY <1>1, SameKinds
  <2>. QED  BY <2>2, <2>3, <2>4, StillOwned
<1>15. Form \in Surfaces
  BY DEF Surfaces
<1>16. Leads(W, v, n, V, R)
  <2>1. Leads(W, a, n, X, P)
    BY <1>1, <1>3, <1>7, <1>10, <1>11, LeadsToWriting
  <2>2. resources \in X
    BY <1>3, <1>11
  <2>3. Leads(W, b, n, Y, Q)
    BY <1>1, <1>9, <1>10, <1>11, <2>1, <2>2, LeadsToWriting
  <2>. QED  BY <1>1, <1>10, <1>12, <1>14, <1>15, <2>3, SurfaceTasks
<1>17. Stands(W', {}, n, V, R) /\ Extends(W, W')
  BY <1>13, <1>16, LeadsTo
<1>18. /\ TasksOwn(endTasks', "image", K, V) /\ TasksOwn(moreEndTasks', "gstate", K, V)
       /\ \A id \in Y : K[id] \notin {"image", "gstate"} => id \in V
       /\ \A s \in Surfaces : \A id \in V : id \in TaskIDsOf(s) =>
             id \in TaskIDsOf(s)' \/ id \in lost'
       /\ lost \subseteq lost'
       /\ \A s \in Surfaces : moreEndTasks'[s] = <<>> \/ moreEndTasks'[s] = moreEndTasks[s]
  <2>1. TasksAreLeft(K, Y, V)
    BY <1>12, <1>13, <1>14, <1>15, TasksLeft
  <2>. QED  BY <2>1 DEF TasksAreLeft
<1>19. UNCHANGED <<isModified, documents, client, forms, tree, kids, annotations, trailer,
                   pages, imageIDs, opacityIDs>>
  BY DEF EndFormXObject, identity
<1>20. Agree(K, K, n) /\ n \in Nat /\ n <= n
  BY <1>1, SameKinds
<1>21. OneOwner(K)'
  <2>1. TreeOwned(K, V)'
    BY <1>14, <1>18, <1>19 DEF TreeOwned
  <2>2. StreamOwns(K, V)'
    BY <1>13 DEF StreamOwns, NoForm
  <2>3. ASSUME NEW id \in V
        PROVE  Owed(id)'
    <3>1. id \in U /\ id # stream.length /\ id # form.resources
      BY <1>2, <1>11, <1>12
    <3>2. Owed(id)
      BY <1>1, <3>1 DEF OneOwner
    <3>. QED  BY <1>18, <1>19, <3>1, <3>2, StillOwedBySome
  <2>4. Len(file) \in Nat
    BY OpenWriter
  <2>. QED  BY <1>1, <1>17, <1>18, <1>19, <1>20, <2>1, <2>2, <2>3, <2>4, OwnersStep
<1>22. ASSUME RightKind(K)
       PROVE  RightKind(K)'
  <2>1. Fits(o, K, n)
    BY <1>3, <1>7, ObjectFits DEF RefsFit
  <2>2. Fits(r, K, n)
    <3>1. Used(form.xobjects, KindsFor("XObject"), K, n) /\ Used(form.gstates, KindsFor("ExtGState"), K, n)
      BY <1>1, <1>22, Roles DEF RightKind, SurfaceFits
    <3>2. RefsFit(Refs("XObject", form.xobjects), K, n)
      BY <1>8, <3>1, RefsFitUsed, Names
    <3>3. RefsFit(Refs("ExtGState", form.gstates), K, n)
      BY <1>8, <3>1, RefsFitUsed, Names
    <3>4. RefsFit(r.refs, K, n)
      BY <1>4, <1>9, <3>2, <3>3 DEF RefsFit
    <3>. QED  BY <1>3, <1>5, <1>9, <3>4, ObjectFits
  <2>3. \A object \in WrittenByTasks(Form, q) : Fits(object, K, n)
    BY <1>14, <1>15, TaskObjectsFit
  <2>4. isModified => 3 <= n
    BY <1>1, <1>20, OpenWriter, ModifiedHasObjects DEF OneOwner
  <2>5. \A k \in 1 .. Len(kids') : kids'[k] \in 1 .. n - 1
    BY <1>1, <1>19, <1>22 DEF RightKind
  <2>6. Stands(W, {}, n, U, O) /\ \A object \in R : object \in O \/ Fits(object, K, n)
    BY <1>1, <1>11, <1>12, <2>1, <2>2, <2>3 DEF Leads
  <2>7. SurfaceFits(form', K, n)
    BY <1>13 DEF SurfaceFits, Used, NoForm
  <2>8. /\ UNCHANGED <<isModified, documents, client, annotations>>
        /\ trailer'.root = trailer.root
        /\ \A p \in PageObjects : pages'[p] = pages[p]
        /\ \A i \in Images : imageIDs'[i] = imageIDs[i]
        /\ \A i \in Opacities : opacityIDs'[i] = opacityIDs[i]
    BY <1>19
  <2>9. Agree(K, K, Len(registry)) /\ Stands(W, {}, Len(registry), U, O) /\ Len(registry) <= n
        /\ Len(registry) \in Nat \ {0} /\ (isModified => 3 <= Len(registry)) /\ n \in Nat
    BY <1>1, <1>20, <2>4, <2>6
  <2>. QED  BY <1>17, <1>22, <2>5, <2>6, <2>7, <2>8, <2>9, RightStep
<1>. QED  BY <1>21, <1>22 DEF Onward

\* A page is given an ID, and so is the tree if it has none; the page is written.
PageStands(page, K, L, m, V, P) ==
    /\ Agree(K, L, Len(registry)) /\ L[Len(registry)] = "page"
    /\ Leads(W, WriteAt(PageStarted, page), m, V, P) /\ P = Objects(W) \cup {page}
    /\ Len(registry) \in 1 .. m - 1 /\ Len(registry) <= m
    /\ m <= client.objects /\ m <= MaxWritePosition
    /\ TreeAfter(StartPage) \in 1 .. m - 1 /\ TreeAfter(StartPage) \in V
    /\ L[TreeAfter(StartPage)] = "pages"
    /\ tree # NoID => TreeAfter(StartPage) = tree
    /\ Unwritten(W) \subseteq V
    /\ \A i \in V : i \in Unwritten(W) \/ i = TreeAfter(StartPage)

LEMMA PageAdded ==
    ASSUME PositionsFit, Shapes, NEW K \in Kinds, OneOwner(K), HasRoomFor(2),
           NEW page \in FileObject, page.id = NextID(W)
    PROVE  \E m \in Nat, L \in Kinds : \E V, P : PageStands(page, K, L, m, V, P)
<1>1. PICK n, U, O :
         /\ n \in Nat \ {0} /\ n \in Nat
         /\ n = Len(registry) /\ U = Unwritten(W) /\ O = Objects(W)
         /\ Leads(W, W, n, U, O) /\ U \subseteq 1 .. n - 1 /\ NextID(W) = n
         /\ n + 4 <= MaxWritePosition /\ n <= MaxWritePosition
  BY LeadsFrom
<1>2. PICK l, m \in Nat : Follow(n, l, m)
  BY <1>1, Following
<1>3. /\ l = n + 1 /\ m = l + 1 /\ m = n + 2 /\ l \in Nat \ {0} /\ n \in 1 .. l - 1
      /\ l <= MaxWritePosition /\ m <= MaxWritePosition
  BY <1>1, <1>2, RegistryAssumption DEF Follow
<1>4. m <= client.objects /\ l <= client.objects
  <2>1. PICK j : j = 2
    OBVIOUS
  <2>2. HasRoomFor(j)
    BY <2>1
  <2>3. m <= client.objects
    BY <1>1, <1>3, <2>1, <2>2, RoomIs
  <2>4. client.objects \in Nat
    BY ClientNumbers DEF Shapes
  <2>. QED  BY <1>3, <2>3, <2>4
<1>5. PICK a, X : a = Allocate(W) /\ X = U \cup {n}
  OBVIOUS
<1>6. Leads(W, a, l, X, O) /\ n \notin U
  <2>1. l = n + 1 /\ Leads(W, W, n, U, O)
    BY <1>1, <1>3
  <2>. QED  BY <1>5, <2>1, LeadsToAllocation
<1>7. NextID(a) = l
  BY <1>6 DEF Leads, Stands, NextID, GetObjectsCount
<1>8. PICK first \in KindNames : first = "page"
  BY Names
<1>9. PICK M \in Kinds : Agree(K, M, n) /\ M[n] = "page"
  BY <1>1, <1>8, KindGiven
<1>10. PICK P : P = O \cup {page}
  OBVIOUS
<1>11. page.id = n
  BY <1>1
<1>12. CASE tree # NoID
  <2>1. PageStarted = a /\ TreeAfter(StartPage) = tree
    BY <1>5, <1>12 DEF PageStarted, StartPage, TreeAfter
  <2>2. tree \in U /\ K[tree] = "pages"
    BY <1>1, <1>12 DEF OneOwner, TreeOwned
  <2>3. PICK v : v = WriteAt(PageStarted, page)
    OBVIOUS
  <2>4. Leads(W, v, l, U, P)
    <3>1. n \in X /\ U = X \ {n} /\ v = WriteAt(a, page)
      BY <1>5, <1>6, <2>1, <2>3
    <3>. QED  BY <1>3, <1>6, <1>10, <1>11, <3>1, LeadsToWriting
  <2>5. tree \in 1 .. l - 1 /\ M[tree] = "pages"
    <3>1. tree \in 1 .. n - 1
      BY <1>1, <2>2
    <3>2. tree \in 1 .. l - 1
      BY <1>1, <1>3, <3>1
    <3>. QED  BY <1>9, <2>2, <3>1, <3>2 DEF Agree
  <2>6. n <= l
    BY <1>3
  <2>7. PageStands(page, K, M, l, U, P)
    BY <1>1, <1>3, <1>4, <1>9, <1>10, <2>1, <2>2, <2>3, <2>4, <2>5, <2>6 DEF PageStands
  <2>. QED  BY <2>7
<1>13. CASE tree = NoID
  <2>1. PICK b : b = Allocate(a)
    OBVIOUS
  <2>2. PageStarted = b /\ TreeAfter(StartPage) = l
    BY <1>5, <1>7, <1>13, <2>1 DEF PageStarted, StartPage, TreeAfter
  <2>3. PICK v, Y, V : v = WriteAt(PageStarted, page) /\ Y = X \cup {l} /\ V = Y \ {n}
    OBVIOUS
  <2>4. Leads(W, b, m, Y, O)
    BY <1>3, <1>6, <2>1, <2>3, LeadsToAllocation
  <2>5. Leads(W, v, m, V, P)
    <3>1. n \in Y /\ v = WriteAt(b, page)
      BY <1>5, <2>2, <2>3
    <3>. QED  BY <1>3, <1>10, <1>11, <2>3, <2>4, <3>1, LeadsToWriting
  <2>6. l # n /\ l \in 1 .. m - 1 /\ n \in 1 .. m - 1 /\ n <= m /\ n <= l
    BY <1>3
  <2>a. PICK second \in KindNames : second = "pages"
    BY Names
  <2>7. PICK L \in Kinds : Agree(M, L, l) /\ L[l] = second
    BY <1>3, KindGiven
  <2>8. Agree(K, L, n)
    BY <1>1, <1>3, <1>9, <2>6, <2>7, AgreeTwice
  <2>9. L[n] = "page"
    BY <1>3, <1>9, <2>7 DEF Agree
  <2>10. l \in V /\ U \subseteq V /\ \A i \in V : i \in U \/ i = l
    BY <1>5, <1>6, <2>3, <2>6
  <2>11. PageStands(page, K, L, m, V, P)
    BY <1>1, <1>3, <1>4, <1>10, <1>13, <2>a, <2>2, <2>3, <2>5, <2>6, <2>7, <2>8, <2>9, <2>10
       DEF PageStands
  <2>. QED  BY <2>11
<1>. QED  BY <1>12, <1>13

\* The page that is written, whole or broken.
LEMMA PageObjectIs ==
    ASSUME Shapes, NEW n \in Nat, NextID(W) = n, TreeAfter(StartPage) \in Nat,
           NEW p \in PageObjects
    PROVE  /\ PageObject(p) \in FileObject /\ PageObject(p).id = n
           /\ PageObject(p).kind = "page" /\ PageObject(p).kids = <<>>
           /\ PageObject(p).refs = Refs("Parent", {TreeAfter(StartPage)})
                                    \cup Refs("XObject", pages[p].xobjects)
                                    \cup Refs("ExtGState", pages[p].gstates)
                                    \cup Refs("Annots", annotations)
                                    \cup Refs("Contents", ToSet(pages[p].contents))
           /\ pages[p].xobjects \subseteq Nat /\ pages[p].gstates \subseteq Nat
           /\ annotations \subseteq Nat /\ ToSet(pages[p].contents) \subseteq Nat
<1>1. PICK page \in PDFPage : page = pages[p]
  BY DEF Shapes
<1>2. PICK contents \in Seq(Nat) : contents = page.contents
  BY DEF PDFPage
<1>3. ToSet(contents) \subseteq Nat
  BY ElementOfSeq, LenProperties DEF ToSet
<1>4. /\ page.xobjects \subseteq Nat /\ page.gstates \subseteq Nat /\ annotations \subseteq Nat
  BY DEF PDFPage, Shapes
<1>5. PICK r1, r2, r3, r4, r5 :
         /\ r1 = Refs("Parent", {TreeAfter(StartPage)})
         /\ r2 = Refs("XObject", pages[p].xobjects)
         /\ r3 = Refs("ExtGState", pages[p].gstates)
         /\ r4 = Refs("Annots", annotations)
         /\ r5 = Refs("Contents", ToSet(pages[p].contents))
  OBVIOUS
<1>6. r1 \in SUBSET (RoleNames \X Nat)
  BY <1>5, OneRef, Names
<1>7. r2 \in SUBSET (RoleNames \X Nat)
  BY <1>1, <1>4, <1>5, RefsAre, Names
<1>8. r3 \in SUBSET (RoleNames \X Nat)
  BY <1>1, <1>4, <1>5, RefsAre, Names
<1>9. r4 \in SUBSET (RoleNames \X Nat)
  BY <1>4, <1>5, RefsAre, Names
<1>10. r5 \in SUBSET (RoleNames \X Nat)
  BY <1>1, <1>2, <1>3, <1>5, RefsAre, Names
<1>11. PICK refs \in SUBSET (RoleNames \X Nat) : refs = r1 \cup r2 \cup r3 \cup r4 \cup r5
  BY <1>6, <1>7, <1>8, <1>9, <1>10
<1>a. PICK list \in Seq(Nat), kind \in KindNames : list = <<>> /\ kind = "page"
  <2>1. <<>> \in Seq(Nat)
    OBVIOUS
  <2>. QED  BY <2>1, Names
<1>12. PICK o : o = Object(n, kind, refs, list)
  OBVIOUS
<1>13. o \in FileObject /\ o.id = n /\ o.kind = kind /\ o.refs = refs /\ o.kids = list
  BY <1>12, PlainObject
<1>14. PageObject(p) = o
  BY <1>5, <1>a, <1>11, <1>12 DEF PageObject
<1>. QED  BY <1>1, <1>2, <1>3, <1>4, <1>5, <1>a, <1>11, <1>13, <1>14

LEMMA BrokenPage ==
    ASSUME NEW n \in Nat, NextID(W) = n, TreeAfter(StartPage) \in Nat
    PROVE  /\ BrokenPageObject \in FileObject /\ BrokenPageObject.id = n
           /\ BrokenPageObject.kind = "page" /\ BrokenPageObject.kids = <<>>
           /\ BrokenPageObject.refs = Refs("Parent", {TreeAfter(StartPage)})
<1>1. PICK refs \in SUBSET (RoleNames \X Nat) : refs = Refs("Parent", {TreeAfter(StartPage)})
  BY OneRef, Names
<1>a. PICK list \in Seq(Nat), kind \in KindNames : list = <<>> /\ kind = "page"
  <2>1. <<>> \in Seq(Nat)
    OBVIOUS
  <2>. QED  BY <2>1, Names
<1>2. PICK o : o = Object(n, kind, refs, list)
  OBVIOUS
<1>3. o \in FileObject /\ o.id = n /\ o.kind = kind /\ o.refs = refs /\ o.kids = list
  BY <1>2, PlainObject
<1>4. BrokenPageObject = [o EXCEPT !.whole = FALSE]
  BY <1>1, <1>a, <1>2 DEF BrokenPageObject
<1>. QED  BY <1>1, <1>a, <1>3, <1>4 DEF FileObject

LEMMA NumberInSeq ==
    ASSUME NEW s \in Seq(Nat), NEW n \in Nat, NEW k \in 1 .. Len(Append(s, n))
    PROVE  Append(s, n)[k] = n \/ (k \in 1 .. Len(s) /\ Append(s, n)[k] = s[k])
<1>1. PICK t : t = Append(s, n)
  OBVIOUS
<1>2. Len(t) = Len(s) + 1 /\ t[Len(s) + 1] = n /\ \A i \in 1 .. Len(s) : t[i] = s[i]
  BY <1>1, AppendProperties
<1>3. Len(s) \in Nat
  BY LenProperties
<1>4. k \in 1 .. Len(s) \/ k = Len(s) + 1
  BY <1>1, <1>2, <1>3
<1>. QED  BY <1>1, <1>2, <1>4

\* What the two ways of writing a page have in common.
LEMMA PageOnward ==
    ASSUME PositionsFit, Shapes, NEW K \in Kinds, OneOwner(K), UNCHANGED client,
           NEW p \in PageObjects, NEW release \in BOOLEAN, AddPageToPageTree,
           Release(p, release), NEW page, NEW m \in Nat, NEW L \in Kinds, NEW V, NEW P,
           PageStands(page, K, L, m, V, P), NEW X, NEW Q, Stands(W', {}, m, X, Q),
           Extends(W, W'), X \subseteq V, TasksAreLeft(L, V, X),
           RightKind(K) => \A o \in Q : o \in Objects(W) \/ Fits(o, L, m),
           annotations' \subseteq annotations
    PROVE  Onward(K)
<1>1. PICK n, U, O :
         /\ n \in Nat \ {0} /\ n \in Nat
         /\ n = Len(registry) /\ U = Unwritten(W) /\ O = Objects(W)
         /\ Leads(W, W, n, U, O) /\ U \subseteq 1 .. n - 1 /\ NextID(W) = n
  BY LeadsFrom
<1>2. PICK t : t = TreeAfter(StartPage)
  OBVIOUS
<1>3. /\ Agree(K, L, n) /\ n \in 1 .. m - 1 /\ n <= m /\ m <= client.objects
      /\ t \in 1 .. m - 1 /\ t \in V /\ L[t] = "pages" /\ (tree # NoID => t = tree)
      /\ \A i \in V : i \in U \/ i = t
  BY <1>1, <1>2 DEF PageStands
<1>4. /\ tree' = t /\ kids' = Append(kids, n) /\ stream = NoStream /\ stream' = NoStream
      /\ UNCHANGED <<isModified, documents, client, forms, trailer, form, imageIDs, opacityIDs>>
  BY <1>1, <1>2 DEF AddPageToPageTree, KidsAfter, Idle, identity
<1>5. /\ TasksOwn(endTasks', "image", L, X) /\ TasksOwn(moreEndTasks', "gstate", L, X)
      /\ \A id \in V : L[id] \notin {"image", "gstate"} => id \in X
      /\ \A s \in Surfaces : \A id \in X : id \in TaskIDsOf(s) =>
            id \in TaskIDsOf(s)' \/ id \in lost'
      /\ lost \subseteq lost'
      /\ \A s \in Surfaces : moreEndTasks'[s] = <<>> \/ moreEndTasks'[s] = moreEndTasks[s]
  BY DEF TasksAreLeft
<1>6. OneOwner(L)'
  <2>1. TreeOwned(L, X)'
    <3>1. t \in X
      <4>1. t \in V /\ L[t] \notin {"image", "gstate"}
        BY <1>3
      <4>. QED  BY <1>5, <4>1
    <3>2. tree' = t /\ t \in X /\ L[t] = "pages"
      BY <1>3, <1>4, <3>1
    <3>. QED  BY <3>2 DEF TreeOwned
  <2>2. StreamOwns(L, X)'
    BY <1>4 DEF StreamOwns, OneOwner
  <2>3. ASSUME NEW i \in X
        PROVE  Owed(i)'
    <3>1. CASE i = t
      BY <1>4, <3>1 DEF Owed
    <3>2. CASE i \in U
      <4>1. Owed(i)
        BY <1>1, <3>2 DEF OneOwner
      <4>2. tree' = tree \/ i # tree
        <5>1. i # NoID
          BY <1>1, <3>2 DEF NoID
        <5>. QED  BY <1>3, <1>4, <5>1
      <4>3. /\ stream'.length = stream.length /\ form'.resources = form.resources
            /\ forms \subseteq forms' /\ lost \subseteq lost'
        BY <1>4, <1>5
      <4>4. \A s \in Surfaces : i \in TaskIDsOf(s) => i \in TaskIDsOf(s)' \/ i \in lost'
        BY <1>5, <2>3
      <4>. QED  BY <4>1, <4>2, <4>3, <4>4, StillOwedBySome
    <3>. QED  BY <1>3, <2>3, <3>1, <3>2
  <2>4. Len(file) \in Nat
    BY OpenWriter
  <2>5. Agree(K, L, Len(registry)) /\ Len(registry) <= m /\ Len(registry) \in Nat
    BY <1>1, <1>3
  <2>. QED  BY <1>3, <1>4, <1>5, <2>1, <2>2, <2>3, <2>4, <2>5, OwnersStep
<1>7. ASSUME RightKind(K)
      PROVE  RightKind(L)'
  <2>1. \A q \in PageObjects : pages'[q] = pages[q] \/ PageFits(pages'[q], L, m)
    <3>1. PageFits(NewPDFPage, L, m)
      <4>1. ToSet(<<>>) = {}
        BY DEF ToSet
      <4>. QED  BY <4>1 DEF PageFits, SurfaceFits, Used, NewPDFPage
    <3>2. CASE release
      <4>1. pages' = [pages EXCEPT ![p] = NewPDFPage]
        BY <3>2 DEF Release
      <4>2. \A q \in PageObjects : pages'[q] = pages[q] \/ (q = p /\ pages'[q] = NewPDFPage)
        BY <4>1, OnePage
      <4>. QED  BY <3>1, <4>2
    <3>3. CASE ~release
      BY <3>3 DEF Release
    <3>. QED  BY <3>2, <3>3
  <2>2. \A k \in 1 .. Len(kids') : kids'[k] \in 1 .. m - 1
    <3>1. PICK s \in Seq(Nat) : s = kids
      BY DEF Shapes
    <3>2. \A k \in 1 .. Len(s) : s[k] \in 1 .. n - 1
      BY <1>1, <1>7, <3>1 DEF RightKind
    <3>3. \A i \in 1 .. n - 1 : i \in 1 .. m - 1
      BY <1>1, <1>3
    <3>4. kids' = Append(s, n) /\ n \in Nat
      BY <1>1, <1>4, <3>1
    <3>. QED  BY <1>3, <3>2, <3>3, <3>4, NumberInSeq
  <2>3. isModified => 3 <= n
    BY <1>1, OpenWriter, ModifiedHasObjects DEF OneOwner
  <2>4. /\ Agree(K, L, Len(registry)) /\ Stands(W, {}, Len(registry), U, O)
        /\ Len(registry) <= m /\ Len(registry) \in Nat \ {0}
        /\ (isModified => 3 <= Len(registry))
    BY <1>1, <1>3, <2>3 DEF Leads
  <2>5. /\ UNCHANGED <<isModified, documents, client>>
        /\ trailer'.root = trailer.root /\ form' = form
        /\ \A id \in annotations' : id \in annotations
        /\ \A i \in Images : imageIDs'[i] = imageIDs[i]
        /\ \A i \in Opacities : opacityIDs'[i] = opacityIDs[i]
    BY <1>4
  <2>6. \A o \in Q : o \in O \/ Fits(o, L, m)
    BY <1>1, <1>7
  <2>. QED  BY <1>7, <2>1, <2>2, <2>4, <2>5, <2>6, RightStep
<1>. QED  BY <1>6, <1>7 DEF Onward

LEMMA BrokenPageOnward ==
    ASSUME PositionsFit, Shapes, Shapes', NEW K \in Kinds, OneOwner(K), UNCHANGED client,
           NEW p \in PageObjects, NEW release \in BOOLEAN,
           WritePageFailsOnResources(p, release)
    PROVE  Onward(K)
<1>1. PICK n : n \in Nat /\ NextID(W) = n
  BY LeadsFrom
<1>2. TreeAfter(StartPage) \in Nat
  BY DEF WritePageFailsOnResources, AddPageToPageTree, Shapes
<1>3. PICK page : page = BrokenPageObject
  OBVIOUS
<1>4. /\ page \in FileObject /\ page.id = n /\ page.kind = "page" /\ page.kids = <<>>
      /\ page.refs = Refs("Parent", {TreeAfter(StartPage)})
  BY <1>1, <1>2, <1>3, BrokenPage
<1>5. PICK m \in Nat, L \in Kinds : \E V, P : PageStands(page, K, L, m, V, P)
  <2>1. HasRoomFor(2)
    BY DEF WritePageFailsOnResources, AddPageToPageTree
  <2>. QED  BY <1>1, <1>4, <2>1, PageAdded
<1>6. PICK V, P : PageStands(page, K, L, m, V, P)
  BY <1>5
<1>7. Stands(W', {}, m, V, P) /\ Extends(W, W')
  <2>1. PICK v : v = WriteAt(PageStarted, page)
    OBVIOUS
  <2>2. Leads(W, v, m, V, P)
    BY <1>6, <2>1 DEF PageStands
  <2>3. Become(v)
    BY <1>3, <2>1 DEF WritePageFailsOnResources
  <2>. QED  BY <2>2, <2>3, LeadsTo
<1>8. TasksAreLeft(L, V, V)
  <2>1. UNCHANGED <<endTasks, moreEndTasks, lost>>
    BY DEF WritePageFailsOnResources
  <2>2. TasksOwn(endTasks, "image", L, V) /\ TasksOwn(moreEndTasks, "gstate", L, V)
    <3>1. /\ Agree(K, L, Len(registry)) /\ Unwritten(W) \subseteq V
      BY <1>6 DEF PageStands
    <3>2. Unwritten(W) \subseteq 1 .. Len(registry) - 1
      BY OpenWriter
    <3>. QED  BY <3>1, <3>2, AllStillOwned
  <2>3. \A s : TaskIDsOf(s)' = TaskIDsOf(s)
    BY <2>1, TaskIDsPrimed DEF TaskIDsOf
  <2>. QED  BY <2>1, <2>2, <2>3 DEF TasksAreLeft
<1>9. \A o \in P : o \in Objects(W) \/ Fits(o, L, m)
  <2>1. /\ P = Objects(W) \cup {page} /\ NextID(W) = Len(registry)
        /\ TreeAfter(StartPage) \in 1 .. m - 1 /\ L[TreeAfter(StartPage)] = "pages"
        /\ L[Len(registry)] = "page"
    BY <1>6, OpenWriter DEF PageStands
  <2>2. PICK t \in Nat : t = TreeAfter(StartPage)
    BY <1>2
  <2>3. t \in 1 .. m - 1 /\ L[t] \in KindsFor("Parent")
    BY <2>1, <2>2, Roles
  <2>4. RefsFit(Refs("Parent", {t}), L, m)
    BY <2>3, OneRef, Names
  <2>5. Fits(page, L, m)
    <3>1. page.kind = L[page.id] /\ page.kids = <<>> /\ RefsFit(page.refs, L, m)
      BY <1>1, <1>4, <2>1, <2>2, <2>4
    <3>. QED  BY <3>1, ObjectFits
  <2>. QED  BY <2>1, <2>5
<1>10. /\ AddPageToPageTree /\ Release(p, release) /\ annotations' \subseteq annotations
       /\ V \subseteq V
  BY DEF WritePageFailsOnResources
<1>. QED  BY <1>6, <1>7, <1>8, <1>9, <1>10, PageOnward

LEMMA WritePageOnward ==
    ASSUME PositionsFit, Shapes, Shapes', NEW K \in Kinds, OneOwner(K), UNCHANGED client,
           NEW p \in PageObjects, NEW release \in BOOLEAN, NEW q \in 0 .. Len(endTasks[p]),
           WritePage(p, q, release)
    PROVE  Onward(K)
<1>1. PICK n : n \in Nat /\ NextID(W) = n
  BY LeadsFrom
<1>2. TreeAfter(StartPage) \in Nat
  BY DEF WritePage, AddPageToPageTree, Shapes
<1>3. PICK page : page = PageObject(p)
  OBVIOUS
<1>4. /\ page \in FileObject /\ page.id = n /\ page.kind = "page" /\ page.kids = <<>>
      /\ page.refs = Refs("Parent", {TreeAfter(StartPage)})
                         \cup Refs("XObject", pages[p].xobjects)
                         \cup Refs("ExtGState", pages[p].gstates)
                         \cup Refs("Annots", annotations)
                         \cup Refs("Contents", ToSet(pages[p].contents))
      /\ pages[p].xobjects \subseteq Nat /\ pages[p].gstates \subseteq Nat
      /\ annotations \subseteq Nat /\ ToSet(pages[p].contents) \subseteq Nat
  BY <1>1, <1>2, <1>3, PageObjectIs
<1>5. PICK m \in Nat, L \in Kinds : \E V, P : PageStands(page, K, L, m, V, P)
  <2>1. HasRoomFor(2)
    BY DEF WritePage, AddPageToPageTree
  <2>. QED  BY <1>1, <1>4, <2>1, PageAdded
<1>6. PICK V, P : PageStands(page, K, L, m, V, P)
  BY <1>5
<1>7. p \in Surfaces
  BY DEF Surfaces
<1>8. TasksOwn(endTasks, "image", L, V) /\ TasksOwn(moreEndTasks, "gstate", L, V)
  <2>1. Agree(K, L, Len(registry)) /\ Unwritten(W) \subseteq V
    BY <1>6 DEF PageStands
  <2>2. Unwritten(W) \subseteq 1 .. Len(registry) - 1
    BY OpenWriter
  <2>. QED  BY <2>1, <2>2, AllStillOwned
<1>9. PICK X, Q : X = V \ Ran(p, q) /\ Q = P \cup WrittenByTasks(p, q)
  OBVIOUS
<1>10. Stands(W', {}, m, X, Q) /\ Extends(W, W')
  <2>1. PICK v, w : v = WriteAt(PageStarted, page) /\ w = TasksWritten(v, p, q)
    OBVIOUS
  <2>2. Leads(W, v, m, V, P) /\ m <= MaxWritePosition
    BY <1>6, <2>1 DEF PageStands
  <2>3. Leads(W, w, m, X, Q)
    BY <1>7, <1>8, <1>9, <2>1, <2>2, SurfaceTasks
  <2>4. Become(w)
    BY <1>3, <2>1 DEF WritePage
  <2>. QED  BY <2>3, <2>4, LeadsTo
<1>11. TasksAreLeft(L, V, X)
  <2>1. RunTasks(p, q)
    BY DEF WritePage
  <2>. QED  BY <1>7, <1>8, <1>9, <2>1, TasksLeft
<1>12. ASSUME RightKind(K)
       PROVE  \A o \in Q : o \in Objects(W) \/ Fits(o, L, m)
  <2>1. PICK j \in Nat : j = Len(registry)
    BY OpenWriter
  <2>2. /\ P = Objects(W) \cup {page} /\ NextID(W) = j /\ Agree(K, L, j) /\ j <= m
        /\ TreeAfter(StartPage) \in 1 .. m - 1 /\ L[TreeAfter(StartPage)] = "pages"
        /\ L[j] = "page"
    BY <1>6, <2>1, OpenWriter DEF PageStands
  <2>3. PICK t \in Nat : t = TreeAfter(StartPage)
    BY <1>2
  <2>4. t \in 1 .. m - 1 /\ L[t] \in KindsFor("Parent")
    BY <2>2, <2>3, Roles
  <2>5. RefsFit(Refs("Parent", {t}), L, m)
    BY <2>4, OneRef, Names
  <2>6. /\ PageFits(pages[p], L, m) /\ Used(annotations, {"annotation"}, L, m)
    <3>1. \A o \in PageObjects : PageFits(pages[o], L, m)
      BY <1>12, <2>1, <2>2, FitStill
    <3>2. Used(annotations, {"annotation"}, K, j)
      BY <1>12, <2>1 DEF RightKind
    <3>. QED  BY <2>2, <3>1, <3>2, UsedKept
  <2>7. RefsFit(Refs("XObject", pages[p].xobjects), L, m)
    <3>1. Used(pages[p].xobjects, KindsFor("XObject"), L, m)
      BY <2>6, Roles DEF PageFits, SurfaceFits
    <3>. QED  BY <1>4, <3>1, RefsFitUsed, Names
  <2>8. RefsFit(Refs("ExtGState", pages[p].gstates), L, m)
    <3>1. Used(pages[p].gstates, KindsFor("ExtGState"), L, m)
      BY <2>6, Roles DEF PageFits, SurfaceFits
    <3>. QED  BY <1>4, <3>1, RefsFitUsed, Names
  <2>9. RefsFit(Refs("Annots", annotations), L, m)
    <3>1. Used(annotations, KindsFor("Annots"), L, m)
      BY <2>6, Roles
    <3>. QED  BY <1>4, <3>1, RefsFitUsed, Names
  <2>10. RefsFit(Refs("Contents", ToSet(pages[p].contents)), L, m)
    <3>1. Used(ToSet(pages[p].contents), KindsFor("Contents"), L, m)
      BY <2>6, Roles DEF PageFits
    <3>. QED  BY <1>4, <3>1, RefsFitUsed, Names
  <2>11. Fits(page, L, m)
    <3>1. RefsFit(page.refs, L, m)
      BY <1>4, <2>3, <2>5, <2>7, <2>8, <2>9, <2>10 DEF RefsFit
    <3>2. page.kind = L[page.id] /\ page.kids = <<>>
      BY <1>1, <1>4, <2>2
    <3>. QED  BY <3>1, <3>2, ObjectFits
  <2>12. \A o \in WrittenByTasks(p, q) : Fits(o, L, m)
    BY <1>7, <1>8, TaskObjectsFit
  <2>. QED  BY <1>9, <2>2, <2>11, <2>12
<1>13. /\ AddPageToPageTree /\ Release(p, release) /\ annotations' \subseteq annotations
       /\ X \subseteq V
  BY <1>9 DEF WritePage, AnnotationsAfterPage
<1>. QED  BY <1>6, <1>10, <1>11, <1>12, <1>13, PageOnward

\* What an entry of the state file keeps.
LEMMA SavedEntry ==
    ASSUME NEW e \in ObjectWriteInformation, NEW s, s = Saved(e)
    PROVE  /\ s \in ObjectWriteInformation
           /\ s.type = e.type /\ s.written = e.written /\ s.dirty = e.dirty
           /\ e.written => s.position = e.position
<1>1. PICK position \in Nat \cup {Undefined} :
         position = IF e.written THEN e.position ELSE Undefined
  BY DEF ObjectWriteInformation
<1>2. s = [e EXCEPT !.position = position]
  BY <1>1 DEF Saved
<1>. QED  BY <1>1, <1>2 DEF ObjectWriteInformation

\* A restart changes nothing of what the registry says of the file.
LEMMA RestartStands ==
    ASSUME NEW w, NEW m, NEW U, NEW O, Stands(w, {}, m, U, O), NEW v, v \in Writers,
           v.file = w.file, v.registry = WriteAndReadState(w.registry)
    PROVE  Stands(v, {}, m, U, O) /\ Extends(w, v)
<1>1. w \in Writers /\ Sound(w, {}) /\ m = Len(w.registry) /\ m \in Nat \ {0}
  BY DEF Stands, Sound
<1>2. PICK r \in Seq(ObjectWriteInformation), f \in Seq(FileObject) :
         r = w.registry /\ f = w.file
  BY <1>1, WriterParts
<1>3. PICK q \in Seq(ObjectWriteInformation) : q = v.registry
  BY WriterParts
<1>4. Len(q) = m /\ \A k \in 1 .. m : q[k] = Saved(r[k])
  BY <1>1, <1>2, <1>3 DEF WriteAndReadState
<1>5. \A k \in 1 .. m : r[k] \in ObjectWriteInformation
  BY <1>1, <1>2, ElementOfSeq
<1>6. \A k \in 1 .. m : /\ q[k].type = r[k].type /\ q[k].written = r[k].written
                        /\ q[k].dirty = r[k].dirty
                        /\ r[k].written => q[k].position = r[k].position
  BY <1>4, <1>5, SavedEntry
<1>7. 1 \in 1 .. m /\ \A i \in 1 .. m - 1 : i + 1 \in 1 .. m
  BY <1>1
<1>8. \A i \in 1 .. m - 1 : EntryIsRight(v, i)
  <2>. SUFFICES ASSUME NEW i \in 1 .. m - 1
                PROVE  EntryIsRight(v, i)
    OBVIOUS
  <2>1. EntryIsRight(w, i)
    BY <1>1 DEF Sound
  <2>2. /\ r[i + 1].type = "Used" /\ (r[i + 1].written \/ r[i + 1].dirty)
        /\ r[i + 1].written => /\ r[i + 1].position + 1 \in 1 .. Len(f)
                                /\ f[r[i + 1].position + 1].id = i
    BY <1>2, <2>1 DEF EntryIsRight
  <2>3. /\ q[i + 1].type = r[i + 1].type /\ q[i + 1].written = r[i + 1].written
        /\ q[i + 1].dirty = r[i + 1].dirty
        /\ r[i + 1].written => q[i + 1].position = r[i + 1].position
    BY <1>6, <1>7
  <2>. QED  BY <1>2, <1>3, <2>2, <2>3 DEF EntryIsRight
<1>9. \A k \in 1 .. Len(v.file) : ObjectIsKnown(v, k)
  <2>1. \A k \in 1 .. Len(f) : f[k].id \in 1 .. m - 1 /\ r[f[k].id + 1].written
    BY <1>1, <1>2 DEF Sound, ObjectIsKnown
  <2>. QED  BY <1>2, <1>3, <1>4, <1>6, <1>7, <2>1 DEF ObjectIsKnown
<1>10. Sound(v, {})
  BY <1>1, <1>2, <1>3, <1>4, <1>6, <1>7, <1>8, <1>9 DEF Sound
<1>11. Unwritten(v) = U /\ Clean(v) = Clean(w)
  BY <1>1, <1>2, <1>3, <1>4, <1>6, <1>7 DEF Unwritten, Clean, Stands
<1>12. Objects(v) = O
  BY DEF Objects, Stands
<1>13. Extends(w, v)
  BY <1>1, <1>2, <1>11, LenProperties DEF Extends
<1>. QED  BY <1>3, <1>4, <1>10, <1>11, <1>12, <1>13 DEF Stands

LEMMA RestartedRegistry ==
    ASSUME NEW r \in Seq(ObjectWriteInformation)
    PROVE  WriteAndReadState(r) \in Seq(ObjectWriteInformation)
<1>1. Len(r) \in Nat /\ \A k \in 1 .. Len(r) : r[k] \in ObjectWriteInformation
  BY LenProperties, ElementOfSeq
<1>2. \A k \in 1 .. Len(r) : Saved(r[k]) \in ObjectWriteInformation
  BY <1>1, SavedEntry
<1>3. [k \in 1 .. Len(r) |-> Saved(r[k])] \in Seq(ObjectWriteInformation)
  BY <1>1, <1>2, IsASeq
<1>. QED  BY <1>3 DEF WriteAndReadState

LEMMA RestartOnward ==
    ASSUME PositionsFit, Shapes, Shapes', NEW K \in Kinds, OneOwner(K), UNCHANGED client,
           ShutdownAndContinue
    PROVE  Onward(K)
<1>1. PICK n, U, O : n = Len(registry) /\ U = Unwritten(W) /\ O = Objects(W)
  OBVIOUS
<1>2. /\ Stands(W, {}, n, U, O) /\ W \in Writers /\ n \in Nat \ {0} /\ Len(file) \in Nat
      /\ Len(file) <= n - 1 /\ U \subseteq 1 .. n - 1 /\ file \in Seq(FileObject)
      /\ registry \in Seq(ObjectWriteInformation) /\ W.registry = registry /\ W.file = file
  BY <1>1, OpenWriter
<1>3. /\ registry' = WriteAndReadState(registry) /\ stream = NoStream /\ annotations' = {}
      /\ pages' = [p \in PageObjects |-> NewPDFPage]
      /\ imageIDs' = [i \in Images |-> NoID] /\ opacityIDs' = [a \in Opacities |-> NoID]
      /\ endTasks' = [s \in Surfaces |-> <<>>] /\ moreEndTasks' = [s \in Surfaces |-> <<>>]
      /\ lost' = lost \cup UNION {TaskIDs(endTasks[s]) \cup TaskIDs(moreEndTasks[s]) :
                                    s \in Surfaces}
      /\ UNCHANGED <<file, tree, kids, form, stream, isModified, documents, client, forms>>
  BY DEF ShutdownAndContinue, Idle, identity
<1>4. trailer'.root = trailer.root
  BY DEF ShutdownAndContinue, ReadTrailerState
<1>5. Stands(W', {}, n, U, O) /\ Extends(W, W')
  <2>1. PICK v : v = [registry |-> WriteAndReadState(registry), file |-> file]
    OBVIOUS
  <2>2. v.registry = WriteAndReadState(registry) /\ v.file = file
    BY <2>1
  <2>3. v \in Writers
    BY <1>2, <2>1, RestartedRegistry DEF Writers
  <2>4. W' = v
    BY <1>3, <2>1 DEF W
  <2>. QED  BY <1>2, <2>2, <2>3, <2>4, RestartStands
<1>6. Agree(K, K, n) /\ n \in Nat /\ n <= n
  BY <1>2, SameKinds
<1>7. OneOwner(K)'
  <2>1. TreeOwned(K, U)' /\ StreamOwns(K, U)'
    BY <1>1, <1>3 DEF OneOwner, TreeOwned, StreamOwns
  <2>2. TasksOwn(endTasks', "image", K, U) /\ TasksOwn(moreEndTasks', "gstate", K, U)
    BY <1>3, NoTasksOwn
  <2>3. ASSUME NEW id \in U
        PROVE  Owed(id)'
    <3>1. Owed(id)
      BY <1>1 DEF OneOwner
    <3>2. \A s \in Surfaces : id \in TaskIDsOf(s) => id \in lost'
      BY <1>3 DEF TaskIDsOf
    <3>3. lost \subseteq lost' /\ forms \subseteq forms'
      BY <1>3
    <3>4. tree' = tree /\ stream'.length = stream.length /\ form'.resources = form.resources
      BY <1>3
    <3>. QED  BY <3>1, <3>2, <3>3, <3>4, StillOwedBySome
  <2>4. \A id \in forms' : id \in forms
    BY <1>3
  <2>5. \A s \in Surfaces : moreEndTasks'[s] = <<>>
    BY <1>3
  <2>. QED  BY <1>1, <1>2, <1>3, <1>5, <1>6, <2>1, <2>2, <2>3, <2>4, <2>5, OwnersStep
<1>8. ASSUME RightKind(K)
      PROVE  RightKind(K)'
  <2>1. isModified => 3 <= n
    BY <1>1, <1>2, ModifiedHasObjects DEF OneOwner
  <2>2. \A k \in 1 .. Len(kids') : kids'[k] \in 1 .. n - 1
    BY <1>1, <1>3, <1>8 DEF RightKind
  <2>3. \A p \in PageObjects : PageFits(pages'[p], K, n)
    <3>1. ToSet(<<>>) = {}
      BY DEF ToSet
    <3>. QED  BY <1>3, <3>1 DEF PageFits, SurfaceFits, Used, NewPDFPage
  <2>4. /\ \A i \in Images : imageIDs'[i] = NoID
        /\ \A a \in Opacities : opacityIDs'[a] = NoID
        /\ \A id \in annotations' : id \in annotations
        /\ form' = form
        /\ UNCHANGED <<isModified, documents, client>>
    BY <1>3
  <2>5. /\ Agree(K, K, Len(registry)) /\ Stands(W, {}, Len(registry), U, O)
        /\ Stands(W', {}, n, U, O) /\ Extends(W, W')
        /\ Len(registry) <= n /\ Len(registry) \in Nat \ {0}
        /\ (isModified => 3 <= Len(registry))
    BY <1>1, <1>2, <1>5, <1>6, <2>1
  <2>6. \A object \in O : object \in O \/ Fits(object, K, n)
    OBVIOUS
  <2>. QED  BY <1>4, <1>6, <1>8, <2>2, <2>3, <2>4, <2>5, <2>6, RightStep
<1>. QED  BY <1>7, <1>8 DEF Onward

-----------------------------------------------------------------------------
(***************************************************************************)
(* The end of a document.  The root of the modified file's tree is written *)
(* again.                                                                  *)
(***************************************************************************)
LEMMA MarkedAsUpdated ==
    ASSUME NEW r \in Seq(ObjectWriteInformation), NEW id \in 1 .. Len(r) - 1,
           NEW position \in Nat, position <= MaxWritePosition
    PROVE  \E entry \in ObjectWriteInformation :
              /\ entry.type = "Used" /\ entry.written = r[id + 1].written /\ entry.dirty
              /\ entry.position = position
              /\ Entry(r, id, entry, MarkObjectAsUpdated(r, id, position))
<1>1. Len(r) \in Nat /\ id + 1 \in 1 .. Len(r) /\ id < Len(r)
  BY LenProperties
<1>2. PICK old \in ObjectWriteInformation : old = r[id + 1]
  BY <1>1, ElementOfSeq
<1>3. PICK entry : entry = [[[old EXCEPT !.dirty = TRUE] EXCEPT !.position = position]
                               EXCEPT !.type = "Used"]
  OBVIOUS
<1>4. /\ entry \in ObjectWriteInformation
      /\ entry.type = "Used" /\ entry.written = old.written /\ entry.dirty
      /\ entry.position = position
  BY <1>3 DEF ObjectWriteInformation, ReferenceTypes
<1>5. MarkObjectAsUpdated(r, id, position) = [r EXCEPT ![id + 1] = entry]
  BY <1>1, <1>2, <1>3 DEF MarkObjectAsUpdated, CanMarkAsUpdated
<1>6. Entry(r, id, entry, [r EXCEPT ![id + 1] = entry])
  BY <1>1, <1>4, ExceptSeq DEF Entry
<1>. QED  BY <1>2, <1>4, <1>5, <1>6

LEMMA WriteModifiedStands ==
    ASSUME NEW w, NEW again, NEW m, NEW U, NEW O, Stands(w, again, m, U, O),
           NEW object \in FileObject, object.id \in again, object.id \in 1 .. m - 1,
           object.id \notin U, Len(w.file) <= MaxWritePosition
    PROVE  /\ Stands(WriteModified(w, object), again, m, U, O \cup {object})
           /\ Extends(w, WriteModified(w, object))
           /\ Len(WriteModified(w, object).file) = Len(w.file) + 1
<1>1. w \in Writers /\ Sound(w, again)
  BY DEF Stands, Sound
<1>2. PICK r \in Seq(ObjectWriteInformation), f \in Seq(FileObject) :
         r = w.registry /\ f = w.file
  BY <1>1, WriterParts
<1>3. PICK id : id = object.id
  OBVIOUS
<1>4. id \in 1 .. Len(r) - 1 /\ r[id + 1].written /\ id \in again
  BY <1>2, <1>3 DEF Stands, Unwritten
<1>5. Len(f) \in Nat /\ Len(f) <= MaxWritePosition
  BY <1>2, LenProperties
<1>6. PICK q : q = MarkObjectAsUpdated(r, id, Len(f))
  OBVIOUS
<1>7. PICK entry \in ObjectWriteInformation :
         /\ entry.type = "Used" /\ entry.written /\ entry.dirty
         /\ entry.position = Len(f) /\ Entry(r, id, entry, q)
  BY <1>4, <1>5, <1>6, MarkedAsUpdated
<1>8. PICK g : g = Append(f, object)
  OBVIOUS
<1>9. PICK v : v = WriteModified(w, object)
  OBVIOUS
<1>10. v.registry = q /\ v.file = g /\ v \in Writers
  <2>1. v = [registry |-> q, file |-> g]
    BY <1>2, <1>3, <1>6, <1>8, <1>9 DEF WriteModified
  <2>2. q \in Seq(ObjectWriteInformation) /\ g \in Seq(FileObject)
    BY <1>7, <1>8, ObjectAppended DEF Entry
  <2>. QED  BY <2>1, <2>2 DEF Writers
<1>11. /\ Len(g) = Len(f) + 1 /\ Len(f) + 1 \in 1 .. Len(g) /\ g[Len(f) + 1] = object
       /\ \A k \in 1 .. Len(f) : k \in 1 .. Len(g) /\ k # Len(f) + 1 /\ g[k] = f[k]
       /\ \A k \in 1 .. Len(g) : k \in 1 .. Len(f) \/ k = Len(f) + 1
       /\ {g[k] : k \in 1 .. Len(g)} = {f[k] : k \in 1 .. Len(f)} \cup {object}
  BY <1>8, ObjectAppended
<1>12. /\ Len(q) = Len(r) /\ Len(r) \in Nat /\ q[id + 1] = entry
       /\ \A i \in 1 .. Len(r) - 1 : i # id => i + 1 \in 1 .. Len(r) /\ q[i + 1] = r[i + 1]
       /\ q[1] = r[1]
  <2>1. Len(q) = Len(r) /\ q[id + 1] = entry
    BY <1>7 DEF Entry
  <2>2. Len(r) \in Nat
    BY LenProperties
  <2>3. /\ \A i \in 1 .. Len(r) - 1 : i + 1 \in 1 .. Len(r) /\ (i # id => i + 1 # id + 1)
        /\ 1 \in 1 .. Len(r) /\ 1 # id + 1
    BY <1>4, <2>2
  <2>. QED  BY <1>7, <2>1, <2>2, <2>3 DEF Entry
<1>13. /\ \A i \in 1 .. Len(r) - 1 :
             /\ r[i + 1].type = "Used" /\ (r[i + 1].written \/ r[i + 1].dirty)
             /\ r[i + 1].written => /\ r[i + 1].position + 1 \in 1 .. Len(f)
                                     /\ f[r[i + 1].position + 1].id = i
       /\ \A k \in 1 .. Len(f) : f[k].id \in 1 .. Len(r) - 1 /\ r[f[k].id + 1].written
       /\ \A j, k \in 1 .. Len(f) : f[j].id = f[k].id => j = k \/ f[j].id \in again
       /\ Len(r) \in Nat \ {0} /\ r[1].type = "Free" /\ ~r[1].written
  BY <1>1, <1>2 DEF Sound, EntryIsRight, ObjectIsKnown, Once
<1>14. \A i \in 1 .. Len(q) - 1 : EntryIsRight(v, i)
  <2>. SUFFICES ASSUME NEW i \in 1 .. Len(q) - 1
                PROVE  EntryIsRight(v, i)
    OBVIOUS
  <2>1. CASE i = id
    BY <1>3, <1>4, <1>7, <1>10, <1>11, <1>12, <1>13, <2>1 DEF EntryIsRight
  <2>2. CASE i # id
    <3>1. i \in 1 .. Len(r) - 1 /\ q[i + 1] = r[i + 1]
      BY <1>12, <2>2
    <3>2. /\ r[i + 1].type = "Used" /\ (r[i + 1].written \/ r[i + 1].dirty)
          /\ r[i + 1].written => /\ r[i + 1].position + 1 \in 1 .. Len(f)
                                  /\ f[r[i + 1].position + 1].id = i
      BY <1>13, <3>1
    <3>3. r[i + 1].written => /\ r[i + 1].position + 1 \in 1 .. Len(g)
                              /\ g[r[i + 1].position + 1].id = i
      BY <1>11, <3>2
    <3>. QED  BY <1>10, <3>1, <3>2, <3>3 DEF EntryIsRight
  <2>. QED  BY <2>1, <2>2
<1>15. \A k \in 1 .. Len(g) : ObjectIsKnown(v, k)
  <2>. SUFFICES ASSUME NEW k \in 1 .. Len(g)
                PROVE  ObjectIsKnown(v, k)
    OBVIOUS
  <2>1. CASE k = Len(f) + 1
    BY <1>3, <1>4, <1>7, <1>10, <1>11, <1>12, <2>1 DEF ObjectIsKnown
  <2>2. CASE k \in 1 .. Len(f)
    <3>1. PICK i \in 1 .. Len(r) - 1 : i = f[k].id
      BY <1>13, <2>2
    <3>2. g[k].id = i /\ r[i + 1].written
      BY <1>11, <1>13, <2>2, <3>1
    <3>3. q[i + 1].written
      BY <1>7, <1>12, <3>1, <3>2
    <3>. QED  BY <1>10, <1>12, <3>1, <3>2, <3>3 DEF ObjectIsKnown
  <2>. QED  BY <1>11, <2>1, <2>2
<1>16. Once(g, again)
  <2>. SUFFICES ASSUME NEW j \in 1 .. Len(g), NEW k \in 1 .. Len(g), g[j].id = g[k].id
                PROVE  j = k \/ g[j].id \in again
    BY DEF Once
  <2>1. CASE j \in 1 .. Len(f) /\ k \in 1 .. Len(f)
    BY <1>11, <1>13, <2>1
  <2>2. CASE j \notin 1 .. Len(f)
    BY <1>3, <1>4, <1>11, <2>2
  <2>3. CASE k \notin 1 .. Len(f)
    BY <1>3, <1>4, <1>11, <2>3
  <2>. QED  BY <2>1, <2>2, <2>3
<1>17. Sound(v, again) /\ Len(v.registry) = m
  BY <1>2, <1>10, <1>12, <1>13, <1>14, <1>15, <1>16 DEF Sound, Stands
<1>18. Unwritten(v) = U
  <2>1. U = {i \in 1 .. Len(r) - 1 : ~r[i + 1].written}
    BY <1>2 DEF Stands, Unwritten
  <2>2. Unwritten(v) = {i \in 1 .. Len(r) - 1 : ~q[i + 1].written}
    BY <1>10, <1>12 DEF Unwritten
  <2>3. \A i \in 1 .. Len(r) - 1 : i # id => q[i + 1] = r[i + 1]
    BY <1>12
  <2>. QED  BY <1>4, <1>7, <1>12, <2>1, <2>2, <2>3
<1>19. Objects(v) = O \cup {object}
  <2>1. Objects(v) = {g[k] : k \in 1 .. Len(g)}
    BY <1>10 DEF Objects
  <2>2. O = {f[k] : k \in 1 .. Len(f)}
    BY <1>2 DEF Objects, Stands
  <2>. QED  BY <1>11, <2>1, <2>2
<1>20. Extends(w, v)
  <2>1. Clean(v) \subseteq Clean(w)
    <3>1. Clean(w) = {i \in 1 .. Len(r) - 1 : ~r[i + 1].dirty}
      BY <1>2 DEF Clean
    <3>2. Clean(v) = {i \in 1 .. Len(r) - 1 : ~q[i + 1].dirty}
      BY <1>10, <1>12 DEF Clean
    <3>. QED  BY <1>7, <1>12, <3>1, <3>2
  <2>2. Len(g) \in Nat /\ Len(f) <= Len(g)
    BY <1>5, <1>11
  <2>. QED  BY <1>2, <1>10, <1>11, <2>1, <2>2 DEF Extends
<1>. QED  BY <1>2, <1>9, <1>10, <1>11, <1>17, <1>18, <1>19, <1>20 DEF Stands

\* A writer at the end of the document, with a file of n objects at most.
Again == IF isModified THEN {2} ELSE {}

Ends(w, K, m, n, U) ==
    /\ Stands(w, Again, m, U, Objects(w)) /\ m \in Nat \ {0} /\ n \in Nat
    /\ Len(w.file) \in Nat /\ Len(w.file) <= n /\ Extends(W, w)
    /\ W \in Writers /\ K \in Kinds
    /\ ImagesOnce => \A o \in Objects(w) : Fits(o, K, m)

LEMMA EndBegins ==
    ASSUME PositionsFit, Shapes, NEW K \in Kinds, OneOwner(K), ImagesOnce => RightKind(K)
    PROVE  Ends(W, K, Len(registry), Len(file), Unwritten(W))
<1>1. /\ Stands(W, {}, Len(registry), Unwritten(W), Objects(W))
      /\ W \in Writers /\ W.file = file /\ Len(registry) \in Nat \ {0} /\ Len(file) \in Nat
  BY OpenWriter
<1>2. Stands(W, Again, Len(registry), Unwritten(W), Objects(W))
  BY <1>1 DEF Stands, Sound, Once
<1>3. Extends(W, W)
  BY <1>1, ExtendsItself
<1>. QED  BY <1>1, <1>2, <1>3 DEF Ends, RightKind

LEMMA EndFitsKept ==
    ASSUME NEW w, NEW K, NEW m, NEW n, NEW U, Ends(w, K, m, n, U), ImagesOnce,
           NEW L, Agree(K, L, m), NEW l \in Nat, m <= l
    PROVE  \A o \in Objects(w) : Fits(o, L, l)
<1>1. m \in Nat /\ \A o \in Objects(w) : Fits(o, K, m)
  BY DEF Ends
<1>2. \A o \in Objects(w) : o.id \in 1 .. m - 1
  BY DEF Ends, Stands, Sound, ObjectIsKnown, Objects
<1>. QED  BY <1>1, <1>2, FitsKept

LEMMA EndWrites ==
    ASSUME NEW w, NEW K, NEW m, NEW n, NEW U, Ends(w, K, m, n, U), n <= MaxWritePosition,
           NEW o \in FileObject, NEW id \in U, o.id = id, ImagesOnce => Fits(o, K, m),
           NEW v, v = WriteAt(w, o), NEW l, l = n + 1, NEW V, V = U \ {id}
    PROVE  Ends(v, K, m, l, V)
<1>1. /\ Stands(w, Again, m, U, Objects(w)) /\ Len(w.file) \in Nat /\ Len(w.file) <= n
      /\ n \in Nat /\ Extends(W, w) /\ W \in Writers /\ m \in Nat \ {0} /\ K \in Kinds
  BY DEF Ends
<1>2. Len(w.file) <= MaxWritePosition
  BY <1>1, RegistryAssumption
<1>3. /\ Stands(v, Again, m, V, Objects(w) \cup {o}) /\ Extends(w, v)
      /\ Len(v.file) = Len(w.file) + 1
  <2>1. /\ Stands(WriteAt(w, o), Again, m, U \ {o.id}, Objects(w) \cup {o})
        /\ Extends(w, WriteAt(w, o)) /\ Len(WriteAt(w, o).file) = Len(w.file) + 1
    BY <1>1, <1>2, WriteAtStands
  <2>. QED  BY <2>1
<1>4. Objects(v) = Objects(w) \cup {o} /\ w \in Writers /\ v \in Writers
  BY <1>1, <1>3 DEF Stands, Sound
<1>5. Extends(W, v)
  BY <1>1, <1>3, <1>4, ExtendsTwice
<1>6. Len(v.file) \in Nat /\ Len(v.file) <= l /\ l \in Nat
  BY <1>1, <1>3
<1>7. ImagesOnce => \A x \in Objects(v) : Fits(x, K, m)
  BY <1>4 DEF Ends
<1>. QED  BY <1>1, <1>3, <1>4, <1>5, <1>6, <1>7 DEF Ends

LEMMA EndModifies ==
    ASSUME NEW w, NEW K, NEW m, NEW n, NEW U, Ends(w, K, m, n, U), n <= MaxWritePosition,
           NEW o \in FileObject, NEW id \in 1 .. m - 1, o.id = id, id \notin U, id \in Again,
           ImagesOnce => Fits(o, K, m), NEW v, v = WriteModified(w, o), NEW l, l = n + 1
    PROVE  Ends(v, K, m, l, U)
<1>1. /\ Stands(w, Again, m, U, Objects(w)) /\ Len(w.file) \in Nat /\ Len(w.file) <= n
      /\ n \in Nat /\ Extends(W, w) /\ W \in Writers /\ m \in Nat \ {0} /\ K \in Kinds
  BY DEF Ends
<1>2. Len(w.file) <= MaxWritePosition
  BY <1>1, RegistryAssumption
<1>3. /\ Stands(v, Again, m, U, Objects(w) \cup {o}) /\ Extends(w, v)
      /\ Len(v.file) = Len(w.file) + 1
  <2>1. o.id \in 1 .. m - 1 /\ o.id \notin U /\ o.id \in Again
    OBVIOUS
  <2>. QED  BY <1>1, <1>2, <2>1, WriteModifiedStands
<1>4. Objects(v) = Objects(w) \cup {o} /\ w \in Writers /\ v \in Writers
  BY <1>1, <1>3 DEF Stands, Sound
<1>5. Extends(W, v)
  BY <1>1, <1>3, <1>4, ExtendsTwice
<1>6. Len(v.file) \in Nat /\ Len(v.file) <= l /\ l \in Nat
  BY <1>1, <1>3
<1>7. ImagesOnce => \A x \in Objects(v) : Fits(x, K, m)
  BY <1>4 DEF Ends
<1>. QED  BY <1>1, <1>3, <1>4, <1>5, <1>6, <1>7 DEF Ends

\* A new ID, given for an object of a kind.
EndGives(kind, w, K, m, n, U) ==
    \E L \in Kinds : /\ Agree(K, L, m) /\ L[m] = kind
                     /\ Ends(Allocate(w), L, m + 1, n, U \cup {m})

LEMMA EndAllocates ==
    ASSUME NEW w, NEW K, NEW m, NEW n, NEW U, Ends(w, K, m, n, U), NEW kind \in KindNames
    PROVE  /\ NextID(w) = m /\ m \notin U /\ m \in Nat \ {0}
           /\ EndGives(kind, w, K, m, n, U)
<1>1. /\ Stands(w, Again, m, U, Objects(w)) /\ Len(w.file) \in Nat /\ Len(w.file) <= n
      /\ n \in Nat /\ Extends(W, w) /\ W \in Writers /\ m \in Nat \ {0} /\ K \in Kinds
  BY DEF Ends
<1>2. PICK v : v = Allocate(w)
  OBVIOUS
<1>3. /\ Stands(v, Again, m + 1, U \cup {m}, Objects(w)) /\ Extends(w, v)
      /\ v.file = w.file /\ m \notin U
  BY <1>1, <1>2, AllocateStands
<1>4. PICK L \in Kinds : Agree(K, L, m) /\ L[m] = kind
  BY <1>1, KindGiven
<1>5. Objects(v) = Objects(w) /\ w \in Writers /\ v \in Writers
  BY <1>1, <1>3 DEF Stands, Sound
<1>6. Extends(W, v)
  BY <1>1, <1>3, <1>5, ExtendsTwice
<1>7. m + 1 \in Nat \ {0} /\ m + 1 \in Nat /\ m <= m + 1 /\ m \in Nat
  BY <1>1
<1>8. ImagesOnce => \A x \in Objects(v) : Fits(x, L, m + 1)
  BY <1>4, <1>5, <1>7, EndFitsKept
<1>9. Ends(v, L, m + 1, n, U \cup {m})
  BY <1>1, <1>3, <1>4, <1>5, <1>6, <1>7, <1>8 DEF Ends
<1>10. NextID(w) = m
  BY <1>1 DEF Stands, NextID, GetObjectsCount
<1>11. EndGives(kind, w, K, m, n, U)
  BY <1>2, <1>4, <1>9 DEF EndGives
<1>. QED  BY <1>1, <1>3, <1>10, <1>11

LEMMA EndLonger ==
    ASSUME NEW w, NEW K, NEW m, NEW n, NEW U, Ends(w, K, m, n, U), NEW l \in Nat, n <= l
    PROVE  Ends(w, K, m, l, U)
<1>1. Len(w.file) \in Nat /\ Len(w.file) <= n /\ n \in Nat
  BY DEF Ends
<1>2. Len(w.file) <= l
  BY <1>1
<1>. QED  BY <1>2 DEF Ends

LEMMA RefsFitKept ==
    ASSUME NEW refs, NEW K, NEW n \in Nat, RefsFit(refs, K, n),
           NEW L, Agree(K, L, n), NEW m \in Nat, n <= m
    PROVE  RefsFit(refs, L, m)
<1>1. \A i \in 1 .. n - 1 : i \in 1 .. m - 1
  OBVIOUS
<1>. QED  BY <1>1 DEF RefsFit, Agree

LEMMA EndWritesNew ==
    ASSUME NEW w, NEW K, NEW m, NEW n, NEW U, Ends(w, K, m, n, U), n <= MaxWritePosition,
           NEW kind \in KindNames, NEW refs \in SUBSET (RoleNames \X Nat),
           ImagesOnce => RefsFit(refs, K, m),
           NEW v, v = WriteNew(w, kind, refs), NEW l, l = n + 1
    PROVE  /\ NextID(w) = m /\ m \in Nat \ {0}
           /\ \E L \in Kinds : Agree(K, L, m) /\ L[m] = kind /\ Ends(v, L, m + 1, l, U)
<1>1. PICK x : x = Allocate(w)
  OBVIOUS
<1>2. NextID(w) = m /\ m \notin U /\ m \in Nat \ {0}
  BY EndAllocates
<1>3. PICK L \in Kinds : Agree(K, L, m) /\ L[m] = kind /\ Ends(x, L, m + 1, n, U \cup {m})
  <2>1. EndGives(kind, w, K, m, n, U)
    BY EndAllocates
  <2>. QED  BY <1>1, <2>1 DEF EndGives
<1>4. m \in Nat /\ m + 1 \in Nat /\ m <= m + 1
  BY <1>2
<1>5. PICK o : o = Object(m, kind, refs, <<>>)
  OBVIOUS
<1>6. o \in FileObject /\ o.id = m /\ o.kind = kind /\ o.refs = refs /\ o.kids = <<>>
  <2>1. PICK list \in Seq(Nat) : list = <<>>
    <3>1. <<>> \in Seq(Nat)
      OBVIOUS
    <3>. QED  BY <3>1
  <2>2. m \in Nat
    BY <1>4
  <2>3. o = Object(m, kind, refs, list)
    BY <1>5, <2>1
  <2>4. o \in FileObject /\ o.id = m /\ o.kind = kind /\ o.refs = refs /\ o.kids = list
    BY <2>2, <2>3, PlainObject
  <2>. QED  BY <2>1, <2>4
<1>7. ImagesOnce => Fits(o, L, m + 1)
  <2>1. ASSUME ImagesOnce
        PROVE  RefsFit(refs, L, m + 1)
    BY <1>3, <1>4, <2>1, RefsFitKept
  <2>. QED  BY <1>3, <1>6, <2>1, ObjectFits
<1>8. v = WriteAt(x, o)
  BY <1>1, <1>2, <1>5 DEF WriteNew
<1>9. m \in U \cup {m} /\ U = (U \cup {m}) \ {m}
  BY <1>2
<1>10. Ends(v, L, m + 1, l, U)
  BY <1>3, <1>6, <1>7, <1>8, <1>9, EndWrites
<1>. QED  BY <1>2, <1>3, <1>10

\* The tree of the document, or none, is written.
LEMMA TreeObject ==
    ASSUME Shapes, NEW parent, parent \in Nat
    PROVE  LET o == Object(tree, "pages", Refs("Parent", {parent} \ {NoID}), kids) IN
           /\ o \in FileObject /\ o.id = tree /\ o.kind = "pages" /\ o.kids = kids
           /\ o.refs = Refs("Parent", {parent} \ {NoID})
<1>1. PICK list \in Seq(Nat), t \in Nat, kind \in KindNames :
         list = kids /\ t = tree /\ kind = "pages"
  BY Names DEF Shapes
<1>2. PICK ids : ids = {parent} \ {NoID}
  OBVIOUS
<1>3. PICK refs \in SUBSET (RoleNames \X Nat) : refs = Refs("Parent", ids)
  <2>1. ids \subseteq Nat
    BY <1>2
  <2>2. "Parent" \in RoleNames
    BY Names
  <2>. QED  BY <2>1, <2>2, RefsAre
<1>4. PICK o : o = Object(t, kind, refs, list)
  OBVIOUS
<1>5. o \in FileObject /\ o.id = t /\ o.kind = kind /\ o.kids = list /\ o.refs = refs
  BY <1>4, PlainObject
<1>. QED  BY <1>1, <1>2, <1>3, <1>4, <1>5

\* The kids of the tree, when there are more IDs than there were.
LEMMA KidsFit ==
    ASSUME Shapes, NEW K, RightKind(K), NEW m \in Nat, Len(registry) \in Nat,
           Len(registry) <= m
    PROVE  \A k \in 1 .. Len(kids) : kids[k] \in 1 .. m - 1
<1>1. \A i \in 1 .. Len(registry) - 1 : i \in 1 .. m - 1
  OBVIOUS
<1>. QED  BY <1>1 DEF RightKind

TreeStands(w, K, m, L) ==
    /\ m \in Nat /\ L \in Kinds /\ Len(registry) <= m /\ m <= Len(registry) + 1
    /\ Agree(K, L, Len(registry)) /\ FinalPageRoot \in Nat
    /\ FinalPageRoot # NoID /\ ImagesOnce =>
          FinalPageRoot \in 1 .. m - 1 /\ L[FinalPageRoot] = "pages"

LEMMA NoNewPages ==
    ASSUME PositionsFit, Shapes, NEW K \in Kinds, OneOwner(K), ImagesOnce => RightKind(K),
           ~DocumentHasNewPages
    PROVE  \E m, L, U : TreeStands(W, K, m, L) /\ Ends(PagesWritten, L, m, Len(file) + 3, U)
<1>1. Ends(W, K, Len(registry), Len(file), Unwritten(W))
  BY EndBegins
<1>2. /\ Len(file) \in Nat /\ Len(file) <= Len(registry) - 1
      /\ Len(registry) \in Nat \ {0} /\ Len(registry) \in Nat
  BY OpenWriter
<1>3. Len(file) + 3 \in Nat /\ Len(file) <= Len(file) + 3
  BY <1>2
<1>4. Ends(PagesWritten, K, Len(registry), Len(file) + 3, Unwritten(W))
  BY <1>1, <1>3, EndLonger DEF PagesWritten
<1>5. CASE isModified
  <2>1. file[2].id = 2 /\ 2 \in 1 .. Len(registry) - 1
    BY <1>2, <1>5, ModifiedHasObjects DEF OneOwner
  <2>2. FinalPageRoot = 2
    BY <1>5, <2>1 DEF FinalPageRoot, OriginalTreeRoot
  <2>3. ImagesOnce => K[2] = "pages"
    BY <1>5 DEF RightKind
  <2>4. TreeStands(W, K, Len(registry), K)
    BY <1>2, <2>1, <2>2, <2>3, SameKinds DEF TreeStands
  <2>. QED  BY <1>4, <2>4
<1>6. CASE ~isModified
  <2>1. FinalPageRoot = NoID /\ NoID \in Nat
    BY <1>6 DEF FinalPageRoot, DocumentHasNewPages, NoID
  <2>2. TreeStands(W, K, Len(registry), K)
    BY <1>2, <2>1, SameKinds DEF TreeStands
  <2>. QED  BY <1>4, <2>2
<1>. QED  BY <1>5, <1>6

LEMMA NewTree ==
    ASSUME PositionsFit, Shapes, NEW K \in Kinds, OneOwner(K), ImagesOnce => RightKind(K),
           DocumentHasNewPages, ~isModified
    PROVE  \E m, L, U : TreeStands(W, K, m, L) /\ Ends(PagesWritten, L, m, Len(file) + 3, U)
<1>1. PICK U : U = Unwritten(W) /\ Ends(W, K, Len(registry), Len(file), U)
  BY EndBegins
<1>2. /\ Len(file) \in Nat /\ Len(file) <= Len(registry) - 1
      /\ Len(registry) \in Nat \ {0} /\ Len(registry) \in Nat
      /\ Len(registry) + 4 <= MaxWritePosition /\ U \subseteq 1 .. Len(registry) - 1
  BY <1>1, OpenWriter
<1>3. tree \in U /\ K[tree] = "pages" /\ tree \in 1 .. Len(registry) - 1 /\ tree \in Nat
  BY <1>1, <1>2 DEF OneOwner, TreeOwned, DocumentHasNewPages
<1>4. PICK o : o = Object(tree, "pages", Refs("Parent", {NoID} \ {NoID}), kids)
  OBVIOUS
<1>5. /\ o \in FileObject /\ o.id = tree /\ o.kind = "pages" /\ o.kids = kids
      /\ o.refs = {}
  <2>1. NoID \in Nat /\ Refs("Parent", {NoID} \ {NoID}) = {}
    BY DEF NoID, Refs
  <2>. QED  BY <1>4, <2>1, TreeObject
<1>6. ImagesOnce => Fits(o, K, Len(registry))
  <2>1. ASSUME ImagesOnce
        PROVE  \A k \in 1 .. Len(kids) : kids[k] \in 1 .. Len(registry) - 1
    BY <2>1 DEF RightKind
  <2>. QED  BY <1>3, <1>5, <2>1 DEF Fits
<1>7. PagesWritten = WriteAt(W, o)
  BY <1>4 DEF PagesWritten, WritePagesTree
<1>8. Len(file) <= MaxWritePosition
  BY <1>2, RegistryAssumption
<1>9. PICK V, l, v : V = U \ {tree} /\ l = Len(file) + 1 /\ v = WriteAt(W, o)
  OBVIOUS
<1>10. Ends(v, K, Len(registry), l, V)
  BY <1>1, <1>3, <1>5, <1>6, <1>8, <1>9, EndWrites
<1>11. Len(file) + 3 \in Nat /\ l <= Len(file) + 3
  BY <1>2, <1>9
<1>12. Ends(PagesWritten, K, Len(registry), Len(file) + 3, V)
  BY <1>7, <1>9, <1>10, <1>11, EndLonger
<1>13. FinalPageRoot = tree
  BY DEF FinalPageRoot
<1>14. TreeStands(W, K, Len(registry), K)
  BY <1>2, <1>3, <1>13, SameKinds DEF TreeStands
<1>. QED  BY <1>12, <1>14

\* The root of the modified file's tree, below a new root.
BelowRoot(old, root) == [old EXCEPT !.refs = @ \cup Refs("Parent", {root})]

HasParent(o, old, root) ==
    /\ o \in FileObject /\ o.id = old.id /\ o.kind = old.kind /\ o.kids = old.kids
    /\ o.refs = old.refs \cup Refs("Parent", {root})

LEMMA TreeBelow ==
    ASSUME NEW old \in FileObject, NEW root \in Nat, NEW o, o = BelowRoot(old, root)
    PROVE  HasParent(o, old, root)
<1>1. PICK refs : refs = old.refs \cup Refs("Parent", {root})
  OBVIOUS
<1>2. refs \in SUBSET (RoleNames \X Nat)
  <2>1. Refs("Parent", {root}) \in SUBSET (RoleNames \X Nat)
    BY OneRef, Names
  <2>2. old.refs \in SUBSET (RoleNames \X Nat)
    BY DEF FileObject
  <2>. QED  BY <1>1, <2>1, <2>2
<1>3. o = [old EXCEPT !.refs = refs]
  BY <1>1 DEF BelowRoot
<1>4. /\ o \in FileObject /\ o.id = old.id /\ o.kind = old.kind /\ o.kids = old.kids
      /\ o.refs = refs
  BY <1>2, <1>3 DEF FileObject
<1>. QED  BY <1>1, <1>4 DEF HasParent

IsRootOf(o, root, i, j) ==
    /\ o \in FileObject /\ o.id = root /\ o.kind = "pages" /\ o.refs = {}
    /\ o.kids = <<i, j>>

LEMMA TwoKids ==
    ASSUME NEW i \in Nat, NEW j \in Nat, NEW root \in Nat, NEW o,
           o = Object(root, "pages", {}, <<i, j>>)
    PROVE  IsRootOf(o, root, i, j)
<1>1. PICK list \in Seq(Nat), kind \in KindNames, refs \in SUBSET (RoleNames \X Nat) :
         list = <<i, j>> /\ kind = "pages" /\ refs = {}
  <2>1. <<i, j>> \in Seq(Nat) /\ {} \in SUBSET (RoleNames \X Nat)
    OBVIOUS
  <2>. QED  BY <2>1, Names
<1>2. o = Object(root, kind, refs, list)
  BY <1>1
<1>3. o \in FileObject /\ o.id = root /\ o.kind = kind /\ o.refs = refs /\ o.kids = list
  BY <1>2, PlainObject
<1>. QED  BY <1>1, <1>3 DEF IsRootOf

LEMMA CombinedTree ==
    ASSUME PositionsFit, Shapes, NEW K \in Kinds, OneOwner(K), ImagesOnce => RightKind(K),
           DocumentHasNewPages, isModified
    PROVE  \E m, L, U : TreeStands(W, K, m, L) /\ Ends(PagesWritten, L, m, Len(file) + 3, U)
<1>1. PICK m, n, U : /\ m = Len(registry) /\ n = Len(file) /\ U = Unwritten(W)
                     /\ Ends(W, K, m, n, U)
  BY EndBegins
<1>2. /\ n \in Nat /\ n <= m - 1 /\ m \in Nat \ {0} /\ m \in Nat
      /\ m + 4 <= MaxWritePosition /\ U \subseteq 1 .. m - 1
      /\ file \in Seq(FileObject) /\ W.registry = registry /\ W.file = file
  BY <1>1, OpenWriter
<1>3. tree \in U /\ K[tree] = "pages" /\ tree \in 1 .. m - 1 /\ tree \in Nat
  BY <1>1, <1>2 DEF OneOwner, TreeOwned, DocumentHasNewPages
<1>4. /\ 2 \in 1 .. m - 1 /\ 2 \in 1 .. n /\ file[2].id = 2 /\ 2 \notin U
  <2>1. 2 \in 1 .. m - 1 /\ 2 \in 1 .. n /\ file[2].id = 2
    BY <1>1, <1>2, ModifiedHasObjects DEF OneOwner
  <2>2. ObjectIsKnown(W, 2)
    BY <1>1, <1>2, <2>1 DEF OneOwner, Sound
  <2>. QED  BY <1>1, <1>2, <2>1, <2>2 DEF ObjectIsKnown, Unwritten
<1>5. NextID(W) = m /\ m \notin U
  BY <1>1, EndAllocates, Names
<1>6. PICK w1 : w1 = Allocate(W)
  OBVIOUS
<1>7. PICK L \in Kinds : Agree(K, L, m) /\ L[m] = "pages" /\ Ends(w1, L, m + 1, n, U \cup {m})
  <2>1. EndGives("pages", W, K, m, n, U)
    BY <1>1, EndAllocates, Names
  <2>. QED  BY <1>6, <2>1 DEF EndGives
<1>8. PICK l, V : l = m + 1 /\ V = U \cup {m}
  OBVIOUS
<1>9. /\ l \in Nat /\ m <= l /\ m \in 1 .. l - 1 /\ tree \in 1 .. l - 1 /\ 2 \in 1 .. l - 1
      /\ tree \in V /\ m \in V /\ 2 \notin V /\ m # tree /\ m # 2 /\ m # NoID
      /\ L[tree] = "pages" /\ L[2] = K[2]
      /\ n <= MaxWritePosition /\ n + 1 <= MaxWritePosition /\ n + 2 <= MaxWritePosition
  BY <1>2, <1>3, <1>4, <1>5, <1>7, <1>8, RegistryAssumption DEF Agree, NoID
<1>10. RefsFit(Refs("Parent", {m}), L, l)
  <2>1. m \in 1 .. l - 1 /\ L[m] \in KindsFor("Parent")
    BY <1>7, <1>9, Roles
  <2>. QED  BY <1>2, <2>1, OneRef, Names
<1>11. PICK o : o = Object(tree, "pages", Refs("Parent", {m} \ {NoID}), kids)
  OBVIOUS
<1>12. /\ o \in FileObject /\ o.id = tree /\ o.kind = "pages" /\ o.kids = kids
       /\ o.refs = Refs("Parent", {m})
  <2>1. {m} \ {NoID} = {m}
    BY <1>9
  <2>. QED  BY <1>2, <1>11, <2>1, TreeObject
<1>13. ImagesOnce => Fits(o, L, l)
  <2>1. ASSUME ImagesOnce
        PROVE  \A k \in 1 .. Len(kids) : kids[k] \in 1 .. l - 1
    <3>1. RightKind(K) /\ Len(registry) \in Nat /\ Len(registry) <= l
      BY <1>1, <1>2, <1>9, <2>1
    <3>. QED  BY <1>9, <3>1, KidsFit
  <2>. QED  BY <1>9, <1>10, <1>12, <2>1 DEF Fits, RefsFit
<1>14. PICK w2, V2 : w2 = WriteAt(w1, o) /\ V2 = V \ {tree}
  OBVIOUS
<1>15. Ends(w2, L, l, n + 1, V2)
  <2>1. Ends(w1, L, l, n, V) /\ n <= MaxWritePosition /\ tree \in V
    BY <1>7, <1>8, <1>9
  <2>. QED  BY <1>12, <1>13, <1>14, <2>1, EndWrites
<1>16. PICK old \in FileObject : old = file[2]
  BY <1>1, <1>2, <1>4, ElementOfSeq
<1>17. PICK below : below = [old EXCEPT !.refs = @ \cup Refs("Parent", {m})]
  OBVIOUS
<1>18. /\ below \in FileObject /\ below.id = 2 /\ below.kind = old.kind /\ below.kids = old.kids
       /\ below.refs = old.refs \cup Refs("Parent", {m})
  <2>1. m \in Nat /\ old.id = 2
    BY <1>2, <1>4, <1>16
  <2>2. m \in Nat
    BY <2>1
  <2>3. /\ below \in FileObject /\ below.id = old.id /\ below.kind = old.kind
        /\ below.kids = old.kids /\ below.refs = old.refs \cup Refs("Parent", {m})
    <3>1. below = BelowRoot(old, m)
      BY <1>17 DEF BelowRoot
    <3>2. HasParent(below, old, m)
      BY <2>2, <3>1, TreeBelow
    <3>. QED  BY <3>2 DEF HasParent
  <2>. QED  BY <2>1, <2>3
<1>19. ImagesOnce => Fits(below, L, l)
  <2>. SUFFICES ASSUME ImagesOnce
                PROVE  Fits(below, L, l)
    OBVIOUS
  <2>1. Fits(old, L, l)
    <3>1. old \in Objects(W)
      BY <1>1, <1>2, <1>4, <1>16 DEF Objects
    <3>2. Ends(W, K, m, n, U) /\ Agree(K, L, m) /\ l \in Nat /\ m <= l
      BY <1>1, <1>7, <1>9
    <3>. QED  BY <3>1, <3>2, EndFitsKept
  <2>2. \A ref \in below.refs : ref[2] \in 1 .. l - 1 /\ L[ref[2]] \in KindsFor(ref[1])
    BY <1>10, <1>18, <2>1 DEF Fits, RefsFit
  <2>3. below.id = old.id
    BY <1>4, <1>16, <1>18
  <2>. QED  BY <1>18, <2>1, <2>2, <2>3 DEF Fits
<1>20. PICK w3 : w3 = WriteModified(w2, below)
  OBVIOUS
<1>21. Ends(w3, L, l, n + 2, V2)
  <2>1. /\ n + 1 <= MaxWritePosition /\ 2 \in 1 .. l - 1 /\ 2 \notin V2 /\ 2 \in Again
        /\ n + 2 = (n + 1) + 1
    BY <1>2, <1>9, <1>14 DEF Again
  <2>. QED  BY <1>15, <1>18, <1>19, <1>20, <2>1, EndModifies
<1>22. PICK top : top = Object(m, "pages", {}, <<2, tree>>)
  OBVIOUS
<1>23. /\ top \in FileObject /\ top.id = m /\ top.kind = "pages" /\ top.refs = {}
       /\ top.kids = <<2, tree>>
  <2>1. m \in Nat /\ tree \in Nat /\ 2 \in Nat
    BY <1>2, <1>3
  <2>2. IsRootOf(top, m, 2, tree)
    BY <1>22, <2>1, TwoKids
  <2>. QED  BY <2>2 DEF IsRootOf
<1>24. Fits(top, L, l)
  <2>1. \A k \in 1 .. Len(<<2, tree>>) : <<2, tree>>[k] \in 1 .. l - 1
    BY <1>9
  <2>. QED  BY <1>7, <1>23, <2>1 DEF Fits
<1>25. PICK w4, V4 : w4 = WriteAt(w3, top) /\ V4 = V2 \ {m}
  OBVIOUS
<1>26. Ends(w4, L, l, n + 3, V4)
  <2>1. n + 2 <= MaxWritePosition /\ m \in V2 /\ n + 3 = (n + 2) + 1
    BY <1>2, <1>9, <1>14
  <2>. QED  BY <1>21, <1>23, <1>24, <1>25, <2>1, EndWrites
<1>27. PagesWritten = w4
  <2>1. OriginalTreeRoot = old /\ OriginalTreeRoot.id = 2
    BY <1>4, <1>16 DEF OriginalTreeRoot
  <2>2. PagesWritten = WriteCombinedPageTree(W)
    BY DEF PagesWritten
  <2>. QED  BY <1>5, <1>6, <1>11, <1>14, <1>17, <1>20, <1>22, <1>25, <2>1, <2>2
            DEF WriteCombinedPageTree, WritePagesTree
<1>28. FinalPageRoot = m
  BY <1>5 DEF FinalPageRoot
<1>29. TreeStands(W, K, l, L)
  <2>1. Len(registry) <= l /\ l <= Len(registry) + 1 /\ Agree(K, L, Len(registry))
    BY <1>1, <1>2, <1>7, <1>8
  <2>. QED  BY <1>7, <1>9, <1>28, <2>1 DEF TreeStands
<1>. QED  BY <1>1, <1>26, <1>27, <1>29

LEMMA TreeEnds ==
    ASSUME PositionsFit, Shapes, NEW K \in Kinds, OneOwner(K), ImagesOnce => RightKind(K)
    PROVE  \E m, L, U : TreeStands(W, K, m, L) /\ Ends(PagesWritten, L, m, Len(file) + 3, U)
<1>1. isModified \in BOOLEAN
  BY DEF Shapes
<1>. QED  BY <1>1, NoNewPages, NewTree, CombinedTree

\* The catalog, or none, is written.
LEMMA CatalogEnds ==
    ASSUME PositionsFit, Shapes, NEW K \in Kinds, OneOwner(K), ImagesOnce => RightKind(K),
           NEW other \in BOOLEAN
    PROVE  \E m, L, U :
              /\ Ends(CatalogWritten(other), L, m, Len(file) + 4, U)
              /\ ImagesOnce => RootAfter(other) \in 1 .. m - 1 /\ L[RootAfter(other)] = "catalog"
<1>1. PICK m, L, U : TreeStands(W, K, m, L) /\ Ends(PagesWritten, L, m, Len(file) + 3, U)
  BY TreeEnds
<1>2. /\ Len(file) \in Nat /\ Len(file) <= Len(registry) - 1
      /\ Len(registry) \in Nat /\ Len(registry) + 4 <= MaxWritePosition
  BY OpenWriter
<1>3. PICK n \in Nat : n = Len(file) + 3 /\ n <= MaxWritePosition /\ n + 1 = Len(file) + 4
  <2>1. Len(file) + 3 \in Nat /\ Len(file) + 3 <= MaxWritePosition
    BY <1>2, RegistryAssumption
  <2>. QED  BY <1>2, <2>1
<1>4. CASE NeedsCatalog(other)
  <2>1. PICK ids : ids = {FinalPageRoot} \ {NoID}
    OBVIOUS
  <2>2. ids \subseteq Nat
    BY <1>1, <2>1 DEF TreeStands
  <2>3. PICK refs : refs = Refs("Pages", ids)
    OBVIOUS
  <2>4. refs \in SUBSET (RoleNames \X Nat)
    BY <2>2, <2>3, RefsAre, Names
  <2>5. ImagesOnce => RefsFit(refs, L, m)
    <3>. SUFFICES ASSUME ImagesOnce
                  PROVE  RefsFit(refs, L, m)
      OBVIOUS
    <3>1. Used(ids, KindsFor("Pages"), L, m)
      BY <1>1, <2>1, Roles DEF TreeStands, Used
    <3>. QED  BY <2>2, <2>3, <3>1, RefsFitUsed, Names
  <2>6. PICK w, l : w = WriteNew(PagesWritten, "catalog", refs) /\ l = n + 1
    OBVIOUS
  <2>7. /\ NextID(PagesWritten) = m /\ m \in Nat \ {0}
        /\ \E M \in Kinds : Agree(L, M, m) /\ M[m] = "catalog" /\ Ends(w, M, m + 1, l, U)
    BY <1>1, <1>3, <2>4, <2>5, <2>6, EndWritesNew, Names
  <2>8. PICK M \in Kinds : Agree(L, M, m) /\ M[m] = "catalog" /\ Ends(w, M, m + 1, l, U)
    BY <2>7
  <2>9. CatalogWritten(other) = w /\ RootAfter(other) = m
    BY <1>4, <2>1, <2>3, <2>6, <2>7 DEF CatalogWritten, RootAfter
  <2>10. m \in 1 .. (m + 1) - 1
    BY <2>7
  <2>. QED  BY <1>3, <2>6, <2>8, <2>9, <2>10
<1>5. CASE ~NeedsCatalog(other)
  <2>1. CatalogWritten(other) = PagesWritten /\ RootAfter(other) = trailer.root
    BY <1>5 DEF CatalogWritten, RootAfter
  <2>2. Ends(PagesWritten, L, m, Len(file) + 4, U)
    <3>1. n + 1 \in Nat /\ n <= n + 1
      OBVIOUS
    <3>. QED  BY <1>1, <1>3, <3>1, EndLonger
  <2>3. ASSUME ImagesOnce
        PROVE  trailer.root \in 1 .. m - 1 /\ L[trailer.root] = "catalog"
    <3>1. isModified /\ trailer.root = 1 /\ K[1] = "catalog"
      BY <1>5, <2>3 DEF NeedsCatalog, RightKind
    <3>2. 3 <= Len(registry)
      BY <1>2, <3>1, ModifiedHasObjects DEF OneOwner
    <3>3. Len(registry) <= m /\ m \in Nat /\ Agree(K, L, Len(registry))
      BY <1>1 DEF TreeStands
    <3>4. 1 \in 1 .. Len(registry) - 1 /\ 1 \in 1 .. m - 1
      BY <1>2, <3>2, <3>3
    <3>. QED  BY <3>1, <3>3, <3>4 DEF Agree
  <2>. QED  BY <2>1, <2>2, <2>3
<1>. QED  BY <1>4, <1>5

\* What else the end of a document writes, or not.
EndsRooted(w, root, n) ==
    \E m, L, U : /\ Ends(w, L, m, n, U)
                 /\ ImagesOnce => root \in 1 .. m - 1 /\ L[root] = "catalog"

LEMMA EndMayWriteNew ==
    ASSUME NEW w, NEW root, NEW n \in Nat, EndsRooted(w, root, n), n <= MaxWritePosition,
           NEW kind \in KindNames, NEW v, v = w \/ v = WriteNew(w, kind, {}),
           NEW l, l = n + 1
    PROVE  EndsRooted(v, root, l)
<1>1. PICK m, L, U : /\ Ends(w, L, m, n, U)
                     /\ ImagesOnce => root \in 1 .. m - 1 /\ L[root] = "catalog"
  BY DEF EndsRooted
<1>2. CASE v = w
  <2>1. l \in Nat /\ n <= l
    OBVIOUS
  <2>2. Ends(v, L, m, l, U)
    BY <1>1, <1>2, <2>1, EndLonger
  <2>. QED  BY <1>1, <2>2 DEF EndsRooted
<1>3. CASE v = WriteNew(w, kind, {})
  <2>1. PICK refs \in SUBSET (RoleNames \X Nat) : refs = {}
    OBVIOUS
  <2>2. RefsFit(refs, L, m)
    BY <2>1 DEF RefsFit
  <2>3. /\ m \in Nat \ {0}
        /\ \E M \in Kinds : Agree(L, M, m) /\ M[m] = kind /\ Ends(v, M, m + 1, l, U)
    BY <1>1, <1>3, <2>1, <2>2, EndWritesNew
  <2>4. PICK M \in Kinds : Agree(L, M, m) /\ M[m] = kind /\ Ends(v, M, m + 1, l, U)
    BY <2>3
  <2>5. \A i \in 1 .. m - 1 : i \in 1 .. (m + 1) - 1
    BY <2>3
  <2>. QED  BY <1>1, <2>4, <2>5 DEF EndsRooted, Agree
<1>. QED  BY <1>2, <1>3

LEMMA EndingStands ==
    ASSUME PositionsFit, Shapes, NEW K \in Kinds, OneOwner(K), ImagesOnce => RightKind(K),
           NEW other \in BOOLEAN
    PROVE  \E n : EndsRooted(EncryptionWritten(InfoWritten(CatalogWritten(other))),
                             RootAfter(other), n)
<1>1. PICK n : n = Len(file) + 4
  OBVIOUS
<1>2. n \in Nat /\ n + 1 \in Nat /\ n <= MaxWritePosition /\ n + 1 <= MaxWritePosition
  BY <1>1, OpenWriter, RegistryAssumption
<1>3. PICK w : w = CatalogWritten(other)
  OBVIOUS
<1>4. EndsRooted(w, RootAfter(other), n)
  BY <1>1, <1>3, CatalogEnds DEF EndsRooted
<1>5. PICK v : v = InfoWritten(w)
  OBVIOUS
<1>6. v = w \/ v = WriteNew(w, "info", {})
  BY <1>5 DEF InfoWritten
<1>7. EndsRooted(v, RootAfter(other), n + 1)
  BY <1>2, <1>4, <1>6, EndMayWriteNew, Names
<1>8. PICK x : x = EncryptionWritten(v)
  OBVIOUS
<1>9. x = v \/ x = WriteNew(v, "encrypt", {})
  BY <1>8 DEF EncryptionWritten
<1>10. EndsRooted(x, RootAfter(other), (n + 1) + 1)
  BY <1>2, <1>7, <1>9, EndMayWriteNew, Names
<1>. QED  BY <1>3, <1>5, <1>8, <1>10

\* A document whose xref can be written has every object, at its place.
LEMMA AllAreWritten ==
    ASSUME NEW w, NEW again, Sound(w, again), CanWriteXref(w.registry)
    PROVE  \A i \in 1 .. Len(w.registry) - 1 :
              /\ w.registry[i + 1].written
              /\ w.registry[i + 1].position + 1 \in 1 .. Len(w.file)
              /\ w.file[w.registry[i + 1].position + 1].id = i
              /\ i \in DirtyIDs(w.registry) <=> w.registry[i + 1].dirty
<1>. SUFFICES ASSUME NEW i \in 1 .. Len(w.registry) - 1
              PROVE  /\ w.registry[i + 1].written
                     /\ w.registry[i + 1].position + 1 \in 1 .. Len(w.file)
                     /\ w.file[w.registry[i + 1].position + 1].id = i
                     /\ i \in DirtyIDs(w.registry) <=> w.registry[i + 1].dirty
  OBVIOUS
<1>1. EntryIsRight(w, i) /\ Len(w.registry) \in Nat
  BY DEF Sound
<1>2. i \in DirtyIDs(w.registry) <=> w.registry[i + 1].dirty
  BY <1>1 DEF DirtyIDs, ObjectIDs
<1>3. w.registry[i + 1].written
  BY <1>1, <1>2 DEF EntryIsRight, CanWriteXref
<1>. QED  BY <1>1, <1>2, <1>3 DEF EntryIsRight

\* A reader of a document that ended well finds every object.
Finds(w, id) == /\ ReaderKnows(id)'
                /\ \E k \in 1 .. Len(w.file) : /\ ReaderFinds(id)' = w.file[k]
                                               /\ w.file[k].id = id

LEMMA EndedReader ==
    ASSUME PositionsFit, Shapes, NEW K \in Kinds, OneOwner(K), RightKind(K),
           NEW w, Sound(w, Again), Extends(W, w), CanWriteXref(w.registry), file' = w.file,
           result'.xref = Xref(w.registry), UNCHANGED <<isModified, documents, client>>,
           NEW i \in 1 .. Len(w.registry) - 1
    PROVE  Finds(w, i)
<1>1. PICK r \in Seq(ObjectWriteInformation), f \in Seq(FileObject) :
         r = w.registry /\ f = w.file
  BY WriterParts DEF Sound
<1>2. /\ r[i + 1].written /\ r[i + 1].position + 1 \in 1 .. Len(f)
      /\ f[r[i + 1].position + 1].id = i
      /\ i \in DirtyIDs(r) <=> r[i + 1].dirty
  BY <1>1, AllAreWritten
<1>3. DOMAIN result'.xref = {id \in DirtyIDs(r) : r[id + 1].written}
  BY <1>1 DEF Xref
<1>4. CASE r[i + 1].dirty
  <2>1. i \in DOMAIN result'.xref /\ result'.xref[i] = r[i + 1].position + 1
    BY <1>1, <1>2, <1>3, <1>4 DEF Xref
  <2>2. ReaderFinds(i)' = f[r[i + 1].position + 1]
    BY <1>1, <2>1 DEF ReaderFinds
  <2>. QED  BY <1>1, <1>2, <2>1, <2>2 DEF Finds, ReaderKnows
<1>5. CASE ~r[i + 1].dirty
  <2>1. i \notin DOMAIN result'.xref
    BY <1>2, <1>3, <1>5
  <2>2. isModified /\ i \in 1 .. OriginalCount
    <3>1. i \in Clean(w)
      BY <1>1, <1>5 DEF Clean
    <3>2. i \in Clean(W)
      BY <3>1 DEF Extends
    <3>. QED  BY <3>2 DEF RightKind
  <2>3. PICK n \in Nat : n = OriginalCount
    BY DEF OriginalCount
  <2>4. /\ n <= Len(f) /\ \A k \in 1 .. n : k \in 1 .. Len(f) /\ f[k].id = k
    <3>1. /\ Len(file) \in Nat /\ Len(f) \in Nat /\ Len(file) <= Len(f)
          /\ \A k \in 1 .. Len(file) : f[k] = file[k]
      BY <1>1, OpenWriter, LenProperties DEF Extends
    <3>2. n <= Len(file) /\ \A k \in 1 .. n : file[k].id = k
      BY <2>2, <2>3 DEF OneOwner, OriginalsStart
    <3>3. \A k \in 1 .. n : k \in 1 .. Len(file) /\ k \in 1 .. Len(f)
      BY <3>1, <3>2
    <3>4. n <= Len(f)
      BY <3>1, <3>2
    <3>. QED  BY <3>1, <3>2, <3>3, <3>4
  <2>5. PICK q : q = SubSeq(f, 1, n)
    OBVIOUS
  <2>6. Len(q) = n /\ \A k \in 1 .. n : q[k] = f[k]
    <3>1. Len(f) \in Nat /\ n <= Len(f) /\ 1 <= n + 1
      BY <2>4, LenProperties
    <3>. QED  BY <2>5, <3>1
  <2>7. OriginalObjects' = q
    BY <1>1, <2>2, <2>3, <2>5 DEF OriginalObjects, OriginalCount
  <2>8. PICK k : k = CHOOSE j \in 1 .. Len(q) : q[j].id = i
    OBVIOUS
  <2>9. i \in 1 .. Len(q) /\ q[i].id = i
    BY <2>2, <2>3, <2>4, <2>6
  <2>10. k \in 1 .. Len(q) /\ q[k].id = i
    BY <2>8, <2>9
  <2>11. ReaderFinds(i)' = q[k] /\ ReaderKnows(i)'
    BY <2>1, <2>7, <2>8, <2>9 DEF ReaderFinds, ReaderKnows
  <2>. QED  BY <1>1, <2>4, <2>6, <2>10, <2>11 DEF Finds
<1>. QED  BY <1>4, <1>5

LEMMA EndedWell_Resolves ==
    ASSUME PositionsFit, Shapes, NEW K \in Kinds, OneOwner(K), ImagesOnce => RightKind(K),
           NEW w, NEW root, NEW n, EndsRooted(w, root, n), CanWriteXref(w.registry),
           file' = w.file, result'.xref = Xref(w.registry), result'.root = root,
           UNCHANGED <<isModified, documents, client>>
    PROVE  NothingIsWrittenTwice' /\ (ImagesOnce => ReferencesResolve')
<1>1. PICK m, L, U : /\ Ends(w, L, m, n, U)
                     /\ ImagesOnce => root \in 1 .. m - 1 /\ L[root] = "catalog"
  BY DEF EndsRooted
<1>2. Sound(w, Again) /\ Extends(W, w) /\ m = Len(w.registry) /\ m \in Nat
  BY <1>1 DEF Ends, Stands
<1>3. NothingIsWrittenTwice'
  <2>1. \A j, k \in 1 .. Len(w.file) : w.file[j].id = w.file[k].id =>
                                          j = k \/ w.file[j].id \in Again
    BY <1>2 DEF Sound, Once
  <2>. QED  BY <2>1 DEF NothingIsWrittenTwice, Again
<1>4. ASSUME ImagesOnce
      PROVE  ReferencesResolve'
  <2>1. ASSUME NEW i \in 1 .. m - 1
        PROVE  ReaderKnows(i)' /\ ReaderFinds(i)'.kind = L[i]
    <3>1. Finds(w, i)
      BY <1>2, <1>4, EndedReader
    <3>2. PICK k \in 1 .. Len(w.file) : ReaderFinds(i)' = w.file[k] /\ w.file[k].id = i
      BY <3>1 DEF Finds
    <3>3. w.file[k].kind = L[w.file[k].id]
      BY <1>1, <1>4 DEF Ends, Objects, Fits
    <3>. QED  BY <3>1, <3>2, <3>3 DEF Finds
  <2>2. ReaderFinds(result.root)'.kind = "catalog"
    <3>1. ReaderFinds(root)'.kind = "catalog"
      BY <1>1, <1>4, <2>1
    <3>. QED  BY <3>1 DEF ReaderFinds
  <2>3. ASSUME NEW k \in 1 .. Len(w.file)
        PROVE  Fits(w.file[k], L, m)
    BY <1>1, <1>4 DEF Ends, Objects
  <2>4. ASSUME NEW k \in 1 .. Len(w.file), NEW ref \in w.file[k].refs
        PROVE  Resolves(ref[1], ref[2])'
    BY <2>1, <2>3 DEF Fits, Resolves
  <2>5. ASSUME NEW k \in 1 .. Len(w.file), NEW kid \in ToSet(w.file[k].kids)
        PROVE  ReaderKnows(kid)'
    <3>1. PICK list \in Seq(Nat) : list = w.file[k].kids
      <4>1. w.file \in Seq(FileObject)
        BY <1>2, WriterParts DEF Sound
      <4>2. w.file[k] \in FileObject
        BY <4>1, ElementOfSeq
      <4>. QED  BY <4>2 DEF FileObject
    <3>2. PICK j \in 1 .. Len(list) : kid = list[j]
      BY <3>1 DEF ToSet
    <3>. QED  BY <2>1, <2>3, <3>1, <3>2 DEF Fits
  <2>. QED  BY <2>2, <2>4, <2>5 DEF ReferencesResolve
<1>. QED  BY <1>3, <1>4

\* Without opacities of earlier documents no task is freed.
LEMMA NothingCrashes ==
    ASSUME NEW K, OneOwner(K), NEW surfaces, surfaces \subseteq Surfaces
    PROVE  CrashesOn(surfaces) = {}
<1>1. \A s \in Surfaces : ~FreedTasks(s)
  BY DEF OneOwner, TasksOwn, FreedTasks
<1>. QED  BY <1>1 DEF CrashesOn

LEMMA CleanupForgets ==
    ASSUME OpacitiesOnce, Shapes, Asides, NEW K, OneOwner(K), Cleanup, UNCHANGED client,
           NothingIsWrittenTwice', ImagesOnce => ReferencesResolve'
    PROVE  phase' = "closed" /\ Forgotten'
<1>1. phase' = "closed"
  <2>1. CrashesOn(Surfaces) = {}
    BY NothingCrashes
  <2>. QED  BY <2>1 DEF Cleanup
<1>2. /\ registry' = EmptyRegistry /\ tree' = NoID /\ kids' = <<>> /\ annotations' = {}
      /\ trailer' = NewTrailer /\ opacityIDs' = [a \in Opacities |-> NoID]
      /\ endTasks' = [s \in Surfaces |-> <<>>]
      /\ moreEndTasks' = [s \in Surfaces |-> TasksAfterCleanup(s)]
      /\ UNCHANGED <<imageIDs, documents>>
  BY DEF Cleanup, KidsAfterCleanup, AnnotationsAfterCleanup
<1>3. ASSUME documents < client.documents
      PROVE  ~(client.documents <= 1)
  <2>1. documents \in Nat /\ documents # 0 /\ client.documents \in Nat
    BY ClientNumbers DEF Shapes, OneOwner
  <2>. QED  BY <1>3, <2>1
<1>4. ASSUME documents < client.documents
      PROVE  moreEndTasks' = [s \in Surfaces |-> <<>>]
  <2>1. client.opacities = {}
    BY <1>3, <1>4 DEF OpacitiesOnce, Shapes
  <2>2. \A s \in Surfaces : moreEndTasks[s] = <<>>
    BY <2>1 DEF OneOwner, DrawsOpacities
  <2>3. \A s \in Surfaces : TasksAfterCleanup(s) = <<>>
    BY <2>2, TasksFreed DEF Shapes
  <2>. QED  BY <1>2, <2>3
<1>5. ASSUME ImagesOnce, documents < client.documents
      PROVE  imageIDs' = [i \in Images |-> NoID]
  <2>1. client.images = {}
    BY <1>3, <1>5 DEF ImagesOnce, Shapes
  <2>2. \A i \in Images : imageIDs[i] = NoID
    BY <2>1 DEF Asides
  <2>. QED  BY <1>2, <2>2 DEF Shapes
<1>. QED  BY <1>1, <1>2, <1>4, <1>5 DEF Forgotten, Surfaces

LEMMA UnendedFile ==
    ASSUME NEW K, OneOwner(K), UNCHANGED <<file, isModified>>, result'.status # "ok"
    PROVE  NothingIsWrittenTwice' /\ ReferencesResolve'
<1>1. \A j, k \in 1 .. Len(file) : file[j].id = file[k].id => j = k
  BY DEF OneOwner, Sound, Once, W
<1>. QED  BY <1>1 DEF NothingIsWrittenTwice, ReferencesResolve, EndedWell

LEMMA EndStep ==
    ASSUME PositionsFit, OpacitiesOnce, Shapes, Asides, NEW K \in Kinds, Open(K),
           UNCHANGED client, phase = "open",
           (\E other \in BOOLEAN : EndPDF(other)) \/ EndPDFFails \/ Reset
    PROVE  phase' = "closed" /\ Forgotten'
<1>1. OneOwner(K) /\ (ImagesOnce => RightKind(K)) /\ result = NoResult
  BY DEF Open, Asides
<1>2. Cleanup
  BY DEF EndPDF, EndPDFFails, Reset
<1>3. UNCHANGED <<isModified, documents>>
  BY <1>2 DEF Cleanup
<1>4. NoResult.status # "ok" /\ [NoResult EXCEPT !.status = "failed"].status # "ok"
  BY DEF NoResult
<1>5. CASE EndPDFFails \/ Reset
  <2>1. file' = file /\ result'.status # "ok"
    BY <1>1, <1>4, <1>5 DEF EndPDFFails, Reset
  <2>. QED  BY <1>1, <1>2, <1>3, <2>1, UnendedFile, CleanupForgets
<1>6. ASSUME NEW other \in BOOLEAN, EndPDF(other)
      PROVE  phase' = "closed" /\ Forgotten'
  <2>1. PICK w : w = EncryptionWritten(InfoWritten(CatalogWritten(other)))
    OBVIOUS
  <2>2. CASE CanWriteXref(w.registry)
    <3>1. /\ file' = w.file /\ result'.xref = Xref(w.registry)
          /\ result'.root = RootAfter(other)
      BY <1>6, <2>1, <2>2 DEF EndPDF
    <3>2. PICK n : EndsRooted(w, RootAfter(other), n)
      BY <1>1, <2>1, EndingStands
    <3>3. NothingIsWrittenTwice' /\ (ImagesOnce => ReferencesResolve')
      BY <1>1, <1>3, <2>2, <3>1, <3>2, EndedWell_Resolves
    <3>. QED  BY <1>1, <1>2, <3>3, CleanupForgets
  <2>3. CASE ~CanWriteXref(w.registry)
    <3>1. file' = file /\ result'.status # "ok"
      BY <1>4, <1>6, <2>1, <2>3 DEF EndPDF
    <3>. QED  BY <1>1, <1>2, <1>3, <3>1, UnendedFile, CleanupForgets
  <2>. QED  BY <2>2, <2>3
<1>. QED  BY <1>5, <1>6

-----------------------------------------------------------------------------
(***************************************************************************)
(* The beginning of a document.                                            *)
(***************************************************************************)
OriginalKinds ==
    [i \in Nat |-> IF i = 1 THEN "catalog" ELSE IF i = 2 THEN "pages"
                   ELSE IF i = 3 THEN "page" ELSE "encrypt"]

LEMMA OriginalsKinds ==
    /\ OriginalKinds \in Kinds
    /\ OriginalKinds[1] = "catalog" /\ OriginalKinds[2] = "pages"
    /\ OriginalKinds[3] = "page" /\ OriginalKinds[4] = "encrypt"
BY Names DEF OriginalKinds, Kinds

\* What is used as a kind, of an original object.
LEMMA OriginalFits ==
    ASSUME NEW m \in Nat, 4 <= m, NEW o,
           \/ o = Object(1, "catalog", Refs("Pages", {2}), <<>>)
           \/ o = Object(2, "pages", {}, << 3 >>)
           \/ o = Object(3, "page", Refs("Parent", {2}), <<>>)
           \/ o = Object(4, "encrypt", {}, <<>>)
    PROVE  o \in FileObject /\ Fits(o, OriginalKinds, m)
<1>1. /\ 2 \in Nat /\ 1 \in Nat /\ 3 \in Nat /\ 4 \in Nat
      /\ <<>> \in Seq(Nat) /\ <<3>> \in Seq(Nat)
      /\ {} \in SUBSET (RoleNames \X Nat)
  OBVIOUS
<1>2. 2 \in 1 .. m - 1 /\ 3 \in 1 .. m - 1
  OBVIOUS
<1>3. ASSUME NEW role \in RoleNames, KindsFor(role) = {"pages"}
      PROVE  /\ Refs(role, {2}) \in SUBSET (RoleNames \X Nat)
             /\ RefsFit(Refs(role, {2}), OriginalKinds, m)
  <2>1. OriginalKinds[2] \in KindsFor(role)
    BY <1>3, OriginalsKinds
  <2>2. PICK i \in Nat : i = 2
    OBVIOUS
  <2>3. i \in 1 .. m - 1 /\ OriginalKinds[i] \in KindsFor(role)
    BY <1>2, <2>1, <2>2
  <2>4. Refs(role, {i}) \in SUBSET (RoleNames \X Nat) /\ RefsFit(Refs(role, {i}), OriginalKinds, m)
    BY <2>3, OneRef
  <2>. QED  BY <2>2, <2>4
<1>4. ASSUME NEW id \in Nat, NEW kind \in KindNames, NEW refs \in SUBSET (RoleNames \X Nat),
             NEW list \in Seq(Nat), o = Object(id, kind, refs, list),
             kind = OriginalKinds[id], RefsFit(refs, OriginalKinds, m),
             \A k \in 1 .. Len(list) : list[k] \in 1 .. m - 1
      PROVE  o \in FileObject /\ Fits(o, OriginalKinds, m)
  <2>1. o \in FileObject /\ o.id = id /\ o.kind = kind /\ o.refs = refs /\ o.kids = list
    BY <1>4, PlainObject
  <2>. QED  BY <1>4, <2>1 DEF Fits, RefsFit
<1>5. RefsFit({}, OriginalKinds, m)
  BY DEF RefsFit
<1>6. /\ \A k \in 1 .. Len(<<>>) : <<>>[k] \in 1 .. m - 1
      /\ \A k \in 1 .. Len(<<3>>) : <<3>>[k] \in 1 .. m - 1
  BY <1>2
<1>7. CASE o = Object(1, "catalog", Refs("Pages", {2}), <<>>)
  <2>1. PICK kind \in KindNames, role \in RoleNames : kind = "catalog" /\ role = "Pages"
    BY Names
  <2>2. KindsFor(role) = {"pages"} /\ kind = OriginalKinds[1]
    BY <2>1, Roles, OriginalsKinds
  <2>3. /\ Refs(role, {2}) \in SUBSET (RoleNames \X Nat)
        /\ RefsFit(Refs(role, {2}), OriginalKinds, m)
    BY <1>3, <2>2
  <2>4. o = Object(1, kind, Refs(role, {2}), <<>>)
    BY <1>7, <2>1
  <2>. QED  BY <1>1, <1>4, <1>6, <2>2, <2>3, <2>4
<1>8. CASE o = Object(2, "pages", {}, <<3>>)
  <2>1. PICK kind \in KindNames : kind = "pages"
    BY Names
  <2>2. o = Object(2, kind, {}, <<3>>) /\ kind = OriginalKinds[2]
    BY <1>8, <2>1, OriginalsKinds
  <2>. QED  BY <1>1, <1>4, <1>5, <1>6, <2>2
<1>9. CASE o = Object(3, "page", Refs("Parent", {2}), <<>>)
  <2>1. PICK kind \in KindNames, role \in RoleNames : kind = "page" /\ role = "Parent"
    BY Names
  <2>2. KindsFor(role) = {"pages"} /\ kind = OriginalKinds[3]
    BY <2>1, Roles, OriginalsKinds
  <2>3. /\ Refs(role, {2}) \in SUBSET (RoleNames \X Nat)
        /\ RefsFit(Refs(role, {2}), OriginalKinds, m)
    BY <1>3, <2>2
  <2>4. o = Object(3, kind, Refs(role, {2}), <<>>)
    BY <1>9, <2>1
  <2>. QED  BY <1>1, <1>4, <1>6, <2>2, <2>3, <2>4
<1>10. CASE o = Object(4, "encrypt", {}, <<>>)
  <2>1. PICK kind \in KindNames : kind = "encrypt"
    BY Names
  <2>2. o = Object(4, kind, {}, <<>>) /\ kind = OriginalKinds[4]
    BY <1>10, <2>1, OriginalsKinds
  <2>. QED  BY <1>1, <1>4, <1>5, <1>6, <2>2
<1>. QED  BY <1>7, <1>8, <1>9, <1>10

IsOriginal(f, n) ==
    /\ f \in Seq(FileObject) /\ Len(f) = n /\ n \in Nat /\ 3 <= n
    /\ \A k \in 1 .. n : f[k].id = k /\ Fits(f[k], OriginalKinds, n + 1)

LEMMA OriginalFileIs ==
    ASSUME NEW encrypted \in BOOLEAN, NEW f, f = OriginalFile(encrypted),
           NEW n, n = IF encrypted THEN 4 ELSE 3
    PROVE  IsOriginal(f, n)
<1>1. PICK a, b, c, d : /\ a = Object(1, "catalog", Refs("Pages", {2}), <<>>)
                        /\ b = Object(2, "pages", {}, <<3>>)
                        /\ c = Object(3, "page", Refs("Parent", {2}), <<>>)
                        /\ d = Object(4, "encrypt", {}, <<>>)
  OBVIOUS
<1>2. n \in Nat /\ 3 <= n /\ n + 1 \in Nat /\ 4 <= n + 1
  OBVIOUS
<1>3. /\ a \in FileObject /\ b \in FileObject /\ c \in FileObject /\ d \in FileObject
      /\ Fits(a, OriginalKinds, n + 1) /\ Fits(b, OriginalKinds, n + 1)
      /\ Fits(c, OriginalKinds, n + 1) /\ Fits(d, OriginalKinds, n + 1)
  BY <1>1, <1>2, OriginalFits
<1>4. a.id = 1 /\ b.id = 2 /\ c.id = 3 /\ d.id = 4
  BY <1>1 DEF Object
<1>5. f = <<a, b, c>> \o (IF encrypted THEN <<d>> ELSE <<>>)
  BY <1>1 DEF OriginalFile
<1>6. CASE encrypted
  <2>1. f = <<a, b, c>> \o <<d>>
    BY <1>5, <1>6
  <2>2. PICK s, t : s = <<a, b, c>> /\ t = <<d>>
    OBVIOUS
  <2>3. /\ s \in Seq(FileObject) /\ Len(s) = 3 /\ s[1] = a /\ s[2] = b /\ s[3] = c
        /\ t \in Seq(FileObject) /\ Len(t) = 1 /\ t[1] = d
    BY <1>3, <2>2
  <2>5. /\ f \in Seq(FileObject) /\ Len(f) = 3 + 1
        /\ \A k \in 1 .. 3 + 1 : f[k] = IF k <= 3 THEN s[k] ELSE t[k - 3]
    BY <2>1, <2>2, <2>3, ConcatProperties
  <2>6. f[1] = a /\ f[2] = b /\ f[3] = c /\ f[4] = d /\ Len(f) = 4
    BY <2>3, <2>5
  <2>4. \A k \in 1 .. 4 : k = 1 \/ k = 2 \/ k = 3 \/ k = 4
    OBVIOUS
  <2>. QED  BY <1>2, <1>3, <1>4, <1>6, <2>4, <2>5, <2>6 DEF IsOriginal
<1>7. CASE ~encrypted
  <2>1. f = <<a, b, c>> \o <<>>
    BY <1>5, <1>7
  <2>2. f = <<a, b, c>>
    BY <2>1
  <2>3. /\ f \in Seq(FileObject) /\ Len(f) = 3
        /\ f[1] = a /\ f[2] = b /\ f[3] = c
    BY <1>3, <2>2
  <2>4. \A k \in 1 .. 3 : k = 1 \/ k = 2 \/ k = 3
    OBVIOUS
  <2>. QED  BY <1>2, <1>3, <1>4, <1>7, <2>3, <2>4 DEF IsOriginal
<1>. QED  BY <1>6, <1>7

LEMMA InitialEntries ==
    ASSUME NEW f, NEW n \in Nat, Len(f) = n, NEW r,
           r = SetupXrefFromModifiedFile(EmptyRegistry, OriginalXref(f))
    PROVE  /\ r \in Seq(ObjectWriteInformation) /\ Len(r) = n + 1
           /\ r[1].type = "Free" /\ ~r[1].written
           /\ \A i \in 1 .. n : /\ r[i + 1].type = "Used" /\ r[i + 1].written
                                /\ ~r[i + 1].dirty /\ r[i + 1].position = i - 1
<1>1. PICK xref : xref = OriginalXref(f)
  OBVIOUS
<1>2. /\ Len(xref) = n
      /\ \A i \in 1 .. n : xref[i] = [type |-> "Existing", position |-> i - 1, revision |-> 0]
  BY <1>1 DEF OriginalXref
<1>3. PICK items : items = [i \in 1 .. Len(xref) |-> ExistingItem(xref[i])]
  OBVIOUS
<1>4. ASSUME NEW i \in 1 .. n
      PROVE  items[i] = [type |-> "Used", written |-> TRUE, dirty |-> FALSE,
                         position |-> i - 1, generation |-> 0]
  <2>1. PICK x : x = xref[i]
    OBVIOUS
  <2>2. x.type = "Existing" /\ x.position = i - 1 /\ x.revision = 0
    BY <1>2, <2>1
  <2>3. ExistingItem(x) = [type |-> "Used", written |-> TRUE, dirty |-> FALSE,
                           position |-> i - 1, generation |-> 0]
    BY <2>2 DEF ExistingItem
  <2>4. i \in 1 .. Len(xref)
    BY <1>2
  <2>. QED  BY <1>3, <2>1, <2>3, <2>4
<1>5. ASSUME NEW i \in 1 .. n
      PROVE  /\ items[i] \in ObjectWriteInformation
             /\ items[i].type = "Used" /\ items[i].written
             /\ ~items[i].dirty /\ items[i].position = i - 1
  <2>1. i - 1 \in Nat /\ 0 \in 0 .. MaxGeneration
    BY RegistryAssumption
  <2>2. PICK x : x = [type |-> "Used", written |-> TRUE, dirty |-> FALSE,
                      position |-> i - 1, generation |-> 0]
    OBVIOUS
  <2>3. /\ x \in ObjectWriteInformation
        /\ x.type = "Used" /\ x.written /\ ~x.dirty /\ x.position = i - 1
    BY <2>1, <2>2 DEF ObjectWriteInformation, ReferenceTypes
  <2>4. items[i] = x
    BY <1>4, <2>2
  <2>. QED  BY <2>3, <2>4
<1>6. items \in Seq(ObjectWriteInformation) /\ Len(items) = n
  BY <1>2, <1>3, <1>5, IsASeq
<1>7. PICK first : first = InitialFreeObject
  OBVIOUS
<1>8. first \in ObjectWriteInformation /\ first.type = "Free" /\ ~first.written
  BY <1>7, RegistryAssumption DEF InitialFreeObject, ObjectWriteInformation, ReferenceTypes
<1>9. r = <<first>> \o items
  BY <1>1, <1>3, <1>7 DEF SetupXrefFromModifiedFile, EmptyRegistry
<1>10. /\ r \in Seq(ObjectWriteInformation) /\ Len(r) = n + 1 /\ r[1] = first
       /\ \A i \in 1 .. n : r[i + 1] = items[i]
  <2>1. <<first>> \in Seq(ObjectWriteInformation) /\ Len(<<first>>) = 1 /\ <<first>>[1] = first
    BY <1>8
  <2>2. \A i \in 1 .. n : i + 1 \in 1 .. 1 + n /\ i + 1 > 1 /\ (i + 1) - 1 = i
    OBVIOUS
  <2>. QED  BY <1>6, <1>9, <2>1, <2>2, ConcatProperties
<1>. QED  BY <1>5, <1>8, <1>10

\* The writer a document begins with: the modified file's objects, or none.
LEMMA FirstWriter ==
    ASSUME NEW n \in Nat, NEW f \in Seq(FileObject), Len(f) = n,
           \A k \in 1 .. n : f[k].id = k, NEW w,
           w = [registry |-> SetupXrefFromModifiedFile(EmptyRegistry, OriginalXref(f)),
                file |-> f]
    PROVE  /\ Stands(w, {}, n + 1, {}, {f[k] : k \in 1 .. n})
           /\ Clean(w) \subseteq 1 .. n
<1>1. PICK r : r = SetupXrefFromModifiedFile(EmptyRegistry, OriginalXref(f))
  OBVIOUS
<1>2. /\ r \in Seq(ObjectWriteInformation) /\ Len(r) = n + 1
      /\ r[1].type = "Free" /\ ~r[1].written
      /\ \A i \in 1 .. n : /\ r[i + 1].type = "Used" /\ r[i + 1].written
                           /\ ~r[i + 1].dirty /\ r[i + 1].position = i - 1
  BY <1>1, InitialEntries
<1>3. w.registry = r /\ w.file = f /\ w \in Writers
  BY <1>1, <1>2 DEF Writers
<1>4. Len(r) - 1 = n /\ Len(r) \in Nat \ {0}
  BY <1>2
<1>5. \A i \in 1 .. n : EntryIsRight(w, i)
  <2>1. \A i \in 1 .. n : (i - 1) + 1 = i
    OBVIOUS
  <2>. QED  BY <1>2, <1>3, <2>1 DEF EntryIsRight
<1>6. \A k \in 1 .. Len(f) : ObjectIsKnown(w, k)
  BY <1>2, <1>3, <1>4 DEF ObjectIsKnown
<1>7. Once(f, {})
  BY DEF Once
<1>8. Sound(w, {})
  BY <1>2, <1>3, <1>4, <1>5, <1>6, <1>7 DEF Sound
<1>9. Unwritten(w) = {}
  BY <1>2, <1>3, <1>4 DEF Unwritten
<1>10. Objects(w) = {f[k] : k \in 1 .. n}
  BY <1>3 DEF Objects
<1>11. Clean(w) \subseteq 1 .. n
  BY <1>3, <1>4 DEF Clean
<1>. QED  BY <1>2, <1>3, <1>8, <1>9, <1>10, <1>11 DEF Stands

LEMMA NewWriter ==
    ASSUME NEW w, w = [registry |-> EmptyRegistry, file |-> <<>>]
    PROVE  Stands(w, {}, 1, {}, {}) /\ Clean(w) = {}
<1>1. PICK first : first = InitialFreeObject
  OBVIOUS
<1>2. first \in ObjectWriteInformation /\ first.type = "Free" /\ ~first.written
  BY <1>1, RegistryAssumption DEF InitialFreeObject, ObjectWriteInformation, ReferenceTypes
<1>3. PICK r : r = <<first>>
  OBVIOUS
<1>4. r \in Seq(ObjectWriteInformation) /\ Len(r) = 1 /\ r[1] = first
  BY <1>2, <1>3
<1>5. w.registry = r /\ w.file = <<>> /\ w \in Writers
  <2>1. <<>> \in Seq(FileObject)
    OBVIOUS
  <2>2. w = [registry |-> r, file |-> <<>>]
    BY <1>1, <1>3 DEF EmptyRegistry
  <2>. QED  BY <1>4, <2>1, <2>2 DEF Writers
<1>6. \A i \in 1 .. Len(r) - 1 : FALSE
  BY <1>4
<1>7. \A k \in 1 .. Len(w.file) : FALSE
  BY <1>5
<1>8. Sound(w, {})
  <2>1. Once(w.file, {})
    BY <1>7 DEF Once
  <2>2. /\ \A i \in 1 .. Len(w.registry) - 1 : EntryIsRight(w, i)
        /\ \A k \in 1 .. Len(w.file) : ObjectIsKnown(w, k)
    BY <1>5, <1>6, <1>7
  <2>3. Len(w.registry) = 1 /\ 1 \in Nat \ {0}
    <3>1. w.registry = r
      BY <1>5
    <3>. QED  BY <1>4, <3>1
  <2>4. w.registry[1] = first
    BY <1>4, <1>5
  <2>. QED  BY <1>2, <1>5, <2>1, <2>2, <2>3, <2>4 DEF Sound
<1>9. Unwritten(w) = {} /\ Clean(w) = {} /\ Objects(w) = {}
  BY <1>5, <1>6, <1>7 DEF Unwritten, Clean, Objects
<1>. QED  BY <1>4, <1>5, <1>8, <1>9 DEF Stands

\* A document that begins, with the n objects of the modified file or with none.
LEMMA Begins ==
    ASSUME Shapes, Forgotten, NextDocument, UNCHANGED client, NEW K \in Kinds, NEW n \in Nat,
           n <= 4, NEW P, Stands(W', {}, n + 1, {}, P), \A o \in P : Fits(o, K, n + 1),
           OriginalsStart', trailer'.root = IF isModified' THEN 1 ELSE NoID,
           isModified' => K[1] = "catalog" /\ K[2] = "pages",
           Clean(W') \subseteq IF isModified' THEN 1 .. OriginalCount' ELSE {}
    PROVE  Open(K)'
<1>1. /\ registry = EmptyRegistry /\ tree = NoID /\ kids = <<>> /\ annotations = {}
      /\ opacityIDs = [a \in Opacities |-> NoID]
      /\ endTasks = [s \in Surfaces |-> <<>>] /\ moreEndTasks = [s \in Surfaces |-> <<>>]
      /\ ImagesOnce => imageIDs = [i \in Images |-> NoID]
  BY DEF Forgotten, NextDocument
<1>2. /\ UNCHANGED <<tree, kids, annotations, imageIDs, opacityIDs, endTasks, moreEndTasks>>
      /\ pages' = [p \in PageObjects |-> NewPDFPage]
      /\ form' = NoForm /\ stream' = NoStream /\ forms' = {}
      /\ documents' = documents + 1
  BY DEF NextDocument
<1>3. Sound(W', {}) /\ Unwritten(W') = {} /\ Len(registry') = n + 1 /\ Objects(W') = P
  BY DEF Stands, W
<1>4. OneOwner(K)'
  <2>1. RegistryFits'
    BY <1>3 DEF RegistryFits
  <2>2. TasksOwn(endTasks', "image", K, {}) /\ TasksOwn(moreEndTasks', "gstate", K, {})
    BY <1>1, <1>2, NoTasksOwn
  <2>3. StreamOwns(K, {})' /\ TreeOwned(K, {})'
    BY <1>1, <1>2 DEF StreamOwns, TreeOwned, NoForm
  <2>4. FormsKnown(K)'
    BY <1>2 DEF FormsKnown
  <2>5. \A s \in Surfaces : moreEndTasks'[s] = <<>>
    BY <1>1, <1>2
  <2>6. documents' # 0
    BY <1>2 DEF Shapes
  <2>. QED  BY <1>3, <2>1, <2>2, <2>3, <2>4, <2>5, <2>6 DEF OneOwner, Surfaces
<1>5. ASSUME ImagesOnce
      PROVE  RightKind(K)'
  <2>1. \A p \in PageObjects : PageFits(pages'[p], K, n + 1)
    <3>1. ToSet(<<>>) = {}
      BY DEF ToSet
    <3>. QED  BY <1>2, <3>1 DEF PageFits, SurfaceFits, Used, NewPDFPage
  <2>2. SurfaceFits(form', K, n + 1)
    BY <1>2 DEF SurfaceFits, Used, NoForm
  <2>3. Used(annotations', {"annotation"}, K, n + 1)
    BY <1>1, <1>2 DEF Used
  <2>4. /\ \A i \in Images : imageIDs'[i] = NoID
        /\ \A a \in Opacities : opacityIDs'[a] = NoID
    BY <1>1, <1>2, <1>5
  <2>5. \A k \in 1 .. Len(kids') : FALSE
    BY <1>1, <1>2
  <2>. QED  BY <1>3, <2>1, <2>2, <2>3, <2>4, <2>5 DEF RightKind
<1>. QED  BY <1>4, <1>5 DEF Open

LEMMA StartStep ==
    ASSUME Shapes, Forgotten, UNCHANGED client, StartPDF \/ ModifyPDF
    PROVE  phase' = "open" /\ \E K \in Kinds : Open(K)'
<1>1. NextDocument /\ phase' = "open"
  BY DEF StartPDF, ModifyPDF, NextDocument
<1>2. registry = EmptyRegistry /\ trailer = NewTrailer /\ NewTrailer.root = NoID
  BY DEF Forgotten, NewTrailer
<1>3. CASE StartPDF
  <2>1. registry' = EmptyRegistry /\ file' = <<>> /\ isModified' = FALSE /\ trailer' = trailer
    BY <1>2, <1>3 DEF StartPDF
  <2>2. Stands(W', {}, 0 + 1, {}, {}) /\ Clean(W') = {}
    <3>1. W' = [registry |-> EmptyRegistry, file |-> <<>>]
      BY <2>1 DEF W
    <3>2. Stands(W', {}, 1, {}, {}) /\ Clean(W') = {}
      BY <3>1, NewWriter
    <3>. QED  BY <3>2
  <2>3. OriginalsStart' /\ trailer'.root = NoID
    BY <1>2, <2>1 DEF OriginalsStart
  <2>4. OriginalKinds \in Kinds /\ 0 \in Nat /\ 0 <= 4
    BY OriginalsKinds
  <2>5. Open(OriginalKinds)'
    BY <1>1, <2>1, <2>2, <2>3, <2>4, Begins
  <2>. QED  BY <1>1, <2>4, <2>5
<1>4. CASE ModifyPDF
  <2>1. PICK encrypted \in BOOLEAN : encrypted <=> documents' \in client.encrypted
    <3>1. CASE documents' \in client.encrypted
      BY <3>1
    <3>2. CASE documents' \notin client.encrypted
      BY <3>2
    <3>. QED  BY <3>1, <3>2
  <2>2. PICK f, n : f = OriginalFile(encrypted) /\ n = IF encrypted THEN 4 ELSE 3
    OBVIOUS
  <2>3. /\ f \in Seq(FileObject) /\ Len(f) = n /\ n \in Nat /\ 3 <= n
        /\ \A k \in 1 .. n : f[k].id = k /\ Fits(f[k], OriginalKinds, n + 1)
    <3>1. IsOriginal(f, n)
      BY <2>2, OriginalFileIs
    <3>. QED  BY <3>1 DEF IsOriginal
  <2>4. /\ file' = f /\ isModified' = TRUE /\ trailer'.root = 1
        /\ registry' = SetupXrefFromModifiedFile(EmptyRegistry, OriginalXref(f))
    BY <1>2, <1>4, <2>1, <2>2 DEF ModifyPDF, NewTrailer
  <2>5. OriginalCount' = n
    BY <2>1, <2>2 DEF OriginalCount
  <2>6. Stands(W', {}, n + 1, {}, {f[k] : k \in 1 .. n}) /\ Clean(W') \subseteq 1 .. n
    <3>1. W' = [registry |-> SetupXrefFromModifiedFile(EmptyRegistry, OriginalXref(f)),
                file |-> f]
      BY <2>4 DEF W
    <3>. QED  BY <2>3, <3>1, FirstWriter
  <2>7. OriginalsStart'
    BY <2>3, <2>4, <2>5 DEF OriginalsStart
  <2>8. \A o \in {f[k] : k \in 1 .. n} : Fits(o, OriginalKinds, n + 1)
    BY <2>3
  <2>9. /\ OriginalKinds \in Kinds /\ n \in Nat /\ n <= 4
        /\ OriginalKinds[1] = "catalog" /\ OriginalKinds[2] = "pages"
    BY <2>2, <2>3, OriginalsKinds
  <2>10. Open(OriginalKinds)'
    BY <1>1, <2>4, <2>5, <2>6, <2>7, <2>8, <2>9, Begins
  <2>. QED  BY <1>1, <2>9, <2>10
<1>. QED  BY <1>3, <1>4

-----------------------------------------------------------------------------
(***************************************************************************)
(* The steps together, and what is invariant.                              *)
(***************************************************************************)
LEMMA AsidesKept ==
    ASSUME Shapes, Asides, Calls, UNCHANGED client
    PROVE  Asides'
<1>1. ASSUME phase' # "open" \/ result' = result \/ result' = NoResult,
             phase' = phase \/ phase' # "open" \/ result' = NoResult,
             \A i \in Images : \/ i \in client.images
                               \/ imageIDs'[i] = imageIDs[i] \/ imageIDs'[i] = NoID
      PROVE  Asides'
  BY <1>1 DEF Asides
<1>2. CASE StartPDF \/ ModifyPDF
  <2>1. result' = NoResult /\ imageIDs' = imageIDs
    BY <1>2 DEF StartPDF, ModifyPDF, NextDocument
  <2>. QED  BY <1>1, <2>1
<1>3. CASE (\E other \in BOOLEAN : EndPDF(other)) \/ EndPDFFails \/ Reset
  <2>1. Cleanup
    BY <1>3 DEF EndPDF, EndPDFFails, Reset
  <2>2. phase' # "open" /\ imageIDs' = imageIDs
    BY <2>1 DEF Cleanup, CrashesOn
  <2>. QED  BY <1>1, <2>2
<1>4. CASE ShutdownAndContinue
  <2>1. phase' = phase /\ result' = result /\ \A i \in Images : imageIDs'[i] = NoID
    BY <1>4 DEF ShutdownAndContinue
  <2>. QED  BY <1>1, <2>1
<1>5. ASSUME NEW s \in Surfaces, NEW image \in client.images, DrawImage(s, image)
      PROVE  Asides'
  <2>1. phase' = phase /\ result' = result
    BY <1>5 DEF DrawImage, history
  <2>2. imageIDs' = imageIDs \/ imageIDs' = [imageIDs EXCEPT ![image] = NextID(W)]
    BY <1>5 DEF DrawImage
  <2>3. imageIDs \in [Images -> Nat]
    BY DEF Shapes
  <2>4. \A i \in Images : i = image \/ imageIDs'[i] = imageIDs[i]
    BY <2>2, <2>3
  <2>. QED  BY <1>1, <1>5, <2>1, <2>4
<1>6. ASSUME NEW p \in PageObjects, NEW release \in BOOLEAN,
             \/ \E n \in 0 .. Len(endTasks[p]) : WritePage(p, n, release)
             \/ WritePageFailsOnResources(p, release)
      PROVE  Asides'
  <2>1. result' = result /\ imageIDs' = imageIDs /\ (phase' = phase \/ phase' # "open")
    BY <1>6 DEF WritePage, WritePageFailsOnResources, AddPageToPageTree, CrashesOn
  <2>. QED  BY <1>1, <2>1
<1>7. CASE \/ SetCreationDate \/ EndContentStream \/ AllocateForm
           \/ AttachURLLinktoCurrentPage
           \/ \E p \in PageObjects : StartContentStream(p)
           \/ \E s \in Surfaces, alpha \in client.opacities : SetOpacity(s, alpha)
           \/ \E id \in forms : \/ StartFormXObject(id)
                                \/ \E p \in PageObjects : DrawForm(p, id)
           \/ \E n \in 0 .. Len(endTasks[Form]) : EndFormXObject(n)
  <2>1. phase' = phase /\ result' = result /\ imageIDs' = imageIDs
    BY <1>7 DEF SetCreationDate, EndContentStream, AllocateForm, AttachURLLinktoCurrentPage,
                StartContentStream, SetOpacity, StartFormXObject, DrawForm, EndFormXObject,
                history, drawing
  <2>. QED  BY <1>1, <2>1
<1>8. ClientPages \subseteq PageObjects
  BY DEF ClientPages
<1>. QED  BY <1>2, <1>3, <1>4, <1>5, <1>6, <1>7, <1>8 DEF Calls

\* The steps of an open document other than its end.
Steps ==
    \/ SetCreationDate
    \/ \E p \in PageObjects : StartContentStream(p)
    \/ EndContentStream
    \/ \E s \in Surfaces : \/ \E image \in client.images : DrawImage(s, image)
                           \/ \E alpha \in client.opacities : SetOpacity(s, alpha)
    \/ AllocateForm
    \/ \E id \in forms : StartFormXObject(id) \/ \E p \in PageObjects : DrawForm(p, id)
    \/ \E n \in 0 .. Len(endTasks[Form]) : EndFormXObject(n)
    \/ AttachURLLinktoCurrentPage
    \/ \E p \in PageObjects, release \in BOOLEAN :
          \/ \E n \in 0 .. Len(endTasks[p]) : WritePage(p, n, release)
          \/ WritePageFailsOnResources(p, release)
    \/ ShutdownAndContinue

Endings == (\E other \in BOOLEAN : EndPDF(other)) \/ EndPDFFails \/ Reset

LEMMA CallsAre ==
    ASSUME Calls
    PROVE  StartPDF \/ ModifyPDF \/ Steps \/ Endings
<1>1. ClientPages \subseteq PageObjects
  BY DEF ClientPages
<1>. QED  BY <1>1 DEF Calls, Steps, Endings

LEMMA StepShapes ==
    ASSUME Shapes, Steps, UNCHANGED client, registry \in Seq(ObjectWriteInformation),
           forms \subseteq Nat
    PROVE  Shapes'
<1>1. Len(registry) \in Nat
  BY LenProperties
<1>2. \A s \in Surfaces : 0 .. Len(endTasks[s]) \subseteq Nat
  OBVIOUS
<1>3. Form \in Surfaces /\ PageObjects \subseteq Surfaces
  BY DEF Surfaces
<1>4. CASE (\E p \in PageObjects : StartContentStream(p)) \/ EndContentStream
  BY <1>1, <1>4, StreamShapes
<1>5. CASE \E s \in Surfaces : \/ \E image \in client.images : DrawImage(s, image)
                               \/ \E alpha \in client.opacities : SetOpacity(s, alpha)
  BY <1>1, <1>5, DrawingShapes
<1>6. CASE \/ AllocateForm
           \/ \E id \in forms : StartFormXObject(id) \/ \E p \in PageObjects : DrawForm(p, id)
           \/ \E n \in 0 .. Len(endTasks[Form]) : EndFormXObject(n)
  BY <1>1, <1>2, <1>3, <1>6, FormShapes
<1>7. CASE \/ AttachURLLinktoCurrentPage
           \/ \E p \in PageObjects, release \in BOOLEAN :
                 \/ \E n \in 0 .. Len(endTasks[p]) : WritePage(p, n, release)
                 \/ WritePageFailsOnResources(p, release)
  BY <1>2, <1>3, <1>7, PageShapes
<1>8. CASE ShutdownAndContinue \/ SetCreationDate
  BY <1>8, RestartShapes
<1>. QED  BY <1>4, <1>5, <1>6, <1>7, <1>8 DEF Steps

LEMMA StepOnward ==
    ASSUME PositionsFit, Shapes, Shapes', NEW K \in Kinds, OneOwner(K), UNCHANGED client,
           Steps
    PROVE  Onward(K)
<1>1. CASE SetCreationDate
  BY <1>1, CreationDateOnward
<1>2. CASE \E p \in PageObjects : StartContentStream(p)
  BY <1>2, StartContentOnward
<1>3. CASE EndContentStream
  BY <1>3, EndContentOnward
<1>4. CASE \E s \in Surfaces, image \in client.images : DrawImage(s, image)
  BY <1>4, DrawImageOnward
<1>5. CASE \E s \in Surfaces, alpha \in client.opacities : SetOpacity(s, alpha)
  BY <1>5, SetOpacityOnward
<1>6. CASE AllocateForm
  BY <1>6, AllocateFormOnward
<1>7. CASE \E id \in forms : StartFormXObject(id)
  BY <1>7, StartFormOnward
<1>8. CASE \E id \in forms, p \in PageObjects : DrawForm(p, id)
  BY <1>8, DrawFormOnward
<1>9. CASE \E n \in 0 .. Len(endTasks[Form]) : EndFormXObject(n)
  BY <1>9, EndFormOnward
<1>10. CASE AttachURLLinktoCurrentPage
  BY <1>10, AttachLinkOnward
<1>11. ASSUME NEW p \in PageObjects, NEW release \in BOOLEAN,
              NEW n \in 0 .. Len(endTasks[p]), WritePage(p, n, release)
       PROVE  Onward(K)
  BY <1>11, WritePageOnward
<1>12. CASE \E p \in PageObjects, release \in BOOLEAN : WritePageFailsOnResources(p, release)
  BY <1>12, BrokenPageOnward
<1>13. CASE ShutdownAndContinue
  BY <1>13, RestartOnward
<1>. QED  BY <1>1, <1>2, <1>3, <1>4, <1>5, <1>6, <1>7, <1>8, <1>9, <1>10, <1>11, <1>12, <1>13
          DEF Steps

LEMMA StepStaysOpen ==
    ASSUME NEW K, OneOwner(K), phase = "open", Steps
    PROVE  phase' = "open"
<1>1. ASSUME NEW p \in PageObjects, NEW release \in BOOLEAN, NEW n, WritePage(p, n, release)
      PROVE  phase' = phase
  <2>1. {p} \subseteq Surfaces
    BY DEF Surfaces
  <2>2. CrashesOn({p}) = {}
    BY <2>1, NothingCrashes
  <2>. QED  BY <1>1, <2>2 DEF WritePage
<1>2. CASE \E p \in PageObjects, release \in BOOLEAN :
              \/ \E n \in 0 .. Len(endTasks[p]) : WritePage(p, n, release)
              \/ WritePageFailsOnResources(p, release)
  BY <1>1, <1>2 DEF WritePageFailsOnResources
<1>. QED  BY <1>2 DEF Steps, SetCreationDate, EndContentStream, AllocateForm,
                       AttachURLLinktoCurrentPage, StartContentStream, SetOpacity, DrawImage,
                       StartFormXObject, DrawForm, EndFormXObject, ShutdownAndContinue

LEMMA OpenPhases ==
    /\ (StartPDF \/ ModifyPDF) => phase = "closed"
    /\ Steps => phase = "open"
    /\ Endings => phase = "open" /\ Cleanup
<1>1. (StartPDF \/ ModifyPDF) => phase = "closed"
  BY DEF StartPDF, ModifyPDF, NextDocument
<1>2. ASSUME Steps
      PROVE  phase = "open"
  BY <1>2 DEF Steps, SetCreationDate, EndContentStream, AllocateForm,
              AttachURLLinktoCurrentPage, StartContentStream, SetOpacity, DrawImage,
              StartFormXObject, DrawForm, EndFormXObject, ShutdownAndContinue, WritePage,
              WritePageFailsOnResources, AddPageToPageTree, Idle, Drawing
<1>3. Endings => phase = "open" /\ Cleanup
  BY DEF Endings, EndPDF, EndPDFFails, Reset
<1>. QED  BY <1>1, <1>2, <1>3

LEMMA InitInvariant ==
    ASSUME Init
    PROVE  DInv
<1>1. client \in Clients /\ 0 \in Nat /\ <<>> \in Seq(Nat) /\ {} \subseteq Nat
  BY DEF Init
<1>2. helper \in HelperRecord
  BY DEF Init, NoHelper, HelperRecord, Plain
<1>3. Shapes
  BY <1>1, <1>2, NoSurfaces DEF Init, Shapes, NoID
<1>4. phase = "closed" /\ result = NoResult /\ NoResult.status # "ok"
  BY DEF Init, NoResult
<1>5. Asides
  BY <1>4 DEF Init, Asides
<1>6. NothingIsWrittenTwice
  <2>1. file = <<>> /\ Len(file) = 0
    BY DEF Init
  <2>2. 1 .. 0 = {}
    OBVIOUS
  <2>. QED  BY <2>1, <2>2 DEF NothingIsWrittenTwice
<1>7. ReferencesResolve
  BY <1>4 DEF ReferencesResolve, EndedWell
<1>8. Forgotten
  BY <1>6, <1>7 DEF Init, Forgotten
<1>. QED  BY <1>3, <1>4, <1>5, <1>8 DEF DInv

\* Nothing happens: the document was the last, or the process is gone.
LEMMA Unchanged ==
    ASSUME DInv, UNCHANGED vars
    PROVE  DInv'
<1>1. UNCHANGED <<phase, registry, file, tree, kids, annotations, trailer, pages, form,
                  stream, imageIDs, opacityIDs, endTasks, moreEndTasks, isModified,
                  modifiedIDExists, newPDFID, documents, helper, result, lost, forms,
                  restarts, failures, client>>
  BY DEF vars, document, drawing, identity, history
<1>2. Shapes' = Shapes
  BY <1>1 DEF Shapes
<1>3. Asides' = Asides
  BY <1>1 DEF Asides
<1>4. NothingIsWrittenTwice' = NothingIsWrittenTwice
  BY <1>1 DEF NothingIsWrittenTwice
<1>5. ReferencesResolve' = ReferencesResolve
  BY <1>1 DEF ReferencesResolve, EndedWell, Resolves, ReaderKnows, ReaderFinds,
              OriginalObjects
<1>6. Forgotten' = Forgotten
  BY <1>1, <1>4, <1>5 DEF Forgotten
<1>7. W' = W
  BY <1>1 DEF W
<1>8. ASSUME NEW K \in Kinds, OneOwner(K)
      PROVE  OneOwner(K)'
  BY <1>1, <1>7, <1>8 DEF OneOwner, RegistryFits, OriginalsStart, OriginalCount, TasksOwn,
     StreamOwns, TreeOwned, FormsKnown, Owed, TaskIDsOf, DrawsOpacities
<1>9. ASSUME NEW K \in Kinds, RightKind(K)
      PROVE  RightKind(K)'
  BY <1>1, <1>7, <1>9 DEF RightKind, OriginalCount
<1>10. ASSUME NEW K \in Kinds, Open(K)
       PROVE  Open(K)'
  BY <1>8, <1>9, <1>10 DEF Open
<1>. QED  BY <1>1, <1>2, <1>3, <1>6, <1>10 DEF DInv

LEMMA NextInvariant ==
    ASSUME PositionsFit, OpacitiesOnce, DInv, [Next]_vars
    PROVE  DInv'
<1>1. Shapes /\ Asides
  BY DEF DInv
<1>2. ASSUME Calls, UNCHANGED client
      PROVE  DInv'
  <2>1. StartPDF \/ ModifyPDF \/ Steps \/ Endings
    BY <1>2, CallsAre
  <2>2. /\ (StartPDF \/ ModifyPDF) => phase = "closed"
        /\ Steps => phase = "open"
        /\ Endings => phase = "open" /\ Cleanup
    BY OpenPhases
  <2>3. Asides'
    BY <1>1, <1>2, AsidesKept
  <2>4. CASE StartPDF \/ ModifyPDF
    <3>1. Forgotten
      BY <2>2, <2>4 DEF DInv
    <3>2. phase' = "open" /\ \E K \in Kinds : Open(K)'
      BY <1>1, <1>2, <2>4, <3>1, StartStep
    <3>3. Shapes'
      BY <1>1, <1>2, <2>4, StartShapes
    <3>. QED  BY <2>3, <3>2, <3>3 DEF DInv
  <2>5. CASE Steps
    <3>1. phase = "open" /\ \E K \in Kinds : Open(K)
      BY <2>2, <2>5 DEF DInv
    <3>2. PICK K \in Kinds : Open(K)
      BY <3>1
    <3>3. OneOwner(K)
      BY <3>2 DEF Open
    <3>4. registry \in Seq(ObjectWriteInformation) /\ forms \subseteq Nat
      <4>1. W \in Writers /\ W.registry = registry
        BY <3>3 DEF OneOwner, Sound, W
      <4>2. registry \in Seq(ObjectWriteInformation)
        BY <4>1, WriterParts
      <4>3. \A id \in forms : id \in 1 .. Len(registry) - 1
        BY <3>3 DEF OneOwner, FormsKnown
      <4>4. Len(registry) \in Nat
        BY <4>2, LenProperties
      <4>. QED  BY <4>2, <4>3, <4>4
    <3>5. Shapes'
      BY <1>1, <1>2, <2>5, <3>4, StepShapes
    <3>6. Onward(K)
      BY <1>1, <1>2, <2>5, <3>2, <3>3, <3>5, StepOnward
    <3>7. phase' = "open"
      BY <2>5, <3>1, <3>3, StepStaysOpen
    <3>8. \E L \in Kinds : Open(L)'
      BY <3>2, <3>6 DEF Open, Onward
    <3>. QED  BY <2>3, <3>5, <3>7, <3>8 DEF DInv
  <2>6. CASE Endings
    <3>1. phase = "open" /\ Cleanup /\ \E K \in Kinds : Open(K)
      BY <2>2, <2>6 DEF DInv
    <3>2. PICK K \in Kinds : Open(K)
      BY <3>1
    <3>3. phase' = "closed" /\ Forgotten'
      BY <1>1, <1>2, <2>6, <3>1, <3>2, EndStep DEF Endings
    <3>4. Shapes'
      BY <1>1, <1>2, <3>1, CleanupShapes
    <3>. QED  BY <2>3, <3>3, <3>4 DEF DInv
  <2>. QED  BY <2>1, <2>4, <2>5, <2>6
<1>3. CASE UNCHANGED vars
  BY <1>3, Unchanged
<1>. QED  BY <1>2, <1>3 DEF Next, Ended

\* What the invariant says of the properties.
LEMMA InvariantSays ==
    ASSUME DInv
    PROVE  /\ NothingIsWrittenTwice /\ UnwrittenAreOwed /\ phase # "crashed"
           /\ ImagesOnce => ReferencesResolve
<1>1. CASE phase = "closed" /\ Forgotten
  BY <1>1 DEF Forgotten, UnwrittenAreOwed
<1>2. ASSUME phase = "open", NEW K \in Kinds, Open(K)
      PROVE  NothingIsWrittenTwice /\ UnwrittenAreOwed /\ ReferencesResolve
  <2>1. OneOwner(K)
    BY <1>2 DEF Open
  <2>2. NothingIsWrittenTwice
    BY <2>1 DEF OneOwner, Sound, Once, W, NothingIsWrittenTwice
  <2>3. ReferencesResolve
    BY <1>2 DEF ReferencesResolve, EndedWell
  <2>4. UnwrittenAreOwed
    <3>1. ASSUME NEW id \in DirtyIDs(registry), IsUnwritten(id)
          PROVE  id \in Unwritten(W)
      <4>1. Len(registry) \in Nat \ {0} /\ registry[1].type = "Free"
        BY <2>1 DEF OneOwner, Sound, W
      <4>2. id \in 0 .. Len(registry) - 1
        BY <3>1 DEF DirtyIDs, ObjectIDs
      <4>3. registry[id + 1].type = "Used" /\ ~registry[id + 1].written
        BY <3>1, <4>1, <4>2 DEF IsUnwritten, GetNthObjectReference
      <4>4. id # 0
        BY <4>1, <4>3
      <4>. QED  BY <4>1, <4>2, <4>3, <4>4 DEF Unwritten, W
    <3>2. \A id \in Unwritten(W) : Owed(id)
      BY <2>1 DEF OneOwner
    <3>. QED  BY <3>1, <3>2 DEF UnwrittenAreOwed, Owed
  <2>. QED  BY <2>2, <2>3, <2>4
<1>. QED  BY <1>1, <1>2 DEF DInv

-----------------------------------------------------------------------------
(***************************************************************************)
(* The theorems.                                                           *)
(***************************************************************************)
LEMMA Invariant ==
    ASSUME PositionsFit, OpacitiesOnce
    PROVE  Spec => []DInv
<1>1. Init => DInv
  BY InitInvariant
<1>2. DInv /\ [Next]_vars => DInv'
  BY NextInvariant
<1>. QED  BY <1>1, <1>2, PTL DEF Spec

\* However many pages share an image or an opacity, and however often a page is written,
\* no object of a document is written twice: an ID has one task, one stream, one form or
\* the end of the document to write it, and whoever has written it has it no more.
THEOREM WrittenOnce ==
    ASSUME PositionsFit, OpacitiesOnce
    PROVE  Spec => []NothingIsWrittenTwice
<1>1. DInv => NothingIsWrittenTwice
  BY InvariantSays
<1>. QED  BY <1>1, Invariant, PTL

\* An ID that DocumentContext gave away and that is not written has somebody who will
\* write it, or its task was lost to a failure of another task or to a restart.
THEOREM NothingIsForgotten ==
    ASSUME PositionsFit, OpacitiesOnce
    PROVE  Spec => []UnwrittenAreOwed
<1>1. DInv => UnwrittenAreOwed
  BY InvariantSays
<1>. QED  BY <1>1, Invariant, PTL

\* A document that EndPDF says is written has no reference that leads nowhere, or to an
\* object that is not what it is referred to as; the reader starts at a catalog.
THEOREM EndedReferencesResolve ==
    ASSUME PositionsFit, OpacitiesOnce, ImagesOnce
    PROVE  Spec => []ReferencesResolve
<1>1. DInv => ReferencesResolve
  BY InvariantSays
<1>. QED  BY <1>1, Invariant, PTL

-----------------------------------------------------------------------------
(***************************************************************************)
(* What each step adds to the file.                                        *)
(***************************************************************************)
FileAdds(f, g, A) ==
    /\ f \in Seq(FileObject) /\ g \in Seq(FileObject) /\ Len(f) <= Len(g)
    /\ \A k \in 1 .. Len(f) : g[k] = f[k]
    /\ \A k \in 1 .. Len(g) : k \in 1 .. Len(f) \/ g[k] \in A

IsWriter(w) == w = [registry |-> w.registry, file |-> w.file]

LEMMA WriterFiles ==
    ASSUME NEW w, IsWriter(w)
    PROVE  /\ IsWriter(Allocate(w)) /\ Allocate(w).file = w.file
           /\ \A o : IsWriter(WriteAt(w, o)) /\ WriteAt(w, o).file = Append(w.file, o)
           /\ \A o : IsWriter(WriteModified(w, o)) /\ WriteModified(w, o).file = Append(w.file, o)
<1>1. PICK r, f : r = w.registry /\ f = w.file /\ w = [registry |-> r, file |-> f]
  BY DEF IsWriter
<1>2. Allocate(w) = [registry |-> AllocateNewObjectID(r), file |-> f]
  BY <1>1 DEF Allocate
<1>. QED  BY <1>1, <1>2 DEF IsWriter, WriteAt, WriteModified

LEMMA NothingAdded ==
    ASSUME NEW f \in Seq(FileObject), NEW A
    PROVE  FileAdds(f, f, A)
<1>1. Len(f) \in Nat
  BY LenProperties
<1>. QED  BY <1>1 DEF FileAdds

LEMMA OneAdded ==
    ASSUME NEW f \in Seq(FileObject), NEW A, NEW o \in FileObject, o \in A
    PROVE  FileAdds(f, Append(f, o), A)
<1>1. PICK g : g = Append(f, o)
  OBVIOUS
<1>2. /\ g \in Seq(FileObject) /\ Len(f) \in Nat /\ Len(g) = Len(f) + 1 /\ g[Len(f) + 1] = o
      /\ \A k \in 1 .. Len(f) : g[k] = f[k]
      /\ \A k \in 1 .. Len(g) : k \in 1 .. Len(f) \/ k = Len(f) + 1
  BY <1>1, ObjectAppended
<1>. QED  BY <1>1, <1>2 DEF FileAdds

LEMMA MoreAdded ==
    ASSUME NEW f, NEW g, NEW h, NEW A, FileAdds(f, g, A), FileAdds(g, h, A)
    PROVE  FileAdds(f, h, A)
<1>1. /\ f \in Seq(FileObject) /\ g \in Seq(FileObject) /\ h \in Seq(FileObject)
      /\ Len(f) <= Len(g) /\ Len(g) <= Len(h)
      /\ \A k \in 1 .. Len(f) : g[k] = f[k]
      /\ \A k \in 1 .. Len(g) : h[k] = g[k]
      /\ \A k \in 1 .. Len(g) : k \in 1 .. Len(f) \/ g[k] \in A
      /\ \A k \in 1 .. Len(h) : k \in 1 .. Len(g) \/ h[k] \in A
  BY DEF FileAdds
<1>2. Len(f) \in Nat /\ Len(g) \in Nat /\ Len(h) \in Nat
  BY <1>1, LenProperties
<1>3. \A k \in 1 .. Len(f) : k \in 1 .. Len(g)
  BY <1>1, <1>2
<1>4. Len(f) <= Len(h)
  BY <1>1, <1>2
<1>. QED  BY <1>1, <1>3, <1>4 DEF FileAdds

\* No page, no annotation, no list of annotations; and if it is a stream, one with the key.
Others(key) ==
    {o \in FileObject : /\ o.kind # "page" /\ o.kind # "annotation"
                        /\ \A ref \in o.refs : ref[1] # "Annots"
                        /\ o.kind \in {"content", "form"} => o.key = key}

LEMMA TaskObjects ==
    ASSUME NEW task \in Task, NEW key, NEW kind \in {"image", "gstate"}
    PROVE  Written(task, kind) \in Others(key)
<1>1. kind \in KindNames /\ kind \notin {"page", "annotation", "content", "form"}
  BY Names
<1>2. PICK o : o = Written(task, kind)
  OBVIOUS
<1>3. o \in FileObject /\ o.kind = kind /\ o.refs = {}
  BY <1>1, <1>2, WrittenIsObject
<1>. QED  BY <1>1, <1>2, <1>3 DEF Others

LEMMA TasksAdd ==
    ASSUME NEW w, IsWriter(w), w.file \in Seq(FileObject), NEW tasks \in Seq(Task),
           NEW n \in 0 .. Len(tasks), NEW kind \in {"image", "gstate"}, NEW key
    PROVE  LET v == WriteTasks(w, tasks, n, kind) IN
           IsWriter(v) /\ FileAdds(w.file, v.file, Others(key))
<1>1. n \in Nat /\ \A k \in 1 .. n : k \in 1 .. Len(tasks) /\ tasks[k] \in Task
  <2>1. Len(tasks) \in Nat /\ \A k \in 1 .. Len(tasks) : tasks[k] \in Task
    BY LenProperties, ElementOfSeq
  <2>2. n \in Nat /\ n <= Len(tasks)
    BY <2>1
  <2>3. \A k \in 1 .. n : k \in 1 .. Len(tasks)
    BY <2>1, <2>2
  <2>. QED  BY <2>1, <2>2, <2>3
<1>2. PICK f : IsRun(f, w, tasks, n, kind) /\ WriteTasks(w, tasks, n, kind) = f[n]
  BY <1>1, RunIs
<1>. DEFINE S == {k \in 0 .. n : IsWriter(f[k]) /\ FileAdds(w.file, f[k].file, Others(key))}
<1>3. 0 \in S
  <2>1. 0 \in 0 .. n
    BY <1>1
  <2>2. f[0] = w
    BY <1>2, <2>1 DEF IsRun
  <2>. QED  BY <2>1, <2>2, NothingAdded
<1>4. ASSUME NEW k \in 1 .. n, k - 1 \in S
      PROVE  k \in S
  <2>1. k \in 0 .. n /\ k # 0
    BY <1>1
  <2>2. PICK v : v = f[k - 1]
    OBVIOUS
  <2>3. IsWriter(v) /\ FileAdds(w.file, v.file, Others(key))
    BY <1>4, <2>2
  <2>4. PICK o : o = Written(tasks[k], kind)
    OBVIOUS
  <2>5. f[k] = WriteAt(v, o)
    BY <1>2, <2>1, <2>2, <2>4 DEF IsRun, Written
  <2>6. o \in Others(key)
    BY <1>1, <2>4, TaskObjects
  <2>7. o \in FileObject /\ v.file \in Seq(FileObject)
    BY <2>3, <2>6 DEF Others, FileAdds
  <2>8. FileAdds(v.file, Append(v.file, o), Others(key))
    BY <2>6, <2>7, OneAdded
  <2>9. IsWriter(f[k]) /\ f[k].file = Append(v.file, o)
    BY <2>3, <2>5, WriterFiles
  <2>10. FileAdds(w.file, f[k].file, Others(key))
    BY <2>3, <2>8, <2>9, MoreAdded
  <2>. QED  BY <2>1, <2>9, <2>10
<1>5. n \in S
  <2>. HIDE DEF S
  <2>1. \A k \in 0 .. n : k \in S
    BY <1>1, <1>3, <1>4, PrefixInduction
  <2>. QED  BY <1>1, <2>1
<1>. QED  BY <1>2, <1>5

LEMMA SurfaceTasksAdd ==
    ASSUME Shapes, NEW w, IsWriter(w), w.file \in Seq(FileObject), NEW s \in Surfaces,
           NEW n \in 0 .. Len(endTasks[s]), NEW key
    PROVE  FileAdds(w.file, TasksWritten(w, s, n).file, Others(key))
<1>1. endTasks[s] \in Seq(Task) /\ moreEndTasks[s] \in Seq(Task)
  BY DEF Shapes
<1>2. PICK v : v = WriteTasks(w, endTasks[s], n, "image")
  OBVIOUS
<1>3. IsWriter(v) /\ FileAdds(w.file, v.file, Others(key)) /\ v.file \in Seq(FileObject)
  BY <1>1, <1>2, TasksAdd DEF FileAdds
<1>4. PICK m, more : m = Len(moreEndTasks[s]) /\ more = moreEndTasks[s]
  OBVIOUS
<1>5. m \in 0 .. Len(more) /\ more \in Seq(Task)
  BY <1>1, <1>4, LenProperties
<1>6. PICK x : x = WriteTasks(v, more, m, "gstate")
  OBVIOUS
<1>7. FileAdds(v.file, x.file, Others(key))
  BY <1>3, <1>5, <1>6, TasksAdd
<1>8. FileAdds(w.file, x.file, Others(key))
  BY <1>3, <1>7, MoreAdded
<1>9. TasksWritten(w, s, n) = v \/ TasksWritten(w, s, n) = x
  BY <1>2, <1>4, <1>6 DEF TasksWritten
<1>. QED  BY <1>3, <1>8, <1>9

LEMMA WIsWriter ==
    IsWriter(W) /\ W.file = file
BY DEF IsWriter, W

LEMMA AllocatedFile ==
    ASSUME Become(Allocate(W)) \/ Become(Allocate(Allocate(W)))
    PROVE  file' = file
<1>1. PICK a, b : a = Allocate(W) /\ b = Allocate(a)
  OBVIOUS
<1>2. IsWriter(W) /\ W.file = file
  BY WIsWriter
<1>3. IsWriter(a) /\ a.file = file
  BY <1>1, <1>2, WriterFiles
<1>4. b.file = file
  BY <1>1, <1>3, WriterFiles
<1>. QED  BY <1>1, <1>3, <1>4 DEF Become

\* References to annotations, and others.
LEMMA AnnotRefs ==
    /\ \A role, ids : role # "Annots" => \A ref \in Refs(role, ids) : ref[1] # "Annots"
    /\ \A ids : \A ref \in Refs("Annots", ids) : ref[1] = "Annots" => ref[2] \in ids
    /\ \A ids : \A a \in ids : <<"Annots", a>> \in Refs("Annots", ids)
BY DEF Refs

LEMMA StartContentFile ==
    ASSUME Shapes, file \in Seq(FileObject), Len(registry) \in Nat, NEW p,
           StartContentStream(p), NEW key \in Int, key = StreamKey
    PROVE  FileAdds(file, file', Others(key))
<1>1. PICK n \in Nat, l \in Nat : n = NextID(W) /\ l = n + 1
  BY NumbersOfIDs
<1>2. PICK refs \in SUBSET (RoleNames \X Nat) : refs = Refs("Length", {l})
  BY <1>1, OneRef, Names
<1>3. PICK o : o = [Object(n, "content", refs, <<>>) EXCEPT !.key = key]
  OBVIOUS
<1>4. PICK kind \in KindNames : kind = "content"
  BY Names
<1>6. o \in FileObject /\ o.id = n /\ o.kind = kind /\ o.refs = refs /\ o.key = key
  <2>1. PICK list \in Seq(Nat) : list = <<>>
    <3>1. <<>> \in Seq(Nat)
      OBVIOUS
    <3>. QED  BY <3>1
  <2>2. PICK q : q = Object(n, kind, refs, list)
    OBVIOUS
  <2>3. /\ q \in FileObject /\ q.id = n /\ q.kind = kind /\ q.refs = refs
        /\ q.kids = list
    BY <1>1, <2>2, PlainObject
  <2>4. o = [q EXCEPT !.key = key]
    BY <1>3, <1>4, <2>1, <2>2
  <2>. QED  BY <2>3, <2>4 DEF FileObject
<1>7. \A ref \in refs : ref[1] # "Annots"
  BY <1>2, AnnotRefs
<1>8. o \in Others(key)
  BY <1>4, <1>6, <1>7 DEF Others
<1>9. PICK a, b, v : a = Allocate(W) /\ b = WriteAt(a, o) /\ v = Allocate(b)
  OBVIOUS
<1>10. Become(v)
  BY <1>1, <1>2, <1>3, <1>9 DEF StartContentStream
<1>11. IsWriter(a) /\ a.file = file
  BY <1>9, WIsWriter, WriterFiles
<1>12. IsWriter(b) /\ b.file = Append(file, o)
  BY <1>9, <1>11, WriterFiles
<1>13. v.file = Append(file, o)
  BY <1>9, <1>12, WriterFiles
<1>14. file' = Append(file, o)
  BY <1>10, <1>13 DEF Become
<1>. QED  BY <1>6, <1>8, <1>14, OneAdded

LEMMA StartFormFile ==
    ASSUME Shapes, file \in Seq(FileObject), Len(registry) \in Nat, NEW id \in Nat,
           StartFormXObject(id), NEW key \in Int, key = StreamKey
    PROVE  FileAdds(file, file', Others(key))
<1>1. PICK n \in Nat, l \in Nat : n = NextID(W) /\ l = n + 1
  BY NumbersOfIDs
<1>2. PICK refs \in SUBSET (RoleNames \X Nat) :
         refs = Refs("Resources", {n}) \cup Refs("Length", {l})
  <2>1. /\ Refs("Resources", {n}) \in SUBSET (RoleNames \X Nat)
        /\ Refs("Length", {l}) \in SUBSET (RoleNames \X Nat)
    BY <1>1, OneRef, Names
  <2>. QED  BY <2>1
<1>3. PICK o : o = [Object(id, "form", refs, <<>>) EXCEPT !.key = key]
  OBVIOUS
<1>4. PICK kind \in KindNames : kind = "form"
  BY Names
<1>6. o \in FileObject /\ o.id = id /\ o.kind = kind /\ o.refs = refs /\ o.key = key
  <2>1. PICK list \in Seq(Nat) : list = <<>>
    <3>1. <<>> \in Seq(Nat)
      OBVIOUS
    <3>. QED  BY <3>1
  <2>2. PICK p : p = Object(id, kind, refs, list)
    OBVIOUS
  <2>3. /\ p \in FileObject /\ p.id = id /\ p.kind = kind /\ p.refs = refs
        /\ p.kids = list
    BY <1>1, <2>2, PlainObject
  <2>4. o = [p EXCEPT !.key = key]
    BY <1>3, <1>4, <2>1, <2>2
  <2>. QED  BY <2>3, <2>4 DEF FileObject
<1>7. \A ref \in refs : ref[1] # "Annots"
  BY <1>2, AnnotRefs
<1>8. o \in Others(key)
  BY <1>4, <1>6, <1>7 DEF Others
<1>9. PICK a, b, v : a = WriteAt(W, o) /\ b = Allocate(a) /\ v = Allocate(b)
  OBVIOUS
<1>10. Become(v)
  BY <1>1, <1>2, <1>3, <1>9 DEF StartFormXObject
<1>11. IsWriter(a) /\ a.file = Append(file, o)
  BY <1>9, WIsWriter, WriterFiles
<1>12. IsWriter(b) /\ b.file = Append(file, o)
  BY <1>9, <1>11, WriterFiles
<1>13. v.file = Append(file, o)
  BY <1>9, <1>12, WriterFiles
<1>14. file' = Append(file, o)
  BY <1>10, <1>13 DEF Become
<1>. QED  BY <1>6, <1>8, <1>14, OneAdded

LEMMA LengthFile ==
    ASSUME Shapes, file \in Seq(FileObject), NEW key
    PROVE  IsWriter(WriteLength(W)) /\ FileAdds(file, WriteLength(W).file, Others(key))
<1>1. PICK o : o = Object(stream.length, "length", {}, <<>>)
  OBVIOUS
<1>2. o \in FileObject /\ o.kind = "length" /\ o.refs = {}
  BY <1>1, LengthObject
<1>3. o \in Others(key)
  BY <1>2 DEF Others
<1>4. IsWriter(WriteLength(W)) /\ WriteLength(W).file = Append(file, o)
  BY <1>1, WIsWriter, WriterFiles DEF WriteLength
<1>. QED  BY <1>2, <1>3, <1>4, OneAdded

LEMMA EndFormFile ==
    ASSUME Shapes, file \in Seq(FileObject), NEW n \in 0 .. Len(endTasks[Form]),
           EndFormXObject(n), NEW key
    PROVE  FileAdds(file, file', Others(key))
<1>1. PICK id \in Nat : id = form.resources
  <2>1. PICK f \in FormRecord : f = form
    BY DEF Shapes
  <2>2. f.resources \in Nat
    BY <2>1 DEF FormRecord
  <2>. QED  BY <2>1, <2>2
<1>2. form.xobjects \subseteq Nat /\ form.gstates \subseteq Nat
  <2>1. PICK f \in FormRecord : f = form
    BY DEF Shapes
  <2>. QED  BY <2>1 DEF FormRecord
<1>0. PICK refs \in SUBSET (RoleNames \X Nat) :
         refs = Refs("XObject", form.xobjects) \cup Refs("ExtGState", form.gstates)
  <2>1. Refs("XObject", form.xobjects) \in SUBSET (RoleNames \X Nat)
    BY <1>2, RefsAre, Names
  <2>2. Refs("ExtGState", form.gstates) \in SUBSET (RoleNames \X Nat)
    BY <1>2, RefsAre, Names
  <2>. QED  BY <2>1, <2>2
<1>b. PICK list \in Seq(Nat), kind \in KindNames : kind = "resources" /\ list = <<>>
  <2>1. <<>> \in Seq(Nat)
    OBVIOUS
  <2>. QED  BY <2>1, Names
<1>3. PICK o : o = Object(id, kind, refs, list)
  OBVIOUS
<1>4. o \in FileObject /\ o.id = id /\ o.kind = kind /\ o.refs = refs /\ o.kids = list
  BY <1>3, PlainObject
<1>5. o \in Others(key)
  <2>1. \A ref \in refs : ref[1] # "Annots"
    BY <1>0, AnnotRefs
  <2>. QED  BY <1>b, <1>4, <2>1 DEF Others
<1>6. PICK a, b, v : a = WriteLength(W) /\ b = WriteAt(a, o) /\ v = TasksWritten(b, Form, n)
  OBVIOUS
<1>7. IsWriter(a) /\ FileAdds(file, a.file, Others(key))
  BY <1>6, LengthFile
<1>8. IsWriter(b) /\ b.file = Append(a.file, o)
  BY <1>6, <1>7, WriterFiles
<1>9. a.file \in Seq(FileObject)
  BY <1>7 DEF FileAdds
<1>10. FileAdds(a.file, b.file, Others(key))
  BY <1>4, <1>5, <1>8, <1>9, OneAdded
<1>11. b.file \in Seq(FileObject)
  BY <1>10 DEF FileAdds
<1>12. Form \in Surfaces
  BY DEF Surfaces
<1>13. FileAdds(b.file, v.file, Others(key))
  BY <1>6, <1>8, <1>11, <1>12, SurfaceTasksAdd
<1>14. file' = v.file
  BY <1>0, <1>1, <1>b, <1>3, <1>6 DEF EndFormXObject, Become
<1>15. FileAdds(file, b.file, Others(key))
  BY <1>7, <1>10, MoreAdded
<1>. QED  BY <1>13, <1>14, <1>15, MoreAdded
LEMMA AttachedFile ==
    ASSUME Len(registry) \in Nat, AttachURLLinktoCurrentPage
    PROVE  \E o \in FileObject : /\ o.id = NextID(W) /\ o.kind = "annotation" /\ o.refs = {}
                                 /\ file' = Append(file, o)
<1>1. PICK n \in Nat : n = NextID(W)
  BY NumbersOfIDs
<1>2. PICK task \in Task : task = [id |-> n, freed |-> FALSE]
  BY DEF Task
<1>3. PICK kind \in KindNames : kind = "annotation"
  BY Names
<1>4. PICK o : o = Object(n, kind, {}, <<>>)
  OBVIOUS
<1>5. o \in FileObject /\ o.id = n /\ o.kind = kind /\ o.refs = {}
  <2>1. task.id = n /\ Written(task, kind) = o
    BY <1>2, <1>4 DEF Written
  <2>. QED  BY <2>1, WrittenIsObject
<1>6. PICK a, b : a = Allocate(W) /\ b = WriteAt(a, o)
  OBVIOUS
<1>7. b.file = Append(file, o)
  <2>1. IsWriter(a) /\ a.file = file
    BY <1>6, WIsWriter, WriterFiles
  <2>. QED  BY <1>6, <2>1, WriterFiles
<1>8. Become(b)
  BY <1>1, <1>3, <1>4, <1>6 DEF AttachURLLinktoCurrentPage, WriteNew
<1>. QED  BY <1>1, <1>3, <1>5, <1>7, <1>8 DEF Become

\* A page that is written names the links that wait for it, a broken one names none.
Names_Links(page) ==
    /\ page.whole
    /\ \A ref \in page.refs : ref[1] = "Annots" => ref[2] \in annotations
    /\ \A a \in annotations : <<"Annots", a>> \in page.refs
Names_None(page) ==
    /\ ~page.whole /\ \A ref \in page.refs : ref[1] # "Annots"

LEMMA PageStartedFile ==
    IsWriter(PageStarted) /\ PageStarted.file = file
<1>1. IsWriter(StartPage) /\ StartPage.file = file
  BY WIsWriter, WriterFiles DEF StartPage
<1>2. IsWriter(Allocate(StartPage)) /\ Allocate(StartPage).file = file
  BY <1>1, WriterFiles
<1>. QED  BY <1>1, <1>2 DEF PageStarted

LEMMA WholePageFile ==
    ASSUME Shapes, Shapes', file \in Seq(FileObject), Len(registry) \in Nat,
           NEW p \in PageObjects, NEW n \in 0 .. Len(endTasks[p]), NEW release,
           WritePage(p, n, release), NEW key
    PROVE  \E page \in FileObject :
              /\ page.id = NextID(W) /\ page.kind = "page" /\ Names_Links(page)
              /\ FileAdds(Append(file, page), file', Others(key))
<1>1. PICK i \in Nat : i = NextID(W)
  BY NumbersOfIDs
<1>2. TreeAfter(StartPage) \in Nat
  BY DEF WritePage, AddPageToPageTree, Shapes
<1>3. PICK page : page = PageObject(p)
  OBVIOUS
<1>4. /\ page \in FileObject /\ page.id = i /\ page.kind = "page"
      /\ page.refs = Refs("Parent", {TreeAfter(StartPage)})
                         \cup Refs("XObject", pages[p].xobjects)
                         \cup Refs("ExtGState", pages[p].gstates)
                         \cup Refs("Annots", annotations)
                         \cup Refs("Contents", ToSet(pages[p].contents))
  BY <1>1, <1>2, <1>3, PageObjectIs
<1>5. Names_Links(page)
  <2>1. page.whole
    BY <1>3 DEF PageObject, Object
  <2>2. \A ref \in page.refs : ref[1] = "Annots" => ref[2] \in annotations
    BY <1>4, AnnotRefs
  <2>3. \A a \in annotations : <<"Annots", a>> \in page.refs
    BY <1>4, AnnotRefs
  <2>. QED  BY <2>1, <2>2, <2>3 DEF Names_Links
<1>6. PICK v, w : v = WriteAt(PageStarted, page) /\ w = TasksWritten(v, p, n)
  OBVIOUS
<1>7. IsWriter(v) /\ v.file = Append(file, page)
  BY <1>6, PageStartedFile, WriterFiles
<1>8. v.file \in Seq(FileObject)
  BY <1>4, <1>7, AppendProperties
<1>9. FileAdds(v.file, w.file, Others(key))
  <2>1. p \in Surfaces
    BY DEF Surfaces
  <2>. QED  BY <1>6, <1>7, <1>8, <2>1, SurfaceTasksAdd
<1>10. file' = w.file
  BY <1>3, <1>6 DEF WritePage, Become
<1>. QED  BY <1>1, <1>4, <1>5, <1>7, <1>9, <1>10

LEMMA BrokenPageFile ==
    ASSUME Shapes, Shapes', Len(registry) \in Nat, NEW p, NEW release,
           WritePageFailsOnResources(p, release)
    PROVE  \E page \in FileObject :
              /\ page.id = NextID(W) /\ page.kind = "page" /\ Names_None(page)
              /\ file' = Append(file, page)
<1>1. PICK i \in Nat : i = NextID(W)
  BY NumbersOfIDs
<1>2. TreeAfter(StartPage) \in Nat
  BY DEF WritePageFailsOnResources, AddPageToPageTree, Shapes
<1>3. PICK page : page = BrokenPageObject
  OBVIOUS
<1>4. /\ page \in FileObject /\ page.id = i /\ page.kind = "page"
      /\ page.refs = Refs("Parent", {TreeAfter(StartPage)})
  BY <1>1, <1>2, <1>3, BrokenPage
<1>5. Names_None(page)
  <2>1. ~page.whole
    BY <1>3 DEF BrokenPageObject, Object
  <2>2. \A ref \in page.refs : ref[1] # "Annots"
    BY <1>4, AnnotRefs
  <2>. QED  BY <2>1, <2>2 DEF Names_None
<1>6. PICK v : v = WriteAt(PageStarted, page)
  OBVIOUS
<1>7. v.file = Append(file, page)
  BY <1>6, PageStartedFile, WriterFiles
<1>8. file' = v.file
  BY <1>3, <1>6 DEF WritePageFailsOnResources, Become
<1>. QED  BY <1>1, <1>4, <1>5, <1>7, <1>8

\* What a step of an open document does to the file, and to the links that wait for a
\* page; the streams it writes have the key.
NoPageOrLink(key) ==
    /\ FileAdds(file, file', Others(key)) /\ kids' = kids
    /\ \/ annotations' = annotations /\ restarts' = restarts
       \/ annotations' = {} /\ restarts' = restarts + 1

Link ==
    /\ \E o \in FileObject : /\ o.id = NextID(W) /\ o.kind = "annotation" /\ o.refs = {}
                             /\ file' = Append(file, o)
    /\ kids' = kids /\ annotations' = annotations \cup {NextID(W)} /\ restarts' = restarts

WholePage(key) ==
    /\ \E page \in FileObject :
          /\ page.id = NextID(W) /\ page.kind = "page" /\ Names_Links(page)
          /\ FileAdds(Append(file, page), file', Others(key))
    /\ kids' = Append(kids, NextID(W)) /\ annotations' = {} /\ restarts' = restarts

PageThatFails ==
    /\ \E page \in FileObject :
          /\ page.id = NextID(W) /\ page.kind = "page" /\ Names_None(page)
          /\ file' = Append(file, page)
    /\ kids' = Append(kids, NextID(W)) /\ annotations' = annotations /\ restarts' = restarts

LEMMA StepFile ==
    ASSUME Shapes, Shapes', file \in Seq(FileObject), Len(registry) \in Nat,
           forms \subseteq Nat, Steps, NEW key \in Int, stream = NoStream => key = StreamKey
    PROVE  /\ NoPageOrLink(key) \/ Link \/ WholePage(key) \/ PageThatFails
           /\ UNCHANGED <<isModified, documents>>
<1>1. ASSUME file' = file
      PROVE  FileAdds(file, file', Others(key))
  BY <1>1, NothingAdded
<1>2. CASE SetCreationDate \/ \E id \in forms : \E p \in PageObjects : DrawForm(p, id)
  BY <1>1, <1>2 DEF SetCreationDate, DrawForm, document, identity, history, NoPageOrLink
<1>3. CASE ShutdownAndContinue
  BY <1>1, <1>3 DEF ShutdownAndContinue, identity, NoPageOrLink
<1>4. CASE AllocateForm
  BY <1>1, <1>4, AllocatedFile DEF AllocateForm, identity, NoPageOrLink
<1>5. ASSUME NEW s \in Surfaces, NEW image, DrawImage(s, image)
      PROVE  NoPageOrLink(key) /\ UNCHANGED <<isModified, documents>>
  BY <1>1, <1>5, AllocatedFile DEF DrawImage, identity, history, NoPageOrLink
<1>6. ASSUME NEW s \in Surfaces, NEW alpha, SetOpacity(s, alpha)
      PROVE  NoPageOrLink(key) /\ UNCHANGED <<isModified, documents>>
  BY <1>1, <1>6, AllocatedFile DEF SetOpacity, identity, history, NoPageOrLink
<1>7. ASSUME NEW p \in PageObjects, StartContentStream(p)
      PROVE  NoPageOrLink(key) /\ UNCHANGED <<isModified, documents>>
  <2>1. key = StreamKey
    BY <1>7 DEF StartContentStream, Idle
  <2>2. FileAdds(file, file', Others(key))
    BY <1>7, <2>1, StartContentFile
  <2>. QED  BY <1>7, <2>2 DEF StartContentStream, identity, history, NoPageOrLink
<1>8. CASE EndContentStream
  <2>1. file' = WriteLength(W).file
    BY <1>8 DEF EndContentStream, Become
  <2>2. FileAdds(file, file', Others(key))
    BY <2>1, LengthFile
  <2>. QED  BY <1>8, <2>2 DEF EndContentStream, identity, history, NoPageOrLink
<1>9. ASSUME NEW id \in forms, StartFormXObject(id)
      PROVE  NoPageOrLink(key) /\ UNCHANGED <<isModified, documents>>
  <2>1. key = StreamKey /\ id \in Nat
    BY <1>9 DEF StartFormXObject, Idle
  <2>2. FileAdds(file, file', Others(key))
    BY <1>9, <2>1, StartFormFile
  <2>. QED  BY <1>9, <2>2 DEF StartFormXObject, identity, history, NoPageOrLink
<1>10. ASSUME NEW n \in 0 .. Len(endTasks[Form]), EndFormXObject(n)
       PROVE  NoPageOrLink(key) /\ UNCHANGED <<isModified, documents>>
  <2>1. FileAdds(file, file', Others(key))
    BY <1>10, EndFormFile
  <2>. QED  BY <1>10, <2>1 DEF EndFormXObject, identity, NoPageOrLink
<1>11. CASE AttachURLLinktoCurrentPage
  <2>1. \E o \in FileObject : /\ o.id = NextID(W) /\ o.kind = "annotation" /\ o.refs = {}
                              /\ file' = Append(file, o)
    BY <1>11, AttachedFile
  <2>. QED  BY <1>11, <2>1 DEF AttachURLLinktoCurrentPage, identity, history, Link
<1>12. ASSUME NEW p \in PageObjects, NEW release, NEW n \in 0 .. Len(endTasks[p]),
              WritePage(p, n, release)
       PROVE  WholePage(key) /\ UNCHANGED <<isModified, documents>>
  <2>1. \E page \in FileObject :
           /\ page.id = NextID(W) /\ page.kind = "page" /\ Names_Links(page)
           /\ FileAdds(Append(file, page), file', Others(key))
    BY <1>12, WholePageFile
  <2>. QED  BY <1>12, <2>1 DEF WritePage, AddPageToPageTree, KidsAfter, AnnotationsAfterPage,
                               identity, WholePage
<1>13. ASSUME NEW p \in PageObjects, NEW release, WritePageFailsOnResources(p, release)
       PROVE  PageThatFails /\ UNCHANGED <<isModified, documents>>
  <2>1. \E page \in FileObject :
           /\ page.id = NextID(W) /\ page.kind = "page" /\ Names_None(page)
           /\ file' = Append(file, page)
    BY <1>13, BrokenPageFile
  <2>. QED  BY <1>13, <2>1 DEF WritePageFailsOnResources, AddPageToPageTree, KidsAfter,
                               identity, PageThatFails
<1>. QED  BY <1>2, <1>3, <1>4, <1>5, <1>6, <1>7, <1>8, <1>9, <1>10, <1>11, <1>12, <1>13
          DEF Steps

\* The end of a document writes the tree, the catalog and what the trailer names.
Enders == {o \in FileObject : /\ o.kind \in {"pages", "catalog", "info", "encrypt"}
                              /\ \A ref \in o.refs : ref[1] # "Annots"}

Trailers == {o \in Enders : o.kind # "pages"}

LEMMA AddsWithin ==
    ASSUME NEW f, NEW g, NEW A, FileAdds(f, g, A), NEW B, A \subseteq B
    PROVE  FileAdds(f, g, B)
BY DEF FileAdds

LEMMA EndersAreOthers ==
    ASSUME NEW f, NEW g, FileAdds(f, g, Enders), NEW key
    PROVE  FileAdds(f, g, Others(key))
<1>1. Enders \subseteq Others(key)
  BY DEF Enders, Others
<1>. QED  BY <1>1, AddsWithin

LEMMA NewAdded ==
    ASSUME NEW w, IsWriter(w), w.file \in Seq(FileObject), NEW n \in Nat, n = NextID(w),
           NEW kind \in {"catalog", "info", "encrypt"},
           NEW refs \in SUBSET (RoleNames \X Nat), \A ref \in refs : ref[1] # "Annots"
    PROVE  /\ IsWriter(WriteNew(w, kind, refs))
           /\ FileAdds(w.file, WriteNew(w, kind, refs).file, Trailers)
<1>1. PICK name \in KindNames : name = kind /\ name \in {"catalog", "info", "encrypt"}
  BY Names
<1>2. PICK list \in Seq(Nat) : list = <<>>
  <2>1. <<>> \in Seq(Nat)
    OBVIOUS
  <2>. QED  BY <2>1
<1>3. PICK o : o = Object(n, name, refs, list)
  OBVIOUS
<1>4. o \in FileObject /\ o.id = n /\ o.kind = name /\ o.refs = refs /\ o.kids = list
  BY <1>3, PlainObject
<1>5. o \in Trailers
  BY <1>1, <1>4 DEF Enders, Trailers
<1>6. PICK a, b : a = Allocate(w) /\ b = WriteAt(a, o)
  OBVIOUS
<1>7. IsWriter(a) /\ a.file = w.file
  BY <1>6, WriterFiles
<1>8. IsWriter(b) /\ b.file = Append(w.file, o)
  BY <1>6, <1>7, WriterFiles
<1>9. WriteNew(w, kind, refs) = b
  BY <1>1, <1>2, <1>3, <1>6 DEF WriteNew
<1>. QED  BY <1>4, <1>5, <1>8, <1>9, OneAdded

LEMMA TreeAdded ==
    ASSUME Shapes, NEW w, IsWriter(w), w.file \in Seq(FileObject), NEW parent \in Nat
    PROVE  /\ IsWriter(WritePagesTree(w, parent))
           /\ FileAdds(w.file, WritePagesTree(w, parent).file, Enders)
<1>1. PICK o : o = Object(tree, "pages", Refs("Parent", {parent} \ {NoID}), kids)
  OBVIOUS
<1>2. /\ o \in FileObject /\ o.id = tree /\ o.kind = "pages" /\ o.kids = kids
      /\ o.refs = Refs("Parent", {parent} \ {NoID})
  BY <1>1, TreeObject
<1>3. o \in Enders
  <2>1. \A ref \in o.refs : ref[1] # "Annots"
    BY <1>2, AnnotRefs
  <2>. QED  BY <1>2, <2>1 DEF Enders
<1>4. /\ IsWriter(WritePagesTree(w, parent))
      /\ WritePagesTree(w, parent).file = Append(w.file, o)
  BY <1>1, WriterFiles DEF WritePagesTree
<1>. QED  BY <1>2, <1>3, <1>4, OneAdded

TreeOfOriginal == isModified => 2 \in 1 .. Len(file) /\ file[2] \in Enders

LEMMA PagesAdded ==
    ASSUME Shapes, file \in Seq(FileObject), NEW n \in Nat, n = NextID(W), TreeOfOriginal
    PROVE  IsWriter(PagesWritten) /\ FileAdds(file, PagesWritten.file, Enders)
<1>1. IsWriter(W) /\ W.file = file
  BY WIsWriter
<1>2. CASE ~DocumentHasNewPages
  BY <1>1, <1>2, NothingAdded DEF PagesWritten
<1>3. CASE DocumentHasNewPages /\ ~isModified
  <2>1. NoID \in Nat
    BY DEF NoID
  <2>. QED  BY <1>1, <1>3, <2>1, TreeAdded DEF PagesWritten
<1>4. CASE DocumentHasNewPages /\ isModified
  <2>1. PICK old \in FileObject : old = file[2] /\ old \in Enders
    BY <1>4 DEF TreeOfOriginal, Enders
  <2>2. PICK below : below = [old EXCEPT !.refs = @ \cup Refs("Parent", {n})]
    OBVIOUS
  <2>3. /\ below \in FileObject /\ below.id = old.id /\ below.kind = old.kind
        /\ below.kids = old.kids /\ below.refs = old.refs \cup Refs("Parent", {n})
    <3>1. below = BelowRoot(old, n)
      BY <2>2 DEF BelowRoot
    <3>2. HasParent(below, old, n)
      BY <3>1, TreeBelow
    <3>. QED  BY <3>2 DEF HasParent
  <2>4. below \in Enders
    <3>1. \A ref \in below.refs : ref[1] # "Annots"
      BY <2>1, <2>3, AnnotRefs DEF Enders
    <3>. QED  BY <2>1, <2>3, <3>1 DEF Enders
  <2>5. PICK a, b, c : a = Allocate(W) /\ b = WritePagesTree(a, n) /\ c = WriteModified(b, below)
    OBVIOUS
  <2>6. IsWriter(a) /\ a.file = file
    BY <1>1, <2>5, WriterFiles
  <2>7. IsWriter(b) /\ FileAdds(file, b.file, Enders)
    BY <2>5, <2>6, TreeAdded
  <2>8. b.file \in Seq(FileObject)
    BY <2>7 DEF FileAdds
  <2>9. IsWriter(c) /\ c.file = Append(b.file, below)
    BY <2>5, <2>7, WriterFiles
  <2>10. FileAdds(b.file, c.file, Enders)
    BY <2>3, <2>4, <2>8, <2>9, OneAdded
  <2>11. FileAdds(file, c.file, Enders) /\ c.file \in Seq(FileObject)
    <3>1. FileAdds(file, c.file, Enders)
      BY <2>7, <2>10, MoreAdded
    <3>. QED  BY <3>1 DEF FileAdds
  <2>12. PICK i \in Nat, j \in Nat : i = old.id /\ j = tree
    BY DEF Shapes, FileObject
  <2>13. PICK top : top = Object(n, "pages", {}, <<i, j>>)
    OBVIOUS
  <2>14. /\ top \in FileObject /\ top.id = n /\ top.kind = "pages" /\ top.refs = {}
         /\ top.kids = <<i, j>>
    <3>1. IsRootOf(top, n, i, j)
      BY <2>13, TwoKids
    <3>. QED  BY <3>1 DEF IsRootOf
  <2>15. top \in Enders
    BY <2>14 DEF Enders
  <2>16. PICK d : d = WriteAt(c, top)
    OBVIOUS
  <2>17. IsWriter(d) /\ d.file = Append(c.file, top)
    BY <2>9, <2>16, WriterFiles
  <2>18. FileAdds(c.file, d.file, Enders)
    BY <2>11, <2>14, <2>15, <2>17, OneAdded
  <2>19. FileAdds(file, d.file, Enders)
    BY <2>11, <2>18, MoreAdded
  <2>20. PagesWritten = d
    BY <1>4, <2>1, <2>2, <2>5, <2>12, <2>13, <2>16
       DEF PagesWritten, WriteCombinedPageTree, OriginalTreeRoot
  <2>. QED  BY <2>17, <2>19, <2>20
<1>. QED  BY <1>2, <1>3, <1>4

\* What may be written at the end and is not.
LEMMA MayAddNew ==
    ASSUME NEW f, NEW w, IsWriter(w), FileAdds(f, w.file, Trailers), NEW n \in Nat,
           n = NextID(w), NEW kind \in {"catalog", "info", "encrypt"}, NEW v,
           v = w \/ v = WriteNew(w, kind, {})
    PROVE  IsWriter(v) /\ FileAdds(f, v.file, Trailers)
<1>1. PICK refs \in SUBSET (RoleNames \X Nat) : refs = {}
  OBVIOUS
<1>2. w.file \in Seq(FileObject)
  BY DEF FileAdds
<1>3. CASE v = w
  BY <1>3
<1>4. CASE v = WriteNew(w, kind, refs)
  <2>1. IsWriter(v) /\ FileAdds(w.file, v.file, Trailers)
    BY <1>1, <1>2, <1>4, NewAdded
  <2>. QED  BY <2>1, MoreAdded
<1>. QED  BY <1>1, <1>3, <1>4

LEMMA EndingFile ==
    ASSUME PositionsFit, Shapes, NEW K \in Kinds, OneOwner(K), ImagesOnce => RightKind(K),
           TreeOfOriginal, NEW other \in BOOLEAN
    PROVE  /\ NextID(InfoWritten(CatalogWritten(other))) \in Nat \ {0}
           /\ FileAdds(file, EncryptionWritten(InfoWritten(CatalogWritten(other))).file, Enders)
           /\ FileAdds(CatalogWritten(other).file,
                       EncryptionWritten(InfoWritten(CatalogWritten(other))).file, Trailers)
<1>1. PICK m, L, U : TreeStands(W, K, m, L) /\ Ends(PagesWritten, L, m, Len(file) + 3, U)
  BY TreeEnds
<1>2. NextID(PagesWritten) \in Nat /\ FinalPageRoot \in Nat
  BY <1>1, EndAllocates, Names DEF TreeStands
<1>3. IsWriter(PagesWritten) /\ FileAdds(file, PagesWritten.file, Enders)
  <2>1. NextID(W) \in Nat /\ file \in Seq(FileObject)
    BY OpenWriter
  <2>. QED  BY <2>1, PagesAdded
<1>4. PICK c : c = CatalogWritten(other)
  OBVIOUS
<1>5. IsWriter(c) /\ FileAdds(file, c.file, Enders)
  <2>1. CASE ~NeedsCatalog(other)
    BY <1>3, <1>4, <2>1 DEF CatalogWritten
  <2>2. CASE NeedsCatalog(other)
    <3>1. PICK ids : ids = {FinalPageRoot} \ {NoID}
      OBVIOUS
    <3>2. ids \subseteq Nat
      BY <1>2, <3>1
    <3>3. PICK refs \in SUBSET (RoleNames \X Nat) : refs = Refs("Pages", ids)
      BY <3>2, RefsAre, Names
    <3>4. \A ref \in refs : ref[1] # "Annots"
      BY <3>3, AnnotRefs
    <3>a. PICK w : w = PagesWritten
      OBVIOUS
    <3>5. PICK n \in Nat, kind \in {"catalog", "info", "encrypt"} :
             n = NextID(w) /\ kind = "catalog"
      BY <1>2, <3>a
    <3>6. w.file \in Seq(FileObject) /\ IsWriter(w) /\ FileAdds(file, w.file, Enders)
      BY <1>3, <3>a DEF FileAdds
    <3>7. /\ IsWriter(WriteNew(w, kind, refs))
          /\ FileAdds(w.file, WriteNew(w, kind, refs).file, Enders)
      <4>1. /\ IsWriter(WriteNew(w, kind, refs))
            /\ FileAdds(w.file, WriteNew(w, kind, refs).file, Trailers)
        BY <3>4, <3>5, <3>6, NewAdded
      <4>2. Trailers \subseteq Enders
        BY DEF Trailers
      <4>. QED  BY <4>1, <4>2, AddsWithin
    <3>8. c = WriteNew(w, kind, refs)
      BY <1>4, <2>2, <3>a, <3>1, <3>3, <3>5 DEF CatalogWritten
    <3>. QED  BY <3>6, <3>7, <3>8, MoreAdded
  <2>. QED  BY <2>1, <2>2
<1>6. PICK n : n = Len(file) + 4
  OBVIOUS
<1>7. n \in Nat /\ n + 1 \in Nat /\ n <= MaxWritePosition /\ n + 1 <= MaxWritePosition
  BY <1>6, OpenWriter, RegistryAssumption
<1>8. EndsRooted(c, RootAfter(other), n)
  BY <1>4, <1>6, CatalogEnds DEF EndsRooted
<1>9. NextID(c) \in Nat
  BY <1>8, EndAllocates, Names DEF EndsRooted
<1>10. PICK v : v = InfoWritten(c)
  OBVIOUS
<1>11. v = c \/ v = WriteNew(c, "info", {})
  BY <1>10 DEF InfoWritten
<1>12. EndsRooted(v, RootAfter(other), n + 1)
  BY <1>7, <1>8, <1>11, EndMayWriteNew, Names
<1>13. NextID(v) \in Nat \ {0}
  BY <1>12, EndAllocates, Names DEF EndsRooted
<1>14. IsWriter(v) /\ FileAdds(c.file, v.file, Trailers)
  <2>1. FileAdds(c.file, c.file, Trailers)
    BY <1>5, NothingAdded DEF FileAdds
  <2>. QED  BY <1>5, <1>9, <1>11, <2>1, MayAddNew
<1>15. PICK x : x = EncryptionWritten(v)
  OBVIOUS
<1>16. x = v \/ x = WriteNew(v, "encrypt", {})
  BY <1>15 DEF EncryptionWritten
<1>17. FileAdds(c.file, x.file, Trailers)
  BY <1>13, <1>14, <1>16, MayAddNew
<1>18. FileAdds(file, x.file, Enders)
  <2>1. Trailers \subseteq Enders
    BY DEF Trailers
  <2>2. FileAdds(c.file, x.file, Enders)
    BY <1>17, <2>1, AddsWithin
  <2>. QED  BY <1>5, <2>2, MoreAdded
<1>. QED  BY <1>4, <1>10, <1>13, <1>15, <1>17, <1>18
-----------------------------------------------------------------------------
(***************************************************************************)
(* Encryption.  The helper, mXcrypts and whether the helper encrypts       *)
(* outlive the document, and a state file: so a client's last document is  *)
(* the one that is encrypted, and it has not been continued.               *)
(***************************************************************************)
EncryptedLast ==
    \A c \in Clients : /\ \A d \in c.encrypted : d >= c.documents
                       /\ c.encrypted # {} => c.restarts = 0

IsEncrypted == documents \in client.encrypted

DocumentKey ==
    IF ~IsEncrypted THEN Plain ELSE IF isModified THEN OriginalID ELSE documents

NotYetEncrypting ==
    /\ ~helper.encrypted /\ ~helper.attached /\ helper.pauseLevel = 0
    /\ client.encrypted # {} => ~helper.xcrypts

EncryptingOutsideStreams ==
    /\ helper.encrypted /\ helper.attached /\ helper.streamsListed
    /\ helper.pauseLevel = IF stream = NoStream THEN 0 ELSE 1
    /\ helper.key = DocumentKey
    /\ ~isModified => newPDFID = documents

HelperRight == IF IsEncrypted THEN EncryptingOutsideStreams ELSE NotYetEncrypting

StreamsRight ==
    \A k \in 1 .. Len(file) :
        \/ isModified /\ k <= OriginalCount
        \/ file[k].kind \in {"content", "form"} => file[k].key = DocumentKey

\* The modified file's own objects are as they were.
OriginalsAre ==
    isModified => \A k \in 1 .. OriginalCount :
        /\ k \in 1 .. Len(file) /\ file[k].kind = OriginalKinds[k]
        /\ \A ref \in file[k].refs : ref[1] # "Annots"

EInv ==
    /\ restarts \in Nat
    /\ phase = "closed" => EncryptedAsAnnounced
    /\ phase = "closed" /\ documents < client.documents => NotYetEncrypting /\ modifiedIDExists = FALSE
    /\ phase = "open" => /\ HelperRight /\ StreamsRight /\ OriginalsAre
                         /\ modifiedIDExists = isModified /\ trailer.encrypt = NoID

\* Pausing and resuming encryption, which is not done when nothing is encrypted.
LEMMA PauseIs ==
    ASSUME NEW h \in HelperRecord, NEW n \in Int, NEW g, g = [h EXCEPT !.pauseLevel = @ + n]
    PROVE  /\ g.encrypted = h.encrypted /\ g.attached = h.attached
           /\ g.pauseLevel = h.pauseLevel + n /\ g.xcrypts = h.xcrypts
           /\ g.streamsListed = h.streamsListed /\ g.key = h.key
BY DEF HelperRecord

LEMMA SetupIs ==
    ASSUME NEW h \in HelperRecord, NEW key, NEW g, g = Setup(h, key)
    PROVE  /\ g.encrypted /\ g.attached /\ g.pauseLevel = h.pauseLevel
           /\ g.streamsListed = ~h.xcrypts /\ g.key = key
BY DEF HelperRecord, Setup

Quiet == helper' = helper /\ ((stream' = NoStream) <=> (stream = NoStream))
StreamOpens == stream = NoStream /\ stream' # NoStream /\ PauseEncryption
StreamEnds == stream # NoStream /\ stream' = NoStream /\ ReleaseEncryption

LEMMA StepHelper ==
    ASSUME Steps, Len(registry) \in Nat
    PROVE  /\ Quiet \/ StreamOpens \/ StreamEnds \/ ShutdownAndContinue
           /\ UNCHANGED <<isModified, documents, newPDFID, modifiedIDExists>>
<1>1. NextID(W) \in Nat /\ NextID(W) + 1 # NoID
  BY NumbersOfIDs DEF NoID
<1>2. ASSUME NEW p \in PageObjects, StartContentStream(p)
      PROVE  StreamOpens /\ UNCHANGED identity
  <2>1. stream'.length = NextID(W) + 1
    BY <1>2 DEF StartContentStream
  <2>2. stream' # NoStream
    BY <1>1, <2>1 DEF NoStream
  <2>. QED  BY <1>2, <2>2 DEF StartContentStream, Idle, StreamOpens
<1>3. ASSUME NEW id \in forms, StartFormXObject(id)
      PROVE  StreamOpens /\ UNCHANGED identity
  <2>1. stream'.length = NextID(W) + 1
    BY <1>3 DEF StartFormXObject
  <2>2. stream' # NoStream
    BY <1>1, <2>1 DEF NoStream
  <2>. QED  BY <1>3, <2>2 DEF StartFormXObject, Idle, StreamOpens
<1>4. CASE EndContentStream
  <2>1. stream # NoStream
    BY <1>4, SurfacesAssumption DEF EndContentStream, NoStream, Form
  <2>. QED  BY <1>4, <2>1 DEF EndContentStream, StreamEnds, identity
<1>5. ASSUME NEW n, EndFormXObject(n)
      PROVE  StreamEnds /\ UNCHANGED identity
  BY <1>5 DEF EndFormXObject, Drawing, StreamEnds
<1>6. CASE \/ SetCreationDate \/ AllocateForm \/ AttachURLLinktoCurrentPage
           \/ \E s \in Surfaces : \/ \E image \in client.images : DrawImage(s, image)
                                  \/ \E alpha \in client.opacities : SetOpacity(s, alpha)
           \/ \E id \in forms : \E p \in PageObjects : DrawForm(p, id)
  BY <1>6 DEF SetCreationDate, AllocateForm, AttachURLLinktoCurrentPage, DrawImage, SetOpacity,
              DrawForm, drawing, identity, Quiet
<1>7. CASE \E p \in PageObjects, release \in BOOLEAN :
              \/ \E n \in 0 .. Len(endTasks[p]) : WritePage(p, n, release)
              \/ WritePageFailsOnResources(p, release)
  BY <1>7 DEF WritePage, WritePageFailsOnResources, AddPageToPageTree, identity, Quiet
<1>8. CASE ShutdownAndContinue
  BY <1>8 DEF ShutdownAndContinue, identity
<1>. QED  BY <1>2, <1>3, <1>4, <1>5, <1>6, <1>7, <1>8 DEF Steps, identity

LEMMA StepTrailer ==
    ASSUME Steps, trailer.encrypt = NoID
    PROVE  trailer'.encrypt = NoID
<1>1. CASE SetCreationDate
  BY <1>1 DEF SetCreationDate
<1>2. CASE ShutdownAndContinue
  BY <1>2 DEF ShutdownAndContinue, ReadTrailerState
<1>3. CASE ~SetCreationDate /\ ~ShutdownAndContinue
  <2>1. trailer' = trailer
    BY <1>3 DEF Steps, EndContentStream, AllocateForm, AttachURLLinktoCurrentPage,
       StartContentStream, SetOpacity, DrawImage, StartFormXObject, DrawForm, EndFormXObject,
       WritePage, WritePageFailsOnResources, AddPageToPageTree, document
  <2>. QED  BY <2>1
<1>. QED  BY <1>1, <1>2, <1>3

\* Nothing is continued when there is an encrypted document.
LEMMA NoRestart ==
    ASSUME EncryptedLast, client \in Clients, restarts \in Nat, ShutdownAndContinue
    PROVE  client.encrypted = {}
<1>1. client.restarts \in Nat
  BY DocumentAssumption DEF IsClient
<1>2. client.restarts # 0
  BY <1>1 DEF ShutdownAndContinue
<1>. QED  BY <1>2 DEF EncryptedLast

LEMMA HelperStays ==
    ASSUME EncryptedLast, Shapes, HelperRight, restarts \in Nat, Len(registry) \in Nat, Steps,
           UNCHANGED client
    PROVE  HelperRight'
<1>1. /\ Quiet \/ StreamOpens \/ StreamEnds \/ ShutdownAndContinue
      /\ UNCHANGED <<isModified, documents, newPDFID, modifiedIDExists>>
  BY StepHelper
<1>2. DocumentKey' = DocumentKey /\ IsEncrypted' = IsEncrypted /\ client' = client
  BY <1>1 DEF DocumentKey, IsEncrypted, OriginalID
<1>3. CASE Quiet
  BY <1>1, <1>2, <1>3 DEF Quiet, HelperRight, EncryptingOutsideStreams, NotYetEncrypting
<1>4. CASE ShutdownAndContinue
  <2>1. client.encrypted = {}
    BY <1>4, NoRestart DEF Shapes
  <2>2. helper' = [helper EXCEPT !.attached = FALSE, !.pauseLevel = 0, !.xcrypts = TRUE,
                                !.streamsListed = TRUE]
    BY <1>4 DEF ShutdownAndContinue
  <2>3. helper'.encrypted = helper.encrypted /\ ~helper'.attached /\ helper'.pauseLevel = 0
    BY <2>2 DEF Shapes, HelperRecord
  <2>4. ~IsEncrypted
    BY <2>1 DEF IsEncrypted
  <2>. QED  BY <1>2, <2>1, <2>3, <2>4 DEF HelperRight, NotYetEncrypting
<1>5. CASE (StreamOpens \/ StreamEnds) /\ ~IsEncrypted
  <2>1. helper' = helper
    BY <1>5 DEF HelperRight, NotYetEncrypting, StreamOpens, StreamEnds, PauseEncryption,
                ReleaseEncryption, ChangePauseLevel
  <2>. QED  BY <1>2, <1>5, <2>1 DEF HelperRight, NotYetEncrypting
<1>6. CASE (StreamOpens \/ StreamEnds) /\ IsEncrypted
  <2>1. PICK n \in Int : /\ helper' = [helper EXCEPT !.pauseLevel = @ + n]
                         /\ StreamOpens => n = 1
                         /\ StreamEnds => n = -1
    <3>1. helper.attached
      BY <1>6 DEF HelperRight, EncryptingOutsideStreams
    <3>2. CASE StreamOpens
      <4>1. PICK n \in Int : n = 1
        OBVIOUS
      <4>2. helper' = [helper EXCEPT !.pauseLevel = @ + n]
        BY <3>1, <3>2, <4>1 DEF StreamOpens, PauseEncryption, ChangePauseLevel
      <4>3. ~StreamEnds
        BY <3>2 DEF StreamOpens, StreamEnds
      <4>. QED  BY <4>1, <4>2, <4>3
    <3>3. CASE StreamEnds
      <4>1. PICK n \in Int : n = -1
        OBVIOUS
      <4>2. helper' = [helper EXCEPT !.pauseLevel = @ + n]
        BY <3>1, <3>3, <4>1 DEF StreamEnds, ReleaseEncryption, ChangePauseLevel
      <4>3. ~StreamOpens
        BY <3>3 DEF StreamOpens, StreamEnds
      <4>. QED  BY <4>1, <4>2, <4>3
    <3>. QED  BY <1>6, <3>2, <3>3
  <2>2. /\ helper'.encrypted = helper.encrypted /\ helper'.attached = helper.attached
        /\ helper'.pauseLevel = helper.pauseLevel + n
        /\ helper'.streamsListed = helper.streamsListed /\ helper'.key = helper.key
    BY <2>1, PauseIs DEF Shapes
  <2>3. helper'.pauseLevel = IF stream' = NoStream THEN 0 ELSE 1
    BY <1>6, <2>1, <2>2 DEF HelperRight, EncryptingOutsideStreams, StreamOpens, StreamEnds
  <2>. QED  BY <1>1, <1>2, <1>6, <2>2, <2>3 DEF HelperRight, EncryptingOutsideStreams
<1>. QED  BY <1>1, <1>3, <1>4, <1>5, <1>6

\* The key of the streams that are written between streams.
LEMMA KeyIs ==
    ASSUME HelperRight, stream = NoStream
    PROVE  StreamKey = DocumentKey
<1>1. CASE IsEncrypted
  BY <1>1 DEF HelperRight, EncryptingOutsideStreams, StreamKey, IsEncrypting
<1>2. CASE ~IsEncrypted
  BY <1>2 DEF HelperRight, NotYetEncrypting, StreamKey, IsEncrypting, DocumentKey
<1>. QED  BY <1>1, <1>2

\* What is added to a file that keeps what it has.
AddsTo(f, g) == /\ Len(f) \in Nat /\ Len(g) \in Nat /\ Len(f) <= Len(g)
                /\ \A k \in 1 .. Len(f) : k \in 1 .. Len(g) /\ g[k] = f[k]

LEMMA FileGrows ==
    ASSUME NEW f, NEW g, NEW A, FileAdds(f, g, A)
    PROVE  AddsTo(f, g)
<1>1. /\ f \in Seq(FileObject) /\ g \in Seq(FileObject) /\ Len(f) <= Len(g)
      /\ \A k \in 1 .. Len(f) : g[k] = f[k]
  BY DEF FileAdds
<1>2. Len(f) \in Nat /\ Len(g) \in Nat
  BY <1>1, LenProperties
<1>. QED  BY <1>1, <1>2 DEF AddsTo

LEMMA AppendedGrows ==
    ASSUME NEW f \in Seq(FileObject), NEW o \in FileObject
    PROVE  /\ AddsTo(f, Append(f, o)) /\ Append(f, o) \in Seq(FileObject)
           /\ Len(Append(f, o)) = Len(f) + 1
           /\ Append(f, o)[Len(f) + 1] = o
           /\ \A k \in 1 .. Len(Append(f, o)) : k \in 1 .. Len(f) \/ k = Len(f) + 1
<1>1. PICK g : g = Append(f, o)
  OBVIOUS
<1>2. /\ g \in Seq(FileObject) /\ Len(f) \in Nat /\ Len(g) = Len(f) + 1 /\ g[Len(f) + 1] = o
      /\ \A k \in 1 .. Len(f) : k \in 1 .. Len(g) /\ g[k] = f[k]
      /\ \A k \in 1 .. Len(g) : k \in 1 .. Len(f) \/ k = Len(f) + 1
  BY <1>1, ObjectAppended
<1>. QED  BY <1>1, <1>2 DEF AddsTo

LEMMA GrowsTwice ==
    ASSUME NEW f, NEW g, NEW h, AddsTo(f, g), AddsTo(g, h)
    PROVE  AddsTo(f, h)
BY DEF AddsTo

LEMMA StepGrows ==
    ASSUME file \in Seq(FileObject), NEW key,
           NoPageOrLink(key) \/ Link \/ WholePage(key) \/ PageThatFails
    PROVE  AddsTo(file, file')
<1>1. CASE NoPageOrLink(key)
  BY <1>1, FileGrows DEF NoPageOrLink
<1>2. CASE Link
  BY <1>2, AppendedGrows DEF Link
<1>3. CASE WholePage(key)
  <2>1. PICK page \in FileObject : FileAdds(Append(file, page), file', Others(key))
    BY <1>3 DEF WholePage
  <2>2. AddsTo(file, Append(file, page)) /\ AddsTo(Append(file, page), file')
    BY <2>1, AppendedGrows, FileGrows
  <2>. QED  BY <2>2, GrowsTwice
<1>4. CASE PageThatFails
  BY <1>4, AppendedGrows DEF PageThatFails
<1>. QED  BY <1>1, <1>2, <1>3, <1>4

LEMMA OriginalsStay ==
    ASSUME OriginalsAre, AddsTo(file, file'), UNCHANGED <<isModified, documents, client>>
    PROVE  OriginalsAre'
BY DEF OriginalsAre, OriginalCount, AddsTo

\* The streams among what a step adds have the key.
LEMMA StreamsAdded ==
    ASSUME file \in Seq(FileObject), NEW key,
           NoPageOrLink(key) \/ Link \/ WholePage(key) \/ PageThatFails
    PROVE  \A k \in 1 .. Len(file') :
              \/ k \in 1 .. Len(file) /\ file'[k] = file[k]
              \/ file'[k].kind \in {"content", "form"} => file'[k].key = key
<1>1. AddsTo(file, file')
  BY StepGrows
<1>2. ASSUME NEW f, FileAdds(f, file', Others(key)), NEW k \in 1 .. Len(file')
      PROVE  \/ k \in 1 .. Len(f) /\ file'[k] = f[k]
             \/ file'[k].kind \in {"content", "form"} => file'[k].key = key
  BY <1>2 DEF FileAdds, Others
<1>3. ASSUME NEW o \in FileObject, NEW f, f = Append(file, o), NEW k \in 1 .. Len(f),
             o.kind = "page" \/ o.kind = "annotation"
      PROVE  \/ k \in 1 .. Len(file) /\ f[k] = file[k]
             \/ f[k].kind \notin {"content", "form"}
  <2>1. /\ AddsTo(file, f) /\ f[Len(file) + 1] = o
        /\ \A i \in 1 .. Len(f) : i \in 1 .. Len(file) \/ i = Len(file) + 1
    BY <1>3, AppendedGrows
  <2>. QED  BY <1>3, <2>1 DEF AddsTo
<1>4. CASE NoPageOrLink(key)
  BY <1>2, <1>4 DEF NoPageOrLink
<1>5. CASE Link \/ PageThatFails
  <2>1. PICK o \in FileObject : /\ file' = Append(file, o)
                                /\ o.kind = "page" \/ o.kind = "annotation"
    BY <1>5 DEF Link, PageThatFails
  <2>. QED  BY <1>3, <2>1
<1>6. CASE WholePage(key)
  <2>1. PICK page \in FileObject : /\ FileAdds(Append(file, page), file', Others(key))
                                   /\ page.kind = "page"
    BY <1>6 DEF WholePage
  <2>2. PICK f : f = Append(file, page)
    OBVIOUS
  <2>3. \A k \in 1 .. Len(f) : \/ k \in 1 .. Len(file) /\ f[k] = file[k]
                               \/ f[k].kind \notin {"content", "form"}
    BY <1>3, <2>1, <2>2
  <2>. QED  BY <1>2, <2>1, <2>2, <2>3
<1>. QED  BY <1>4, <1>5, <1>6

LEMMA EncryptionStep ==
    ASSUME EncryptedLast, EInv, Shapes, Shapes', file \in Seq(FileObject),
           Len(registry) \in Nat, forms \subseteq Nat, Steps, UNCHANGED client,
           phase = "open", phase' = "open"
    PROVE  EInv'
<1>1. /\ HelperRight /\ StreamsRight /\ OriginalsAre /\ modifiedIDExists = isModified
      /\ trailer.encrypt = NoID /\ restarts \in Nat
  BY DEF EInv
<1>2. PICK key \in Int : key = DocumentKey
  <2>1. documents \in Int /\ OriginalID \in Int
    <3>1. documents \in Nat /\ client \in Clients
      BY DEF Shapes
    <3>. QED  BY <3>1, ClientNumbers DEF OriginalID
  <2>. QED  BY <2>1 DEF DocumentKey, Plain
<1>3. stream = NoStream => key = StreamKey
  BY <1>1, <1>2, KeyIs
<1>4. /\ NoPageOrLink(key) \/ Link \/ WholePage(key) \/ PageThatFails
      /\ UNCHANGED <<isModified, documents>>
  BY <1>3, StepFile
<1>5. HelperRight'
  BY <1>1, HelperStays
<1>6. OriginalsAre'
  <2>1. AddsTo(file, file')
    BY <1>4, StepGrows
  <2>. QED  BY <1>1, <1>4, <2>1, OriginalsStay
<1>7. StreamsRight'
  <2>1. DocumentKey' = key /\ OriginalCount' = OriginalCount /\ isModified' = isModified
    BY <1>2, <1>4 DEF DocumentKey, IsEncrypted, OriginalID, OriginalCount
  <2>2. \A k \in 1 .. Len(file') :
           \/ k \in 1 .. Len(file) /\ file'[k] = file[k]
           \/ file'[k].kind \in {"content", "form"} => file'[k].key = key
    BY <1>4, StreamsAdded
  <2>. QED  BY <1>1, <1>2, <2>1, <2>2 DEF StreamsRight
<1>8. restarts' \in Nat
  <2>1. restarts' = restarts \/ restarts' = restarts + 1
    BY <1>4 DEF NoPageOrLink, Link, WholePage, PageThatFails
  <2>. QED  BY <1>1, <2>1
<1>9. modifiedIDExists' = isModified' /\ trailer'.encrypt = NoID
  BY <1>1, StepHelper, StepTrailer
<1>. QED  BY <1>5, <1>6, <1>7, <1>8, <1>9 DEF EInv

\* The beginning of a document: the modified file's objects, and no others.
LEMMA OriginalsBegin ==
    ASSUME StartPDF \/ ModifyPDF, UNCHANGED client
    PROVE  /\ OriginalsAre'
           /\ \A k \in 1 .. Len(file') : isModified' /\ k \in 1 .. OriginalCount'
<1>1. CASE StartPDF
  <2>1. file' = <<>> /\ isModified' = FALSE
    BY <1>1 DEF StartPDF
  <2>. QED  BY <2>1 DEF OriginalsAre
<1>2. CASE ModifyPDF
  <2>1. isModified' = TRUE
    BY <1>2 DEF ModifyPDF
  <2>3. PICK encrypted \in BOOLEAN : encrypted <=> documents' \in client.encrypted
    <3>1. CASE documents' \in client.encrypted
      BY <3>1
    <3>2. CASE documents' \notin client.encrypted
      BY <3>2
    <3>. QED  BY <3>1, <3>2
  <2>4. PICK f, n : f = OriginalFile(encrypted) /\ n = IF encrypted THEN 4 ELSE 3
    OBVIOUS
  <2>5. /\ f \in Seq(FileObject) /\ Len(f) = n /\ n \in Nat /\ 3 <= n
        /\ \A k \in 1 .. n : f[k].id = k /\ Fits(f[k], OriginalKinds, n + 1)
    <3>1. IsOriginal(f, n)
      BY <2>4, OriginalFileIs
    <3>. QED  BY <3>1 DEF IsOriginal
  <2>6. file' = f /\ OriginalCount' = n
    BY <1>2, <2>3, <2>4 DEF ModifyPDF, OriginalCount
  <2>7. OriginalsAre'
    <3>1. ASSUME NEW k \in 1 .. n
          PROVE  /\ k \in 1 .. Len(f) /\ f[k].kind = OriginalKinds[k]
                 /\ \A ref \in f[k].refs : ref[1] # "Annots"
      <4>1. k \in 1 .. Len(f) /\ f[k].kind = OriginalKinds[k]
        BY <2>5, <3>1 DEF Fits
      <4>2. ASSUME NEW ref \in f[k].refs
            PROVE  ref[1] # "Annots"
        <5>1. ref[2] \in Nat /\ OriginalKinds[ref[2]] \in KindsFor(ref[1])
          BY <2>5, <3>1 DEF Fits
        <5>2. OriginalKinds[ref[2]] # "annotation"
          BY <5>1 DEF OriginalKinds
        <5>. QED  BY <5>1, <5>2, Roles
      <4>. QED  BY <4>1, <4>2
    <3>. QED  BY <2>6, <3>1 DEF OriginalsAre
  <2>. QED  BY <2>1, <2>5, <2>6, <2>7
<1>. QED  BY <1>1, <1>2

LEMMA EncryptionStart ==
    ASSUME EInv, Shapes, Shapes', Forgotten, StartPDF \/ ModifyPDF, UNCHANGED client
    PROVE  EInv'
<1>1. /\ phase = "closed" /\ documents < client.documents /\ documents' = documents + 1
      /\ phase' = "open" /\ stream' = NoStream /\ restarts' = restarts
  BY DEF StartPDF, ModifyPDF, NextDocument
<1>2. NotYetEncrypting /\ modifiedIDExists = FALSE /\ restarts \in Nat
  BY <1>1 DEF EInv
<1>3. trailer = NewTrailer
  BY DEF Forgotten
<1>4. /\ DocumentKey' = IF ~IsEncrypted' THEN Plain ELSE IF isModified' THEN OriginalID
                        ELSE documents'
      /\ IsEncrypted' <=> documents' \in client.encrypted
  BY DEF DocumentKey, OriginalID, IsEncrypted
<1>5. ASSUME ~IsEncrypted', helper' = helper
      PROVE  HelperRight'
  BY <1>2, <1>5 DEF HelperRight, NotYetEncrypting
<1>6. ASSUME IsEncrypted', helper' = Setup(helper, DocumentKey'),
             ~isModified' => newPDFID' = documents'
      PROVE  HelperRight'
  <2>1. client.encrypted # {}
    BY <1>4, <1>6
  <2>2. /\ helper'.encrypted /\ helper'.attached /\ helper'.pauseLevel = helper.pauseLevel
        /\ helper'.streamsListed = ~helper.xcrypts /\ helper'.key = DocumentKey'
    BY <1>6, SetupIs DEF Shapes
  <2>3. helper.pauseLevel = 0 /\ ~helper.xcrypts
    BY <1>2, <2>1 DEF NotYetEncrypting
  <2>. QED  BY <1>1, <1>6, <2>2, <2>3 DEF HelperRight, EncryptingOutsideStreams
<1>7. CASE StartPDF
  <2>1. /\ file' = <<>> /\ isModified' = FALSE /\ trailer' = trailer
        /\ modifiedIDExists' = modifiedIDExists
    BY <1>7 DEF StartPDF
  <2>2. HelperRight'
    BY <1>4, <1>5, <1>6, <1>7, <2>1 DEF StartPDF
  <2>3. StreamsRight' /\ OriginalsAre'
    BY <2>1 DEF StreamsRight, OriginalsAre
  <2>4. trailer'.encrypt = NoID
    BY <1>3, <2>1 DEF NewTrailer
  <2>. QED  BY <1>1, <1>2, <2>1, <2>2, <2>3, <2>4, Zenon DEF EInv
<1>8. CASE ModifyPDF
  <2>1. /\ isModified' = TRUE /\ modifiedIDExists' = TRUE
        /\ trailer' = [trailer EXCEPT !.root = 1, !.modified = "now"]
    BY <1>8 DEF ModifyPDF
  <2>2. HelperRight'
    BY <1>4, <1>5, <1>6, <1>8, <2>1 DEF ModifyPDF
  <2>3. StreamsRight' /\ OriginalsAre'
    <3>1. /\ OriginalsAre'
          /\ \A k \in 1 .. Len(file') : isModified' /\ k \in 1 .. OriginalCount'
      BY OriginalsBegin
    <3>2. \A k \in 1 .. OriginalCount' : k <= OriginalCount'
      BY DEF OriginalCount
    <3>. QED  BY <3>1, <3>2 DEF StreamsRight
  <2>4. trailer'.encrypt = NoID
    BY <1>3, <2>1 DEF NewTrailer
  <2>. QED  BY <1>1, <1>2, <2>1, <2>2, <2>3, <2>4, Zenon DEF EInv
<1>. QED  BY <1>7, <1>8

\* The modified file's own objects, as the end of the document sees them.
LEMMA OriginalsObjects ==
    ASSUME NEW f \in Seq(FileObject), NEW n \in Nat, n <= Len(f), NEW s, s = SubSeq(f, 1, n)
    PROVE  Len(s) = n /\ (\A k \in 1 .. n : s[k] = f[k]) /\ ToSet(s) = {f[k] : k \in 1 .. n}
<1>1. /\ Len(f) \in Nat /\ s \in Seq(FileObject) /\ Len(s) = n
      /\ \A k \in 1 .. n : s[k] = f[k]
  <2>1. Len(f) \in Nat
    BY LenProperties
  <2>. QED  BY <2>1, SubSeqProperties
<1>2. DOMAIN s = 1 .. n
  BY <1>1, LenProperties
<1>. QED  BY <1>1, <1>2 DEF ToSet

LEMMA EncryptOriginals ==
    ASSUME file \in Seq(FileObject), OriginalsStart, OriginalsAre
    PROVE  /\ isModified /\ IsEncrypted =>
                  OriginalEncrypt # {} /\ \A id \in OriginalEncrypt : id = 4
           /\ ~(isModified /\ IsEncrypted) => OriginalEncrypt = {}
<1>1. OriginalEncrypt = {o.id : o \in {o \in ToSet(OriginalObjects) : o.kind = "encrypt"}}
  BY DEF OriginalEncrypt
<1>2. CASE ~isModified
  <2>1. ToSet(OriginalObjects) = {}
    BY <1>2 DEF OriginalObjects, ToSet
  <2>. QED  BY <1>1, <1>2, <2>1
<1>3. CASE isModified
  <2>1. PICK n \in Nat : n = OriginalCount /\ (n = IF IsEncrypted THEN 4 ELSE 3)
    BY DEF OriginalCount, IsEncrypted
  <2>2. n <= Len(file) /\ OriginalObjects = SubSeq(file, 1, n)
    BY <1>3, <2>1 DEF OriginalsStart, OriginalObjects, OriginalCount
  <2>3. ToSet(OriginalObjects) = {file[k] : k \in 1 .. n}
    BY <2>2, OriginalsObjects
  <2>4. \A k \in 1 .. n : file[k].kind = OriginalKinds[k] /\ file[k].id = k
    BY <1>3, <2>1 DEF OriginalsAre, OriginalsStart
  <2>5. \A k \in 1 .. n : OriginalKinds[k] = "encrypt" <=> k = 4
    BY <2>1 DEF OriginalKinds
  <2>6. \A o \in ToSet(OriginalObjects) : o.kind = "encrypt" => o.id = 4 /\ n = 4
    BY <2>1, <2>3, <2>4, <2>5
  <2>7. CASE IsEncrypted
    <3>1. file[4] \in ToSet(OriginalObjects) /\ file[4].kind = "encrypt"
      BY <2>1, <2>3, <2>4, <2>5, <2>7
    <3>2. file[4].id \in OriginalEncrypt
      BY <1>1, <3>1
    <3>3. \A id \in OriginalEncrypt : id = 4
      BY <1>1, <2>6
    <3>. QED  BY <1>3, <2>7, <3>2, <3>3
  <2>8. CASE ~IsEncrypted
    <3>1. \A o \in ToSet(OriginalObjects) : o.kind # "encrypt"
      BY <2>1, <2>6, <2>8
    <3>2. OriginalEncrypt = {}
      BY <1>1, <3>1
    <3>. QED  BY <1>3, <2>8, <3>2
  <2>. QED  BY <2>7, <2>8
<1>. QED  BY <1>2, <1>3

\* What the trailer says of encryption is what the helper did.
LEMMA Announced ==
    ASSUME HelperRight, OriginalsStart, OriginalsAre, file \in Seq(FileObject),
           modifiedIDExists = isModified, trailer.encrypt = NoID, documents # 0,
           isModified \in BOOLEAN, NEW w, NextID(w) # NoID, NEW newID,
           newID = IF newPDFID = 0 THEN documents ELSE newPDFID
    PROVE  DocumentKey = IF EncryptAfter(w) = NoID THEN Plain ELSE FirstID(newID)
<1>1. /\ isModified /\ IsEncrypted => OriginalEncrypt # {} /\ \A id \in OriginalEncrypt : id = 4
      /\ ~(isModified /\ IsEncrypted) => OriginalEncrypt = {}
  BY EncryptOriginals
<1>2. CASE ~IsEncrypted
  <2>1. ~WritesEncryption
    BY <1>2 DEF HelperRight, NotYetEncrypting, WritesEncryption
  <2>. QED  BY <1>1, <1>2, <2>1 DEF EncryptAfter, DocumentKey
<1>3. CASE IsEncrypted /\ ~isModified
  <2>1. WritesEncryption /\ newPDFID = documents
    BY <1>3 DEF HelperRight, EncryptingOutsideStreams, WritesEncryption
  <2>. QED  BY <1>3, <2>1 DEF EncryptAfter, DocumentKey, FirstID
<1>4. CASE IsEncrypted /\ isModified
  <2>1. ~WritesEncryption
    BY <1>4 DEF WritesEncryption
  <2>2. EncryptAfter(w) = 4
    BY <1>1, <1>4, <2>1 DEF EncryptAfter
  <2>. QED  BY <1>4, <2>2 DEF DocumentKey, FirstID, NoID
<1>. QED  BY <1>2, <1>3, <1>4
\* The end of a document, well or not.
LEMMA TreeWas ==
    ASSUME OriginalsAre, file \in Seq(FileObject)
    PROVE  TreeOfOriginal
<1>1. CASE isModified
  <2>1. 2 \in 1 .. OriginalCount /\ OriginalKinds[2] = "pages"
    BY DEF OriginalCount, OriginalKinds
  <2>2. /\ 2 \in 1 .. Len(file) /\ file[2].kind = "pages"
        /\ \A ref \in file[2].refs : ref[1] # "Annots"
    BY <1>1, <2>1 DEF OriginalsAre
  <2>3. file[2] \in FileObject
    BY <2>2
  <2>. QED  BY <2>2, <2>3 DEF TreeOfOriginal, Enders
<1>. QED  BY <1>1 DEF TreeOfOriginal

LEMMA EndedEncrypted ==
    ASSUME HelperRight, StreamsRight, OriginalsAre, OriginalsStart,
           modifiedIDExists = isModified, trailer.encrypt = NoID, documents # 0,
           isModified \in BOOLEAN, NEW w, NextID(w) \in Nat \ {0},
           NEW f, FileAdds(file, f, Enders), file' = f, NEW newID,
           newID = IF newPDFID = 0 THEN documents ELSE newPDFID,
           result'.encrypt = EncryptAfter(w), result'.id = <<FirstID(newID), newID>>,
           UNCHANGED <<client, isModified, documents>>
    PROVE  EncryptedAsAnnounced'
<1>1. /\ file \in Seq(FileObject) /\ Len(file) \in Nat /\ f \in Seq(FileObject)
      /\ Len(f) \in Nat /\ Len(file) <= Len(f)
      /\ \A k \in 1 .. Len(file) : f[k] = file[k]
      /\ \A k \in 1 .. Len(f) : k \in 1 .. Len(file) \/ f[k] \in Enders
  BY LenProperties DEF FileAdds
<1>2. DocumentKey = IF result'.encrypt = NoID THEN Plain ELSE result'.id[1]
  <2>1. NextID(w) # NoID
    BY DEF NoID
  <2>2. DocumentKey = IF EncryptAfter(w) = NoID THEN Plain ELSE FirstID(newID)
    BY <1>1, <2>1, Announced
  <2>. QED  BY <2>2
<1>3. PICK n \in Nat : n = Len(OriginalObjects') /\ (isModified => n = OriginalCount)
                       /\ (~isModified => n = 0)
  <2>1. CASE isModified
    <3>1. OriginalObjects' = SubSeq(f, 1, OriginalCount)
      BY <2>1 DEF OriginalObjects, OriginalCount
    <3>2. OriginalCount \in Nat /\ OriginalCount <= Len(f)
      BY <1>1, <2>1 DEF OriginalsStart, OriginalCount
    <3>3. Len(OriginalObjects') = OriginalCount
      BY <1>1, <3>1, <3>2, OriginalsObjects
    <3>. QED  BY <2>1, <3>2, <3>3
  <2>2. CASE ~isModified
    BY <2>2 DEF OriginalObjects
  <2>. QED  BY <2>1, <2>2
<1>4. ASSUME NEW k \in n + 1 .. Len(f), f[k].kind \in {"content", "form"}
      PROVE  f[k].key = DocumentKey
  <2>1. k \in 1 .. Len(f) /\ k > n
    BY <1>1, <1>4
  <2>2. f[k] \notin Enders
    BY <1>4 DEF Enders
  <2>3. k \in 1 .. Len(file) /\ f[k] = file[k]
    BY <1>1, <2>1, <2>2
  <2>4. ~(isModified /\ k <= OriginalCount)
    BY <1>3, <2>1
  <2>. QED  BY <1>4, <2>3, <2>4 DEF StreamsRight
<1>. QED  BY <1>2, <1>3, <1>4 DEF EncryptedAsAnnounced

LEMMA EncryptionEnd ==
    ASSUME PositionsFit, EncryptedLast, EInv, Shapes, Asides, NEW K \in Kinds, Open(K),
           phase = "open", phase' = "closed", Endings, UNCHANGED client
    PROVE  EInv'
<1>1. /\ HelperRight /\ StreamsRight /\ OriginalsAre /\ modifiedIDExists = isModified
      /\ trailer.encrypt = NoID /\ restarts \in Nat
  BY DEF EInv
<1>2. OneOwner(K) /\ (ImagesOnce => RightKind(K)) /\ result = NoResult
  BY DEF Open, Asides
<1>3. /\ Cleanup /\ modifiedIDExists' = FALSE /\ restarts' = restarts
      /\ UNCHANGED <<isModified, documents>> /\ helper' = [helper EXCEPT !.attached = FALSE]
  BY DEF Endings, EndPDF, EndPDFFails, Reset, Cleanup
<1>4. ASSUME documents' < client.documents
      PROVE  NotYetEncrypting'
  <2>1. ~IsEncrypted
    <3>1. documents \in Nat /\ client.documents \in Nat /\ client \in Clients
      BY ClientNumbers DEF Shapes
    <3>2. \A d \in client.encrypted : d >= client.documents
      BY <3>1 DEF EncryptedLast
    <3>. QED  BY <1>3, <1>4, <3>1, <3>2 DEF IsEncrypted
  <2>2. NotYetEncrypting
    BY <1>1, <2>1 DEF HelperRight
  <2>3. /\ helper'.encrypted = helper.encrypted /\ ~helper'.attached
        /\ helper'.pauseLevel = helper.pauseLevel /\ helper'.xcrypts = helper.xcrypts
    BY <1>3 DEF Shapes, HelperRecord
  <2>. QED  BY <2>2, <2>3 DEF NotYetEncrypting
<1>5. NoResult.status # "ok" /\ [NoResult EXCEPT !.status = "failed"].status # "ok"
  BY DEF NoResult
<1>6. EncryptedAsAnnounced'
  <2>1. CASE EndPDFFails \/ Reset
    <3>1. result'.status # "ok"
      BY <1>2, <1>5, <2>1 DEF EndPDFFails, Reset
    <3>. QED  BY <3>1 DEF EncryptedAsAnnounced, EndedWell
  <2>2. ASSUME NEW other \in BOOLEAN, EndPDF(other)
        PROVE  EncryptedAsAnnounced'
    <3>1. PICK w : w = InfoWritten(CatalogWritten(other))
      OBVIOUS
    <3>2. CASE CanWriteXref(EncryptionWritten(w).registry)
      <4>1. PICK newID : newID = IF newPDFID = 0 THEN documents ELSE newPDFID
        OBVIOUS
      <4>2. /\ file' = EncryptionWritten(w).file
            /\ result'.encrypt = EncryptAfter(w)
            /\ result'.id = <<FirstID(newID), newID>>
        BY <2>2, <3>1, <3>2, <4>1 DEF EndPDF
      <4>3. TreeOfOriginal
        <5>1. file \in Seq(FileObject)
          BY <1>2, OpenWriter DEF Shapes
        <5>. QED  BY <1>1, <5>1, TreeWas
      <4>4. /\ NextID(w) \in Nat \ {0}
            /\ FileAdds(file, EncryptionWritten(w).file, Enders)
        BY <1>2, <3>1, <4>3, EndingFile
      <4>5. OriginalsStart /\ documents # 0 /\ isModified \in BOOLEAN
        BY <1>2 DEF OneOwner, Shapes
      <4>. QED  BY <1>1, <1>3, <4>1, <4>2, <4>4, <4>5, EndedEncrypted
    <3>3. CASE ~CanWriteXref(EncryptionWritten(w).registry)
      <4>1. result'.status # "ok"
        BY <1>5, <2>2, <3>1, <3>3 DEF EndPDF
      <4>. QED  BY <4>1 DEF EncryptedAsAnnounced, EndedWell
    <3>. QED  BY <3>2, <3>3
  <2>. QED  BY <2>1, <2>2 DEF Endings
<1>. QED  BY <1>1, <1>3, <1>4, <1>6 DEF EInv
LEMMA EncryptionInit ==
    ASSUME Init
    PROVE  EInv
<1>1. /\ phase = "closed" /\ helper = NoHelper /\ modifiedIDExists = FALSE /\ restarts = 0
      /\ result = NoResult
  BY DEF Init
<1>2. NotYetEncrypting
  BY <1>1 DEF NotYetEncrypting, NoHelper
<1>3. EncryptedAsAnnounced
  BY <1>1 DEF EncryptedAsAnnounced, EndedWell, NoResult
<1>. QED  BY <1>1, <1>2, <1>3 DEF EInv

LEMMA EncryptionUnchanged ==
    ASSUME EInv, UNCHANGED vars
    PROVE  EInv'
<1>1. UNCHANGED <<phase, file, trailer, stream, isModified, modifiedIDExists, newPDFID,
                  documents, helper, result, restarts, client>>
  BY DEF vars, document, drawing, identity, history
<1>2. HelperRight' = HelperRight /\ NotYetEncrypting' = NotYetEncrypting
  BY <1>1 DEF HelperRight, EncryptingOutsideStreams, NotYetEncrypting, IsEncrypted, DocumentKey,
              OriginalID
<1>3. StreamsRight' = StreamsRight /\ OriginalsAre' = OriginalsAre
  BY <1>1 DEF StreamsRight, OriginalsAre, OriginalCount, IsEncrypted, DocumentKey, OriginalID
<1>4. EncryptedAsAnnounced' = EncryptedAsAnnounced
  BY <1>1 DEF EncryptedAsAnnounced, EndedWell, OriginalObjects
<1>. QED  BY <1>1, <1>2, <1>3, <1>4 DEF EInv

LEMMA OpenTypes ==
    ASSUME PositionsFit, Shapes, NEW K, OneOwner(K)
    PROVE  /\ file \in Seq(FileObject) /\ Len(registry) \in Nat /\ forms \subseteq Nat
           /\ NextID(W) = Len(registry)
<1>1. /\ file \in Seq(FileObject) /\ Len(registry) \in Nat \ {0}
      /\ NextID(W) = Len(registry)
  BY OpenWriter
<1>2. \A id \in forms : id \in 1 .. Len(registry) - 1
  BY DEF OneOwner, FormsKnown
<1>. QED  BY <1>1, <1>2

LEMMA EncryptionNext ==
    ASSUME PositionsFit, OpacitiesOnce, EncryptedLast, DInv, DInv', EInv, [Next]_vars
    PROVE  EInv'
<1>1. Shapes /\ Asides /\ Shapes'
  BY DEF DInv
<1>2. ASSUME Calls, UNCHANGED client
      PROVE  EInv'
  <2>1. StartPDF \/ ModifyPDF \/ Steps \/ Endings
    BY <1>2, CallsAre
  <2>2. /\ (StartPDF \/ ModifyPDF) => phase = "closed"
        /\ Steps => phase = "open"
        /\ Endings => phase = "open" /\ Cleanup
    BY OpenPhases
  <2>3. CASE StartPDF \/ ModifyPDF
    <3>1. Forgotten
      BY <2>2, <2>3 DEF DInv
    <3>. QED  BY <1>1, <1>2, <2>3, <3>1, EncryptionStart
  <2>4. CASE Steps \/ Endings
    <3>1. phase = "open" /\ \E K \in Kinds : Open(K)
      BY <2>2, <2>4 DEF DInv
    <3>2. PICK K \in Kinds : Open(K)
      BY <3>1
    <3>3. OneOwner(K)
      BY <3>2 DEF Open
    <3>4. CASE Steps
      <4>1. file \in Seq(FileObject) /\ Len(registry) \in Nat /\ forms \subseteq Nat
        BY <1>1, <3>3, OpenTypes
      <4>2. phase' = "open"
        BY <3>1, <3>3, <3>4, StepStaysOpen
      <4>. QED  BY <1>1, <1>2, <3>1, <3>4, <4>1, <4>2, EncryptionStep
    <3>5. CASE Endings
      <4>1. phase' = "closed"
        BY <1>1, <1>2, <3>1, <3>2, <3>5, EndStep DEF Endings
      <4>. QED  BY <1>1, <1>2, <3>1, <3>2, <3>5, <4>1, EncryptionEnd
    <3>. QED  BY <2>4, <3>4, <3>5
  <2>. QED  BY <2>1, <2>3, <2>4
<1>3. CASE UNCHANGED vars
  BY <1>3, EncryptionUnchanged
<1>. QED  BY <1>2, <1>3 DEF Next, Ended

\* A client that encrypts its last document, and that one only, gets it encrypted as the
\* trailer says: the content streams and the forms, and those of no other document, with
\* the key of the ID that is in the trailer, however they are paused and whatever fails.
THEOREM EncryptedWhenLast ==
    ASSUME PositionsFit, OpacitiesOnce, EncryptedLast
    PROVE  Spec => []EncryptedAsAnnounced
<1>1. Init => EInv
  BY EncryptionInit
<1>2. DInv /\ DInv' /\ EInv /\ [Next]_vars => EInv'
  BY EncryptionNext
<1>3. DInv /\ EInv => EncryptedAsAnnounced
  BY DEF DInv, EInv, EncryptedAsAnnounced, EndedWell
<1>4. Spec => []DInv
  BY Invariant
<1>. QED  BY <1>1, <1>2, <1>3, <1>4, PTL DEF Spec
-----------------------------------------------------------------------------
(***************************************************************************)
(* Links.  A link waits, and is in mAnnotations, until the next whole page *)
(* takes it; then that page names it and no other does.                    *)
(***************************************************************************)
IDsOf(f) == {f[k].id : k \in 1 .. Len(f)}
TakesLinks(f, j) == f[j].kind = "page" /\ f[j].whole
NamesLink(f, j, k) == <<"Annots", f[k].id>> \in f[j].refs

Waits(f, k) == \A j \in 1 .. Len(f) : ~NamesLink(f, j, k) /\ (j > k => ~TakesLinks(f, j))
Taken(f, k, i) ==
    /\ i > k /\ TakesLinks(f, i)
    /\ \A j \in 1 .. Len(f) : /\ NamesLink(f, j, k) <=> j = i
                              /\ j > k /\ TakesLinks(f, j) => i <= j

LinksRight(f, waiting) ==
    \A k \in 1 .. Len(f) : f[k].kind = "annotation" =>
        \/ f[k].id \in waiting /\ Waits(f, k)
        \/ f[k].id \notin waiting /\ \E i \in 1 .. Len(f) : Taken(f, k, i)

LinksKnown(f, waiting) ==
    /\ \A j \in 1 .. Len(f) : \A ref \in f[j].refs : ref[1] = "Annots" => ref[2] \in IDsOf(f)
    /\ waiting \subseteq IDsOf(f)

\* What the invariant says of the property.
PlacesIn(f, kind) == {k \in 1 .. Len(f) : f[k].kind = kind}

LinksReach(f, waiting) ==
    \A k \in PlacesIn(f, "annotation") :
        LET later == {j \in PlacesIn(f, "page") : j > k /\ f[j].whole}
            users == {j \in PlacesIn(f, "page") : <<"Annots", f[k].id>> \in f[j].refs}
        IN IF later = {} THEN users = {} /\ f[k].id \in waiting ELSE users = {Min(later)}

LEMMA LinksSay ==
    ASSUME NEW f \in Seq(FileObject), NEW w, LinksRight(f, w)
    PROVE  LinksReach(f, w)
<1>1. Len(f) \in Nat
  BY LenProperties
<1>2. ASSUME NEW k \in PlacesIn(f, "annotation"), NEW later, NEW users,
             later = {j \in PlacesIn(f, "page") : j > k /\ f[j].whole},
             users = {j \in PlacesIn(f, "page") : <<"Annots", f[k].id>> \in f[j].refs}
      PROVE  IF later = {} THEN users = {} /\ f[k].id \in w
             ELSE users = {Min(later)}
  <2>1. k \in 1 .. Len(f) /\ f[k].kind = "annotation"
    BY <1>2 DEF PlacesIn
  <2>2. CASE f[k].id \in w /\ Waits(f, k)
    <3>1. later = {} /\ users = {}
      BY <1>2, <2>2 DEF Waits, NamesLink, TakesLinks, PlacesIn
    <3>. QED  BY <2>2, <3>1
  <2>3. CASE \E i \in 1 .. Len(f) : Taken(f, k, i)
    <3>1. PICK i \in 1 .. Len(f) : Taken(f, k, i)
      BY <2>3
    <3>2. i \in later /\ users = {i}
      BY <1>2, <3>1 DEF Taken, NamesLink, TakesLinks, PlacesIn
    <3>3. \A j \in later : i <= j /\ j \in Nat
      BY <1>1, <1>2, <3>1 DEF Taken, TakesLinks, PlacesIn
    <3>4. \A j \in later : (\A y \in later : j <= y) => j = i
      BY <3>2, <3>3
    <3>5. Min(later) = i
      BY <3>2, <3>3, <3>4 DEF Min
    <3>. QED  BY <3>2, <3>5
  <2>. QED  BY <2>1, <2>2, <2>3 DEF LinksRight
<1>. QED  BY <1>2 DEF LinksReach

\* Other objects.
LEMMA LinksOthers ==
    ASSUME NEW f, NEW g, NEW key, FileAdds(f, g, Others(key)), NEW w, LinksRight(f, w),
           LinksKnown(f, w)
    PROVE  LinksRight(g, w) /\ LinksKnown(g, w)
<1>1. /\ Len(f) \in Nat /\ Len(g) \in Nat /\ Len(f) <= Len(g)
      /\ \A k \in 1 .. Len(f) : k \in 1 .. Len(g) /\ g[k] = f[k]
  BY FileGrows DEF AddsTo
<1>2. \A k \in 1 .. Len(g) : \/ k \in 1 .. Len(f)
                             \/ /\ g[k].kind # "page" /\ g[k].kind # "annotation"
                                /\ \A ref \in g[k].refs : ref[1] # "Annots"
  BY DEF FileAdds, Others
<1>3. ASSUME NEW k \in 1 .. Len(f), Waits(f, k)
      PROVE  Waits(g, k)
  <2>1. ASSUME NEW j \in 1 .. Len(g)
        PROVE  ~NamesLink(g, j, k) /\ (j > k => ~TakesLinks(g, j))
    <3>1. CASE j \in 1 .. Len(f)
      BY <1>1, <1>3, <3>1 DEF Waits, NamesLink, TakesLinks
    <3>2. CASE j \notin 1 .. Len(f)
      BY <1>2, <3>2 DEF NamesLink, TakesLinks
    <3>. QED  BY <3>1, <3>2
  <2>. QED  BY <2>1 DEF Waits
<1>4. ASSUME NEW k \in 1 .. Len(f), NEW i \in 1 .. Len(f), Taken(f, k, i)
      PROVE  Taken(g, k, i)
  <2>1. i > k /\ TakesLinks(g, i)
    BY <1>1, <1>4 DEF Taken, TakesLinks
  <2>2. ASSUME NEW j \in 1 .. Len(g)
        PROVE  /\ NamesLink(g, j, k) <=> j = i
               /\ j > k /\ TakesLinks(g, j) => i <= j
    <3>1. CASE j \in 1 .. Len(f)
      BY <1>1, <1>4, <3>1 DEF Taken, NamesLink, TakesLinks
    <3>2. CASE j \notin 1 .. Len(f)
      BY <1>2, <3>2 DEF NamesLink, TakesLinks
    <3>. QED  BY <3>1, <3>2
  <2>. QED  BY <2>1, <2>2 DEF Taken
<1>5. LinksRight(g, w)
  BY <1>1, <1>2, <1>3, <1>4 DEF LinksRight
<1>6. IDsOf(f) \subseteq IDsOf(g)
  BY <1>1 DEF IDsOf
<1>7. LinksKnown(g, w)
  BY <1>1, <1>2, <1>6 DEF LinksKnown
<1>. QED  BY <1>5, <1>7

\* A new object at the end.
AddsOne(f, g, o) ==
    /\ Len(f) \in Nat /\ Len(g) = Len(f) + 1 /\ g[Len(f) + 1] = o
    /\ \A k \in 1 .. Len(f) : k \in 1 .. Len(g) /\ g[k] = f[k]
    /\ \A k \in 1 .. Len(g) : k \in 1 .. Len(f) \/ k = Len(f) + 1
    /\ IDsOf(f) \subseteq IDsOf(g) /\ o.id \in IDsOf(g)

LEMMA OneMoreObject ==
    ASSUME NEW f \in Seq(FileObject), NEW o \in FileObject
    PROVE  AddsOne(f, Append(f, o), o)
<1>1. PICK g : g = Append(f, o)
  OBVIOUS
<1>2. /\ Len(f) \in Nat /\ Len(g) = Len(f) + 1 /\ g[Len(f) + 1] = o
      /\ \A k \in 1 .. Len(f) : k \in 1 .. Len(g) /\ g[k] = f[k]
      /\ \A k \in 1 .. Len(g) : k \in 1 .. Len(f) \/ k = Len(f) + 1
  BY <1>1, AppendedGrows DEF AddsTo
<1>3. IDsOf(f) \subseteq IDsOf(g) /\ o.id \in IDsOf(g)
  BY <1>2 DEF IDsOf
<1>. QED  BY <1>1, <1>2, <1>3 DEF AddsOne

LEMMA LinksLink ==
    ASSUME NEW f \in Seq(FileObject), NEW o \in FileObject, o.kind = "annotation", o.refs = {},
           o.id \notin IDsOf(f), NEW g, g = Append(f, o), NEW w, LinksRight(f, w),
           LinksKnown(f, w)
    PROVE  LinksRight(g, w \cup {o.id}) /\ LinksKnown(g, w \cup {o.id})
<1>1. /\ Len(f) \in Nat /\ Len(g) = Len(f) + 1 /\ g[Len(f) + 1] = o
      /\ \A k \in 1 .. Len(f) : k \in 1 .. Len(g) /\ g[k] = f[k]
      /\ \A k \in 1 .. Len(g) : k \in 1 .. Len(f) \/ k = Len(f) + 1
      /\ IDsOf(f) \subseteq IDsOf(g) /\ o.id \in IDsOf(g)
  <2>1. AddsOne(f, g, o)
    BY OneMoreObject
  <2>. QED  BY <2>1 DEF AddsOne
<1>2. ASSUME NEW k \in 1 .. Len(f), Waits(f, k)
      PROVE  Waits(g, k)
  BY <1>1, <1>2 DEF Waits, NamesLink, TakesLinks
<1>3. ASSUME NEW k \in 1 .. Len(f), NEW i \in 1 .. Len(f), Taken(f, k, i)
      PROVE  Taken(g, k, i)
  BY <1>1, <1>3 DEF Taken, NamesLink, TakesLinks
<1>4. Waits(g, Len(f) + 1)
  <2>1. \A j \in 1 .. Len(f) : <<"Annots", o.id>> \notin f[j].refs
    BY DEF LinksKnown
  <2>2. \A j \in 1 .. Len(g) : <<"Annots", o.id>> \notin g[j].refs
    BY <1>1, <2>1
  <2>3. \A j \in 1 .. Len(g) : ~(j > Len(f) + 1)
    BY <1>1
  <2>. QED  BY <1>1, <2>2, <2>3 DEF Waits, NamesLink
<1>5. ASSUME NEW k \in 1 .. Len(f)
      PROVE  f[k].id # o.id
  BY DEF IDsOf
<1>6. LinksRight(g, w \cup {o.id})
  <2>1. ASSUME NEW k \in 1 .. Len(f), g[k].kind = "annotation"
        PROVE  \/ g[k].id \in w \cup {o.id} /\ Waits(g, k)
               \/ g[k].id \notin w \cup {o.id} /\ \E i \in 1 .. Len(g) : Taken(g, k, i)
    BY <1>1, <1>2, <1>3, <1>5, <2>1 DEF LinksRight
  <2>. QED  BY <1>1, <1>4, <2>1 DEF LinksRight
<1>7. LinksKnown(g, w \cup {o.id})
  BY <1>1 DEF LinksKnown
<1>. QED  BY <1>6, <1>7

LEMMA LinksWhole ==
    ASSUME NEW f \in Seq(FileObject), NEW page \in FileObject, page.kind = "page", page.whole,
           NEW w, \A ref \in page.refs : ref[1] = "Annots" => ref[2] \in w,
           \A a \in w : <<"Annots", a>> \in page.refs,
           NEW g, g = Append(f, page), LinksRight(f, w), LinksKnown(f, w)
    PROVE  LinksRight(g, {}) /\ LinksKnown(g, {})
<1>1. /\ Len(f) \in Nat /\ Len(g) = Len(f) + 1 /\ g[Len(f) + 1] = page
      /\ \A k \in 1 .. Len(f) : k \in 1 .. Len(g) /\ g[k] = f[k]
      /\ \A k \in 1 .. Len(g) : k \in 1 .. Len(f) \/ k = Len(f) + 1
      /\ IDsOf(f) \subseteq IDsOf(g)
  <2>1. AddsOne(f, g, page)
    BY OneMoreObject
  <2>. QED  BY <2>1 DEF AddsOne
<1>2. Len(f) + 1 \in 1 .. Len(g) /\ TakesLinks(g, Len(f) + 1)
  BY <1>1 DEF TakesLinks
<1>3. ASSUME NEW k \in 1 .. Len(f), f[k].id \in w, Waits(f, k)
      PROVE  Taken(g, k, Len(f) + 1)
  <2>1. NamesLink(g, Len(f) + 1, k)
    BY <1>1, <1>3 DEF NamesLink
  <2>2. ASSUME NEW j \in 1 .. Len(f)
        PROVE  ~NamesLink(g, j, k) /\ ~(j > k /\ TakesLinks(g, j))
    BY <1>1, <1>3 DEF Waits, NamesLink, TakesLinks
  <2>. QED  BY <1>1, <1>2, <2>1, <2>2 DEF Taken
<1>4. ASSUME NEW k \in 1 .. Len(f), NEW i \in 1 .. Len(f), f[k].id \notin w, Taken(f, k, i)
      PROVE  Taken(g, k, i)
  <2>1. ~NamesLink(g, Len(f) + 1, k)
    BY <1>1, <1>4 DEF NamesLink
  <2>2. i > k /\ TakesLinks(g, i)
    BY <1>1, <1>4 DEF Taken, TakesLinks
  <2>3. ASSUME NEW j \in 1 .. Len(f)
        PROVE  (NamesLink(g, j, k) <=> j = i) /\ (j > k /\ TakesLinks(g, j) => i <= j)
    BY <1>1, <1>4 DEF Taken, NamesLink, TakesLinks
  <2>. QED  BY <1>1, <2>1, <2>2, <2>3 DEF Taken
<1>5. LinksRight(g, {})
  <2>1. ASSUME NEW k \in 1 .. Len(f), g[k].kind = "annotation"
        PROVE  \E i \in 1 .. Len(g) : Taken(g, k, i)
    BY <1>1, <1>2, <1>3, <1>4, <2>1 DEF LinksRight
  <2>. QED  BY <1>1, <2>1 DEF LinksRight
<1>6. LinksKnown(g, {})
  BY <1>1 DEF LinksKnown
<1>. QED  BY <1>5, <1>6

LEMMA LinksBroken ==
    ASSUME NEW f \in Seq(FileObject), NEW page \in FileObject, ~page.whole,
           page.kind = "page", \A ref \in page.refs : ref[1] # "Annots",
           NEW g, g = Append(f, page), NEW w, LinksRight(f, w), LinksKnown(f, w)
    PROVE  LinksRight(g, w) /\ LinksKnown(g, w)
<1>1. /\ Len(f) \in Nat /\ Len(g) = Len(f) + 1 /\ g[Len(f) + 1] = page
      /\ \A k \in 1 .. Len(f) : k \in 1 .. Len(g) /\ g[k] = f[k]
      /\ \A k \in 1 .. Len(g) : k \in 1 .. Len(f) \/ k = Len(f) + 1
      /\ IDsOf(f) \subseteq IDsOf(g)
  <2>1. AddsOne(f, g, page)
    BY OneMoreObject
  <2>. QED  BY <2>1 DEF AddsOne
<1>2. ~TakesLinks(g, Len(f) + 1) /\ \A k : ~NamesLink(g, Len(f) + 1, k)
  BY <1>1 DEF TakesLinks, NamesLink
<1>3. ASSUME NEW k \in 1 .. Len(f), Waits(f, k)
      PROVE  Waits(g, k)
  <2>1. ASSUME NEW j \in 1 .. Len(f)
        PROVE  ~NamesLink(g, j, k) /\ ~(j > k /\ TakesLinks(g, j))
    BY <1>1, <1>3 DEF Waits, NamesLink, TakesLinks
  <2>. QED  BY <1>1, <1>2, <2>1 DEF Waits
<1>4. ASSUME NEW k \in 1 .. Len(f), NEW i \in 1 .. Len(f), Taken(f, k, i)
      PROVE  Taken(g, k, i)
  <2>1. i > k /\ TakesLinks(g, i)
    BY <1>1, <1>4 DEF Taken, TakesLinks
  <2>2. ASSUME NEW j \in 1 .. Len(f)
        PROVE  (NamesLink(g, j, k) <=> j = i) /\ (j > k /\ TakesLinks(g, j) => i <= j)
    BY <1>1, <1>4 DEF Taken, NamesLink, TakesLinks
  <2>. QED  BY <1>1, <1>2, <2>1, <2>2 DEF Taken
<1>5. LinksRight(g, w)
  BY <1>1, <1>3, <1>4 DEF LinksRight
<1>6. LinksKnown(g, w)
  BY <1>1 DEF LinksKnown
<1>. QED  BY <1>5, <1>6
AInv ==
    /\ restarts \in Nat
    /\ phase = "open" => OriginalsAre
    /\ restarts = 0 => IF phase = "open"
                       THEN LinksRight(file, annotations) /\ LinksKnown(file, annotations)
                       ELSE AnnotationsReachNextPage

LEMMA NewIsNew ==
    ASSUME NEW K, OneOwner(K), PositionsFit, Shapes
    PROVE  NextID(W) \notin IDsOf(file)
<1>1. NextID(W) = Len(registry) /\ Len(registry) \in Nat
  BY OpenWriter
<1>2. \A k \in 1 .. Len(file) : file[k].id \in 1 .. Len(registry) - 1
  BY DEF OneOwner, Sound, ObjectIsKnown, W
<1>. QED  BY <1>1, <1>2 DEF IDsOf

LEMMA LinksStep ==
    ASSUME AInv, Shapes, Shapes', file \in Seq(FileObject), Len(registry) \in Nat,
           NextID(W) \notin IDsOf(file), forms \subseteq Nat, Steps, UNCHANGED client,
           phase = "open", phase' = "open"
    PROVE  AInv'
<1>1. /\ OriginalsAre /\ restarts \in Nat
      /\ restarts = 0 => LinksRight(file, annotations) /\ LinksKnown(file, annotations)
  BY DEF AInv
<1>2. PICK key \in Int : key = StreamKey
  BY StreamKeyIs
<1>3. /\ NoPageOrLink(key) \/ Link \/ WholePage(key) \/ PageThatFails
      /\ UNCHANGED <<isModified, documents>>
  BY <1>2, StepFile
<1>4. OriginalsAre'
  <2>1. AddsTo(file, file')
    BY <1>3, StepGrows
  <2>. QED  BY <1>1, <1>3, <2>1, OriginalsStay
<1>5. restarts' = restarts \/ restarts' = restarts + 1
  BY <1>3 DEF NoPageOrLink, Link, WholePage, PageThatFails
<1>6. ASSUME restarts' = 0
      PROVE  LinksRight(file', annotations') /\ LinksKnown(file', annotations')
  <2>1. restarts' = restarts /\ LinksRight(file, annotations) /\ LinksKnown(file, annotations)
    BY <1>1, <1>5, <1>6
  <2>2. CASE NoPageOrLink(key)
    <3>1. FileAdds(file, file', Others(key)) /\ annotations' = annotations
      BY <1>1, <2>1, <2>2 DEF NoPageOrLink
    <3>. QED  BY <2>1, <3>1, LinksOthers
  <2>3. CASE Link
    <3>1. PICK o \in FileObject :
             /\ o.id = NextID(W) /\ o.kind = "annotation" /\ o.refs = {}
             /\ file' = Append(file, o) /\ annotations' = annotations \cup {o.id}
      BY <2>3 DEF Link
    <3>2. o.id \notin IDsOf(file)
      BY <3>1
    <3>. QED  BY <2>1, <3>1, <3>2, LinksLink
  <2>4. CASE WholePage(key)
    <3>1. PICK page \in FileObject :
             /\ page.kind = "page" /\ Names_Links(page) /\ annotations' = {}
             /\ FileAdds(Append(file, page), file', Others(key))
      BY <2>4 DEF WholePage
    <3>2. PICK f : f = Append(file, page)
      OBVIOUS
    <3>3. LinksRight(f, {}) /\ LinksKnown(f, {})
      <4>1. /\ page.whole
            /\ \A ref \in page.refs : ref[1] = "Annots" => ref[2] \in annotations
            /\ \A a \in annotations : <<"Annots", a>> \in page.refs
        BY <3>1 DEF Names_Links
      <4>. QED  BY <2>1, <3>1, <3>2, <4>1, LinksWhole
    <3>. QED  BY <3>1, <3>2, <3>3, LinksOthers
  <2>5. CASE PageThatFails
    <3>1. PICK page \in FileObject :
             /\ page.kind = "page" /\ Names_None(page) /\ annotations' = annotations
             /\ file' = Append(file, page)
      BY <2>5 DEF PageThatFails
    <3>2. ~page.whole /\ \A ref \in page.refs : ref[1] # "Annots"
      BY <3>1 DEF Names_None
    <3>. QED  BY <2>1, <3>1, <3>2, LinksBroken
  <2>. QED  BY <1>3, <2>2, <2>3, <2>4, <2>5
<1>. QED  BY <1>1, <1>4, <1>5, <1>6 DEF AInv

\* A document begins without links, the modified file having none.
LEMMA LinksStart ==
    ASSUME AInv, Forgotten, StartPDF \/ ModifyPDF, UNCHANGED client
    PROVE  AInv'
<1>1. phase' = "open" /\ restarts' = restarts /\ annotations' = {}
  BY DEF StartPDF, ModifyPDF, NextDocument, Forgotten
<1>2. /\ OriginalsAre'
      /\ \A k \in 1 .. Len(file') : isModified' /\ k \in 1 .. OriginalCount'
  BY OriginalsBegin
<1>3. ASSUME NEW k \in 1 .. Len(file')
      PROVE  file'[k].kind # "annotation" /\ \A ref \in file'[k].refs : ref[1] # "Annots"
  <2>1. /\ file'[k].kind = OriginalKinds[k] /\ k \in Nat
        /\ \A ref \in file'[k].refs : ref[1] # "Annots"
    BY <1>2, <1>3 DEF OriginalsAre, OriginalCount
  <2>. QED  BY <2>1 DEF OriginalKinds
<1>4. LinksRight(file', annotations') /\ LinksKnown(file', annotations')
  BY <1>1, <1>3 DEF LinksRight, LinksKnown
<1>. QED  BY <1>1, <1>2, <1>4 DEF AInv

LEMMA LinksEnd ==
    ASSUME PositionsFit, AInv, Shapes, NEW K \in Kinds, Open(K), phase = "open",
           phase' = "closed", Endings
    PROVE  AInv'
<1>1. /\ OriginalsAre /\ restarts \in Nat
      /\ restarts = 0 => LinksRight(file, annotations) /\ LinksKnown(file, annotations)
  BY DEF AInv
<1>2. OneOwner(K) /\ (ImagesOnce => RightKind(K))
  BY DEF Open
<1>3. restarts' = restarts
  BY DEF Endings, EndPDF, EndPDFFails, Reset, Cleanup
<1>4. file \in Seq(FileObject)
  BY <1>2, OpenWriter
<1>5. FileAdds(file, file', Others(Plain))
  <2>1. CASE file' = file
    BY <1>4, <2>1, NothingAdded
  <2>2. ASSUME NEW other \in BOOLEAN, EndPDF(other), file' # file
        PROVE  FileAdds(file, file', Enders)
    <3>1. file' = EncryptionWritten(InfoWritten(CatalogWritten(other))).file
      BY <2>2 DEF EndPDF
    <3>2. TreeOfOriginal
      BY <1>1, <1>4, TreeWas
    <3>. QED  BY <1>2, <3>1, <3>2, EndingFile
  <2>. QED  BY <2>1, <2>2, EndersAreOthers DEF Endings, EndPDFFails, Reset
<1>6. ASSUME restarts = 0
      PROVE  AnnotationsReachNextPage'
  <2>1. LinksRight(file', annotations) /\ file' \in Seq(FileObject)
    BY <1>1, <1>5, <1>6, LinksOthers DEF FileAdds
  <2>2. LinksReach(file', annotations)
    BY <2>1, LinksSay
  <2>. QED  BY <2>2 DEF AnnotationsReachNextPage, LinksReach, PlacesIn, PlacesOf
<1>. QED  BY <1>1, <1>3, <1>6 DEF AInv

LEMMA LinksNext ==
    ASSUME PositionsFit, OpacitiesOnce, DInv, DInv', AInv, [Next]_vars
    PROVE  AInv'
<1>1. Shapes /\ Asides /\ Shapes'
  BY DEF DInv
<1>2. ASSUME Calls, UNCHANGED client
      PROVE  AInv'
  <2>1. StartPDF \/ ModifyPDF \/ Steps \/ Endings
    BY <1>2, CallsAre
  <2>2. /\ (StartPDF \/ ModifyPDF) => phase = "closed"
        /\ Steps => phase = "open"
        /\ Endings => phase = "open" /\ Cleanup
    BY OpenPhases
  <2>3. CASE StartPDF \/ ModifyPDF
    <3>1. Forgotten
      BY <2>2, <2>3 DEF DInv
    <3>. QED  BY <1>2, <2>3, <3>1, LinksStart
  <2>4. CASE Steps \/ Endings
    <3>1. phase = "open" /\ \E K \in Kinds : Open(K)
      BY <2>2, <2>4 DEF DInv
    <3>2. PICK K \in Kinds : Open(K)
      BY <3>1
    <3>3. OneOwner(K)
      BY <3>2 DEF Open
    <3>4. CASE Steps
      <4>1. file \in Seq(FileObject) /\ Len(registry) \in Nat /\ forms \subseteq Nat
        BY <1>1, <3>3, OpenTypes
      <4>2. phase' = "open"
        BY <3>1, <3>3, <3>4, StepStaysOpen
      <4>3. NextID(W) \notin IDsOf(file)
        BY <1>1, <3>3, NewIsNew
      <4>. QED  BY <1>1, <1>2, <3>1, <3>4, <4>1, <4>2, <4>3, LinksStep
    <3>5. CASE Endings
      <4>1. phase' = "closed"
        BY <1>1, <1>2, <3>1, <3>2, <3>5, EndStep DEF Endings
      <4>. QED  BY <1>1, <3>1, <3>2, <3>5, <4>1, LinksEnd
    <3>. QED  BY <2>4, <3>4, <3>5
  <2>. QED  BY <2>1, <2>3, <2>4
<1>3. CASE UNCHANGED vars
  <2>1. UNCHANGED <<phase, file, annotations, isModified, documents, restarts, client>>
    BY <1>3 DEF vars, document, identity, history
  <2>2. OriginalsAre' = OriginalsAre /\ AnnotationsReachNextPage' = AnnotationsReachNextPage
    BY <2>1 DEF OriginalsAre, OriginalCount, AnnotationsReachNextPage, PlacesOf
  <2>. QED  BY <2>1, <2>2 DEF AInv
<1>. QED  BY <1>2, <1>3 DEF Next, Ended

\* A link is named by the next page that is written well, and by no other page; until
\* then it is kept for it, and a page that fails takes none with it.
THEOREM LinksReachTheirPage ==
    ASSUME PositionsFit, OpacitiesOnce
    PROVE  Spec => []AnnotationsReachNextPage
<1>1. Init => AInv
  <2>1. ASSUME Init
        PROVE  AInv
    <3>1. phase = "closed" /\ file = <<>> /\ restarts = 0
      BY <2>1 DEF Init
    <3>2. PlacesOf("annotation") = {}
      BY <3>1 DEF PlacesOf
    <3>. QED  BY <3>1, <3>2 DEF AInv, AnnotationsReachNextPage
  <2>. QED  BY <2>1
<1>2. DInv /\ DInv' /\ AInv /\ [Next]_vars => AInv'
  BY LinksNext
<1>3. DInv /\ AInv => AnnotationsReachNextPage
  <2>1. ASSUME DInv, AInv, phase = "open"
        PROVE  AnnotationsReachNextPage
    <3>1. PICK K \in Kinds : Open(K)
      BY <2>1 DEF DInv
    <3>2. file \in Seq(FileObject)
      BY <2>1, <3>1, OpenWriter DEF Open, DInv
    <3>3. restarts = 0 => LinksReach(file, annotations)
      BY <2>1, <3>2, LinksSay DEF AInv
    <3>. QED  BY <3>3 DEF AnnotationsReachNextPage, LinksReach, PlacesIn, PlacesOf
  <2>2. ASSUME AInv, phase # "open"
        PROVE  AnnotationsReachNextPage
    BY <2>2 DEF AInv, AnnotationsReachNextPage
  <2>. QED  BY <2>1, <2>2
<1>4. Spec => []DInv
  BY Invariant
<1>. QED  BY <1>1, <1>2, <1>3, <1>4, PTL DEF Spec
-----------------------------------------------------------------------------
(***************************************************************************)
(* The pages of a file, in order.                                          *)
(***************************************************************************)
\* g[k] is the pages among the first k objects of f.
IsUpTo(g, f, n) ==
    g = [k \in 0 .. n |->
           IF k = 0 THEN <<>>
           ELSE IF f[k].kind = "page" THEN Append(g[k - 1], f[k].id) ELSE g[k - 1]]

LEMMA UpToExists ==
    ASSUME NEW n \in Nat, NEW f
    PROVE  \E g : IsUpTo(g, f, n)
<1>1. DEFINE S == {m \in 0 .. n : \E g : IsUpTo(g, f, m)}
<1>2. 0 \in S
  <2>1. DEFINE g == [k \in 0 .. 0 |-> <<>>]
  <2>2. IsUpTo(g, f, 0)
    BY DEF IsUpTo
  <2>. QED  BY <2>2
<1>3. ASSUME NEW m \in 1 .. n, m - 1 \in S
      PROVE  m \in S
  <2>1. PICK h : IsUpTo(h, f, m - 1)
    BY <1>3
  <2>2. DEFINE g == [k \in 0 .. m |->
                       IF k = m THEN IF f[m].kind = "page" THEN Append(h[m - 1], f[m].id) ELSE h[m - 1]
                       ELSE h[k]]
  <2>3. /\ \A k \in 0 .. m : k # m => k \in 0 .. m - 1 /\ (k # 0 => k - 1 \in 0 .. m - 1)
        /\ m \in 0 .. m /\ m # 0 /\ m - 1 \in 0 .. m - 1 /\ m - 1 \in 0 .. m
        /\ \A k \in 0 .. m : k # 0 => k - 1 \in 0 .. m /\ k - 1 # m
    BY <1>3
  <2>5. \A k \in 0 .. m - 1 : h[k] = IF k = 0 THEN <<>>
                                     ELSE IF f[k].kind = "page" THEN Append(h[k - 1], f[k].id)
                                     ELSE h[k - 1]
    BY <2>1 DEF IsUpTo
  <2>6. /\ \A k \in 0 .. m : k # m => g[k] = h[k]
        /\ g[m] = IF f[m].kind = "page" THEN Append(h[m - 1], f[m].id) ELSE h[m - 1]
    BY <2>3
  <2>7. g = [k \in 0 .. m |-> g[k]]
    OBVIOUS
  <2>. HIDE DEF g
  <2>8. ASSUME NEW k \in 0 .. m
        PROVE  g[k] = IF k = 0 THEN <<>>
                      ELSE IF f[k].kind = "page" THEN Append(g[k - 1], f[k].id) ELSE g[k - 1]
    <3>1. CASE k = m
      <4>1. g[m - 1] = h[m - 1]
        BY <2>3, <2>6
      <4>. QED  BY <2>3, <2>6, <3>1, <4>1
    <3>2. CASE k # m
      <4>1. k \in 0 .. m - 1 /\ g[k] = h[k] /\ (k # 0 => g[k - 1] = h[k - 1])
        BY <2>3, <2>6, <3>2
      <4>. QED  BY <2>5, <4>1
    <3>. QED  BY <3>1, <3>2
  <2>4. IsUpTo(g, f, m)
    BY <2>7, <2>8 DEF IsUpTo
  <2>. QED  BY <2>4
<1>4. n \in S
  <2>. HIDE DEF S
  <2>. QED  BY <1>2, <1>3, PrefixInduction
<1>. QED  BY <1>4

LEMMA UpToSteps ==
    ASSUME NEW g, NEW f, NEW n \in Nat, IsUpTo(g, f, n)
    PROVE  /\ g[0] = <<>>
           /\ \A k \in 1 .. n : g[k] = IF f[k].kind = "page" THEN Append(g[k - 1], f[k].id)
                                       ELSE g[k - 1]
<1>1. \A k \in 0 .. n : g[k] = IF k = 0 THEN <<>>
                               ELSE IF f[k].kind = "page" THEN Append(g[k - 1], f[k].id)
                               ELSE g[k - 1]
  BY DEF IsUpTo
<1>2. 0 \in 0 .. n /\ \A k \in 1 .. n : k \in 0 .. n /\ k # 0
  OBVIOUS
<1>. QED  BY <1>1, <1>2

LEMMA PagesAre ==
    ASSUME NEW f \in Seq(FileObject)
    PROVE  \E g : IsUpTo(g, f, Len(f)) /\ PagesOfFile(f) = g[Len(f)]
<1>1. Len(f) \in Nat
  BY LenProperties
<1>2. PICK h : IsUpTo(h, f, Len(f))
  BY <1>1, UpToExists
<1>. DEFINE g == CHOOSE x : IsUpTo(x, f, Len(f))
<1>3. IsUpTo(g, f, Len(f))
  BY <1>2
<1>4. PagesOfFile(f) = g[Len(f)]
  BY DEF PagesOfFile, IsUpTo
<1>. QED  BY <1>3, <1>4

BeginsAs(g, f, n) == \A k \in 1 .. n : g[k] = f[k]
SameAt(h, g, n) == h[n] = g[n]

\* Two files that begin with the same objects begin with the same pages.
LEMMA UpToAgrees ==
    ASSUME NEW f, NEW n \in Nat, NEW g, IsUpTo(g, f, n), NEW e, NEW m \in Nat, NEW h,
           IsUpTo(h, e, m), n <= m, BeginsAs(e, f, n)
    PROVE  SameAt(h, g, n)
<1>1. /\ g[0] = <<>>
      /\ \A k \in 1 .. n : g[k] = IF f[k].kind = "page" THEN Append(g[k - 1], f[k].id)
                                  ELSE g[k - 1]
  BY UpToSteps
<1>2. /\ h[0] = <<>>
      /\ \A k \in 1 .. m : h[k] = IF e[k].kind = "page" THEN Append(h[k - 1], e[k].id)
                                  ELSE h[k - 1]
  BY UpToSteps
<1>. DEFINE S == {k \in Nat : g[k] = h[k]}
<1>3. 0 \in S
  BY <1>1, <1>2
<1>4. ASSUME NEW k \in 1 .. n, k - 1 \in S
      PROVE  k \in S
  <2>1. k \in 1 .. n /\ k \in 1 .. m /\ k \in Nat /\ g[k - 1] = h[k - 1] /\ f[k] = e[k]
    BY <1>4 DEF BeginsAs
  <2>. QED  BY <1>1, <1>2, <2>1
<1>5. \A k \in 0 .. n : k \in S
  <2>. HIDE DEF S
  <2>. QED  BY <1>3, <1>4, PrefixInduction
<1>. QED  BY <1>5 DEF SameAt

LEMMA UpToRest ==
    ASSUME NEW f, NEW n \in Nat, NEW g, IsUpTo(g, f, n), NEW l \in Nat, l <= n,
           \A k \in l + 1 .. n : f[k].kind # "page"
    PROVE  g[n] = g[l]
<1>1. \A k \in 1 .. n : g[k] = IF f[k].kind = "page" THEN Append(g[k - 1], f[k].id)
                               ELSE g[k - 1]
  BY UpToSteps
<1>. DEFINE S == {k \in Nat : k >= l => g[k] = g[l]}
<1>2. 0 \in S
  OBVIOUS
<1>3. ASSUME NEW k \in 1 .. n, k - 1 \in S
      PROVE  k \in S
  <2>1. CASE k <= l
    BY <2>1
  <2>2. CASE k > l
    <3>1. k \in l + 1 .. n /\ k - 1 >= l /\ k \in Nat
      BY <2>2
    <3>. QED  BY <1>1, <1>3, <3>1
  <2>. QED  BY <2>1, <2>2
<1>4. \A k \in 0 .. n : k \in S
  <2>. HIDE DEF S
  <2>. QED  BY <1>2, <1>3, PrefixInduction
<1>. QED  BY <1>4

LEMMA PagesSame ==
    ASSUME NEW f, NEW g, NEW A, FileAdds(f, g, A), \A o \in A : o.kind # "page"
    PROVE  PagesOfFile(g) = PagesOfFile(f)
<1>1. /\ f \in Seq(FileObject) /\ g \in Seq(FileObject) /\ Len(f) <= Len(g)
      /\ Len(f) \in Nat /\ Len(g) \in Nat
      /\ \A k \in 1 .. Len(f) : g[k] = f[k]
      /\ \A k \in 1 .. Len(g) : k \in 1 .. Len(f) \/ g[k] \in A
  BY LenProperties DEF FileAdds
<1>2. PICK u : IsUpTo(u, f, Len(f)) /\ PagesOfFile(f) = u[Len(f)]
  BY <1>1, PagesAre
<1>3. PICK v : IsUpTo(v, g, Len(g)) /\ PagesOfFile(g) = v[Len(g)]
  BY <1>1, PagesAre
<1>4. v[Len(f)] = u[Len(f)]
  <2>1. BeginsAs(g, f, Len(f))
    BY <1>1 DEF BeginsAs
  <2>2. SameAt(v, u, Len(f))
    BY <1>1, <1>2, <1>3, <2>1, UpToAgrees
  <2>. QED  BY <2>2 DEF SameAt
<1>5. \A k \in Len(f) + 1 .. Len(g) : g[k].kind # "page"
  BY <1>1
<1>6. v[Len(g)] = v[Len(f)]
  BY <1>1, <1>3, <1>5, UpToRest
<1>. QED  BY <1>2, <1>3, <1>4, <1>6

LEMMA PageIsLast ==
    ASSUME NEW f \in Seq(FileObject), NEW page \in FileObject, page.kind = "page"
    PROVE  PagesOfFile(Append(f, page)) = Append(PagesOfFile(f), page.id)
<1>1. PICK g : g = Append(f, page)
  OBVIOUS
<1>2. PICK n \in Nat : n = Len(f)
  BY LenProperties
<1>3. /\ g \in Seq(FileObject) /\ Len(g) = n + 1 /\ g[n + 1] = page
      /\ \A k \in 1 .. n : g[k] = f[k]
  BY <1>1, <1>2, AppendedGrows DEF AddsTo
<1>4. PICK u : IsUpTo(u, f, n) /\ PagesOfFile(f) = u[n]
  BY <1>2, PagesAre
<1>5. PICK v : IsUpTo(v, g, n + 1) /\ PagesOfFile(g) = v[n + 1]
  BY <1>3, PagesAre
<1>6. v[n] = u[n]
  <2>1. PICK m \in Nat : m = n + 1 /\ n <= m
    OBVIOUS
  <2>2. IsUpTo(v, g, m) /\ IsUpTo(u, f, n)
    BY <1>4, <1>5, <2>1
  <2>3. \A k \in 1 .. n : g[k] = f[k]
    BY <1>3
  <2>4. SameAt(v, u, n)
    <3>1. BeginsAs(g, f, n)
      BY <2>3 DEF BeginsAs
    <3>. QED  BY <2>1, <2>2, <3>1, UpToAgrees
  <2>. QED  BY <2>4 DEF SameAt
<1>7. v[n + 1] = Append(v[n], page.id)
  <2>1. n + 1 \in Nat /\ n + 1 \in 1 .. n + 1 /\ (n + 1) - 1 = n
    OBVIOUS
  <2>2. v[n + 1] = IF g[n + 1].kind = "page" THEN Append(v[(n + 1) - 1], g[n + 1].id)
                   ELSE v[(n + 1) - 1]
    BY <1>5, <2>1, UpToSteps
  <2>. QED  BY <1>3, <2>1, <2>2
<1>. QED  BY <1>1, <1>4, <1>5, <1>6, <1>7

LEMMA PagesOfNone == PagesOfFile(<<>>) = <<>>
<1>1. PICK f \in Seq(FileObject) : f = <<>> /\ Len(f) = 0
  <2>1. <<>> \in Seq(FileObject) /\ Len(<<>>) = 0
    OBVIOUS
  <2>. QED  BY <2>1
<1>2. PICK g : IsUpTo(g, f, 0) /\ PagesOfFile(f) = g[0]
  BY <1>1, PagesAre
<1>. QED  BY <1>1, <1>2, UpToSteps
-----------------------------------------------------------------------------
(***************************************************************************)
(* Sequences in a row.                                                     *)
(***************************************************************************)
\* f[i] is the first i sequences of p in a row.
IsFlat(f, p, n) == f = [i \in 1 .. n |-> IF i = 1 THEN p[i] ELSE f[i - 1] \o p[i]]

InARow(f, p, n) ==
    f[1] = p[1] /\ \A i \in 1 .. n : i + 1 \in 1 .. n => f[i + 1] = f[i] \o p[i + 1]

LEMMA FlatSteps ==
    ASSUME NEW f, NEW p, NEW n \in Nat \ {0}, IsFlat(f, p, n)
    PROVE  InARow(f, p, n)
<1>1. \A i \in 1 .. n : f[i] = IF i = 1 THEN p[i] ELSE f[i - 1] \o p[i]
  BY DEF IsFlat
<1>2. 1 \in 1 .. n
  OBVIOUS
<1>3. ASSUME NEW i \in 1 .. n, i + 1 \in 1 .. n
      PROVE  f[i + 1] = f[i] \o p[i + 1]
  <2>1. i + 1 # 1 /\ (i + 1) - 1 = i
    OBVIOUS
  <2>. QED  BY <1>1, <1>3, <2>1
<1>. QED  BY <1>1, <1>2, <1>3 DEF InARow

LEMMA FlatExists ==
    ASSUME NEW n \in Nat, NEW p
    PROVE  \E f : IsFlat(f, p, n)
<1>1. DEFINE S == {m \in 0 .. n : \E f : IsFlat(f, p, m)}
<1>2. 0 \in S
  <2>1. DEFINE f == [i \in 1 .. 0 |-> p]
  <2>2. IsFlat(f, p, 0)
    BY DEF IsFlat
  <2>. QED  BY <2>2
<1>3. ASSUME NEW m \in 1 .. n, m - 1 \in S
      PROVE  m \in S
  <2>1. PICK f : IsFlat(f, p, m - 1)
    BY <1>3
  <2>2. DEFINE g == [i \in 1 .. m |-> IF i = m THEN IF m = 1 THEN p[1] ELSE f[m - 1] \o p[m]
                                      ELSE f[i]]
  <2>3. ASSUME NEW i \in 1 .. m
        PROVE  g[i] = IF i = 1 THEN p[i] ELSE g[i - 1] \o p[i]
    <3>1. CASE i = 1
      <4>1. i = m \/ i \in 1 .. m - 1
        OBVIOUS
      <4>2. i \in 1 .. m - 1 => f[i] = p[i]
        BY <2>1, <3>1 DEF IsFlat
      <4>. QED  BY <3>1, <4>1, <4>2
    <3>2. CASE i # 1
      <4>1. i - 1 \in 1 .. m /\ i - 1 # m /\ (i = m \/ i \in 1 .. m - 1) /\ (i = m => m # 1)
        BY <3>2
      <4>2. g[i - 1] = f[i - 1]
        BY <4>1
      <4>3. i \in 1 .. m - 1 => f[i] = f[i - 1] \o p[i]
        BY <2>1, <3>2 DEF IsFlat
      <4>4. g[i] = f[i - 1] \o p[i]
        BY <4>1, <4>3
      <4>. QED  BY <3>2, <4>2, <4>4
    <3>. QED  BY <3>1, <3>2
  <2>4. g = [i \in 1 .. m |-> IF i = 1 THEN p[i] ELSE g[i - 1] \o p[i]]
    <3>1. g = [i \in 1 .. m |-> g[i]]
      OBVIOUS
    <3>. HIDE DEF g
    <3>. QED  BY <2>3, <3>1
  <2>5. IsFlat(g, p, m)
    <3>. HIDE DEF g
    <3>. QED  BY <2>4 DEF IsFlat
  <2>. QED  BY <2>5
<1>4. n \in S
  <2>. HIDE DEF S
  <2>. QED  BY <1>2, <1>3, PrefixInduction
<1>. QED  BY <1>4

LEMMA FlatIs ==
    ASSUME NEW p, NEW n \in Nat \ {0}, n = Len(p)
    PROVE  \E f : IsFlat(f, p, n) /\ FlattenSeq(p) = f[n]
<1>2. PICK f : IsFlat(f, p, n)
  BY FlatExists
<1>. DEFINE g == CHOOSE h : IsFlat(h, p, n)
<1>3. IsFlat(g, p, n)
  BY <1>2
<1>4. FlattenSeq(p) = g[n]
  BY DEF FlattenSeq, IsFlat
<1>. QED  BY <1>3, <1>4

\* What is taken apart is put together again.
LEMMA FlatSingles ==
    ASSUME NEW s \in Seq(Nat), NEW n \in Nat, n = Len(s), NEW p, p = [k \in 1 .. n |-> <<s[k]>>]
    PROVE  FlattenSeq(p) = s
<1>1. p \in Seq(Seq(Nat)) /\ Len(p) = n /\ \A k \in 1 .. n : s[k] \in Nat /\ p[k] = <<s[k]>>
  <2>1. \A k \in 1 .. n : s[k] \in Nat /\ <<s[k]>> \in Seq(Nat)
    BY ElementOfSeq
  <2>. QED  BY <2>1
<1>2. CASE n = 0
  <2>1. s = <<>> /\ p = <<>>
    BY <1>1, <1>2, EmptySeq
  <2>. QED  BY <1>1, <1>2, <2>1 DEF FlattenSeq
<1>3. CASE n # 0
  <2>1. PICK f : IsFlat(f, p, n) /\ FlattenSeq(p) = f[n]
    BY <1>1, <1>3, FlatIs
  <2>2. f[1] = p[1] /\ \A i \in 1 .. n : i + 1 \in 1 .. n => f[i + 1] = f[i] \o p[i + 1]
    <3>1. n \in Nat \ {0}
      BY <1>3
    <3>2. InARow(f, p, n)
      BY <2>1, <3>1, FlatSteps
    <3>. QED  BY <3>2 DEF InARow
  <2>. DEFINE Is(k) == f[k] \in Seq(Nat) /\ Len(f[k]) = k /\ \A i \in 1 .. k : f[k][i] = s[i]
              S == {k \in Nat : k \in 1 .. n => Is(k)}
  <2>3. 0 \in S
    OBVIOUS
  <2>4. ASSUME NEW k \in 1 .. n, k - 1 \in S
        PROVE  k \in S
    <3>. SUFFICES Is(k)
      OBVIOUS
    <3>1. CASE k = 1
      <4>1. f[1] = <<s[1]>> /\ s[1] \in Nat
        BY <1>1, <1>3, <2>2
      <4>. QED  BY <3>1, <4>1
    <3>2. CASE k # 1
      <4>1. PICK j \in 1 .. n : j + 1 = k /\ j = k - 1 /\ j \in Nat
        BY <3>2
      <4>2. Is(j)
        BY <2>4, <4>1
      <4>3. f[k] = f[j] \o <<s[k]>> /\ s[k] \in Nat
        BY <1>1, <2>2, <4>1
      <4>4. PICK t \in Seq(Nat), u \in Seq(Nat) : t = f[j] /\ u = <<s[k]>>
        <5>1. f[j] \in Seq(Nat)
          BY <4>2
        <5>2. <<s[k]>> \in Seq(Nat)
          BY <4>3
        <5>. QED  BY <5>1, <5>2
      <4>5. Len(t) = j /\ Len(u) = 1 /\ u[1] = s[k] /\ (\A i \in 1 .. j : t[i] = s[i])
        BY <4>2, <4>4
      <4>6. /\ t \o u \in Seq(Nat) /\ Len(t \o u) = Len(t) + Len(u)
            /\ \A i \in 1 .. Len(t) + Len(u) :
                  (t \o u)[i] = IF i <= Len(t) THEN t[i] ELSE u[i - Len(t)]
        BY ConcatProperties
      <4>7. Len(t \o u) = k /\ \A i \in 1 .. k : (t \o u)[i] = s[i]
        BY <4>1, <4>5, <4>6
      <4>. QED  BY <4>1, <4>3, <4>4, <4>6, <4>7
    <3>. QED  BY <3>1, <3>2
  <2>5. \A k \in 0 .. n : k \in S
    <3>. HIDE DEF S
    <3>. QED  BY <2>3, <2>4, PrefixInduction
  <2>6. Is(n)
    BY <1>3, <2>5
  <2>. QED  BY <2>1, <2>6, SeqEqual
<1>. QED  BY <1>2, <1>3

LEMMA FlatTwo ==
    ASSUME NEW p, Len(p) = 2
    PROVE  FlattenSeq(p) = p[1] \o p[2]
<1>1. PICK n \in Nat \ {0} : n = 2
  OBVIOUS
<1>2. PICK f : IsFlat(f, p, n) /\ FlattenSeq(p) = f[n]
  BY <1>1, FlatIs
<1>3. f[1] = p[1] /\ \A i \in 1 .. n : i + 1 \in 1 .. n => f[i + 1] = f[i] \o p[i + 1]
  <2>1. InARow(f, p, n)
    BY <1>2, FlatSteps
  <2>. QED  BY <2>1 DEF InARow
<1>4. f[2] = f[1] \o p[2]
  BY <1>1, <1>3
<1>. QED  BY <1>1, <1>2, <1>3, <1>4
-----------------------------------------------------------------------------
(***************************************************************************)
(* The pages below an object, as a reader finds them.                      *)
(***************************************************************************)
Up(objects, h) ==
    [n \in DOMAIN objects |->
        IF objects[n].kind = "page" THEN <<n>>
        ELSE FlattenSeq([k \in 1 .. Len(objects[n].kids) |-> h[objects[n].kids[k]]])]

IsBelow(g, objects) ==
    g = [depth \in 0 .. 3 |->
           [n \in DOMAIN objects |->
              IF objects[n].kind = "page" \/ depth = 0 THEN <<n>>
              ELSE FlattenSeq([k \in 1 .. Len(objects[n].kids) |->
                                 g[depth - 1][objects[n].kids[k]]])]]

LEMMA BelowExists ==
    ASSUME NEW objects
    PROVE  \E g : IsBelow(g, objects)
<1>1. PICK a : a = [n \in DOMAIN objects |-> <<n>>]
  OBVIOUS
<1>2. PICK b, c, d : b = Up(objects, a) /\ c = Up(objects, b) /\ d = Up(objects, c)
  OBVIOUS
<1>. DEFINE g == [depth \in 0 .. 3 |-> IF depth = 0 THEN a ELSE IF depth = 1 THEN b
                                       ELSE IF depth = 2 THEN c ELSE d]
<1>3. g[0] = a /\ g[1] = b /\ g[2] = c /\ g[3] = d /\ g = [depth \in 0 .. 3 |-> g[depth]]
  OBVIOUS
<1>. HIDE DEF g
<1>4. ASSUME NEW depth \in 0 .. 3
      PROVE  g[depth] = [n \in DOMAIN objects |->
                           IF objects[n].kind = "page" \/ depth = 0 THEN <<n>>
                           ELSE FlattenSeq([k \in 1 .. Len(objects[n].kids) |->
                                              g[depth - 1][objects[n].kids[k]]])]
  <2>1. depth = 0 \/ depth = 1 \/ depth = 2 \/ depth = 3
    OBVIOUS
  <2>2. CASE depth = 0
    BY <1>1, <1>3, <2>2
  <2>3. ASSUME depth # 0, NEW h, h = g[depth - 1], g[depth] = Up(objects, h)
        PROVE  g[depth] = [n \in DOMAIN objects |->
                             IF objects[n].kind = "page" \/ depth = 0 THEN <<n>>
                             ELSE FlattenSeq([k \in 1 .. Len(objects[n].kids) |->
                                                g[depth - 1][objects[n].kids[k]]])]
    BY <2>3 DEF Up
  <2>4. CASE depth = 1
    <3>1. depth # 0 /\ depth - 1 = 0
      BY <2>4
    <3>2. a = g[depth - 1] /\ g[depth] = Up(objects, a)
      BY <1>2, <1>3, <2>4, <3>1
    <3>. QED  BY <2>3, <3>1, <3>2
  <2>5. CASE depth = 2
    <3>1. depth # 0 /\ depth - 1 = 1
      BY <2>5
    <3>2. b = g[depth - 1] /\ g[depth] = Up(objects, b)
      BY <1>2, <1>3, <2>5, <3>1
    <3>. QED  BY <2>3, <3>1, <3>2
  <2>6. CASE depth = 3
    <3>1. depth # 0 /\ depth - 1 = 2
      BY <2>6
    <3>2. c = g[depth - 1] /\ g[depth] = Up(objects, c)
      BY <1>2, <1>3, <2>6, <3>1
    <3>. QED  BY <2>3, <3>1, <3>2
  <2>. QED  BY <2>1, <2>2, <2>4, <2>5, <2>6
<1>5. IsBelow(g, objects)
  BY <1>3, <1>4 DEF IsBelow
<1>. QED  BY <1>5

LEMMA BelowIs ==
    ASSUME NEW objects, NEW id
    PROVE  \E g : IsBelow(g, objects) /\ PagesBelow(objects, id) = g[3][id]
<1>1. PICK h : IsBelow(h, objects)
  BY BelowExists
<1>. DEFINE g == CHOOSE x : IsBelow(x, objects)
<1>2. IsBelow(g, objects)
  BY <1>1
<1>3. PagesBelow(objects, id) = g[3][id]
  BY DEF PagesBelow, IsBelow
<1>. QED  BY <1>2, <1>3

PageIs(g, depth, n) == g[depth][n] = <<n>>

LEMMA BelowPage ==
    ASSUME NEW g, NEW objects, IsBelow(g, objects), NEW depth \in 0 .. 3,
           NEW n \in DOMAIN objects, objects[n].kind = "page"
    PROVE  PageIs(g, depth, n)
<1>1. g[depth] = [i \in DOMAIN objects |->
                    IF objects[i].kind = "page" \/ depth = 0 THEN <<i>>
                    ELSE FlattenSeq([k \in 1 .. Len(objects[i].kids) |->
                                       g[depth - 1][objects[i].kids[k]]])]
  BY DEF IsBelow
<1>. QED  BY <1>1 DEF PageIs

NodeIs(g, depth, n, list) ==
    g[depth][n] = FlattenSeq([k \in 1 .. Len(list) |-> g[depth - 1][list[k]]])

LEMMA BelowNode ==
    ASSUME NEW g, NEW objects, IsBelow(g, objects), NEW depth \in 1 .. 3,
           NEW n \in DOMAIN objects, objects[n].kind # "page", NEW list, objects[n].kids = list
    PROVE  NodeIs(g, depth, n, list)
<1>1. depth \in 0 .. 3 /\ depth # 0
  OBVIOUS
<1>2. g[depth] = [i \in DOMAIN objects |->
                    IF objects[i].kind = "page" \/ depth = 0 THEN <<i>>
                    ELSE FlattenSeq([k \in 1 .. Len(objects[i].kids) |->
                                       g[depth - 1][objects[i].kids[k]]])]
  BY <1>1 DEF IsBelow
<1>. QED  BY <1>1, <1>2 DEF NodeIs

\* A node of pages, and one with two kids.
AllPages(objects, list) ==
    \A k \in 1 .. Len(list) : list[k] \in DOMAIN objects /\ objects[list[k]].kind = "page"

ListIs(g, depth, n, list) == g[depth][n] = list

LEMMA BelowTree ==
    ASSUME NEW g, NEW objects, IsBelow(g, objects), NEW depth \in 1 .. 3,
           NEW n \in DOMAIN objects, objects[n].kind # "page",
           NEW list \in Seq(Nat), objects[n].kids = list, AllPages(objects, list)
    PROVE  ListIs(g, depth, n, list)
<1>1. PICK m \in Nat : m = Len(list)
  BY LenProperties
<1>2. PICK p : p = [k \in 1 .. m |-> <<list[k]>>]
  OBVIOUS
<1>3. depth - 1 \in 0 .. 3
  OBVIOUS
<1>4. ASSUME NEW k \in 1 .. m
      PROVE  g[depth - 1][list[k]] = <<list[k]>>
  <2>1. list[k] \in DOMAIN objects /\ objects[list[k]].kind = "page"
    BY <1>1 DEF AllPages
  <2>2. PageIs(g, depth - 1, list[k])
    BY <1>3, <2>1, BelowPage
  <2>. QED  BY <2>2 DEF PageIs
<1>5. p = [k \in 1 .. Len(list) |-> g[depth - 1][list[k]]]
  BY <1>1, <1>2, <1>4
<1>6. g[depth][n] = FlattenSeq(p)
  <2>1. NodeIs(g, depth, n, list)
    BY BelowNode
  <2>. QED  BY <1>5, <2>1 DEF NodeIs
<1>. QED  BY <1>1, <1>2, <1>6, FlatSingles DEF ListIs

TwoListsIn(g, n, i, j) == g[3][n] = g[2][i] \o g[2][j]

LEMMA BelowTop ==
    ASSUME NEW g, NEW objects, IsBelow(g, objects), NEW n \in DOMAIN objects,
           objects[n].kind # "page", NEW i, NEW j, objects[n].kids = <<i, j>>
    PROVE  TwoListsIn(g, n, i, j)
<1>1. PICK list : list = <<i, j>>
  OBVIOUS
<1>2. PICK p : p = [k \in 1 .. Len(list) |-> g[2][list[k]]]
  OBVIOUS
<1>3. Len(p) = 2 /\ p[1] = g[2][i] /\ p[2] = g[2][j]
  BY <1>1, <1>2
<1>4. g[3][n] = FlattenSeq(p)
  <2>1. PICK depth \in 1 .. 3 : depth = 3 /\ depth - 1 = 2
    OBVIOUS
  <2>2. NodeIs(g, depth, n, list)
    BY <1>1, BelowNode
  <2>. QED  BY <1>2, <2>1, <2>2 DEF NodeIs
<1>. QED  BY <1>3, <1>4, FlatTwo DEF TwoListsIn
-----------------------------------------------------------------------------
(***************************************************************************)
(* The pages of an open document are those it began with and the kids of   *)
(* the tree.                                                               *)
(***************************************************************************)
PagesStand(f, first, list) ==
    /\ PagesOfFile(f) = first \o list
    /\ \A j \in 1 .. Len(list) : \E k \in 1 .. Len(f) : f[k].kind = "page" /\ f[k].id = list[j]

LEMMA OthersKeepPages ==
    ASSUME NEW f, NEW g, NEW A, FileAdds(f, g, A), \A o \in A : o.kind # "page",
           NEW first, NEW list, PagesStand(f, first, list)
    PROVE  PagesStand(g, first, list)
<1>1. PagesOfFile(g) = first \o list
  BY PagesSame DEF PagesStand
<1>2. \A k \in 1 .. Len(f) : k \in 1 .. Len(g) /\ g[k] = f[k]
  BY FileGrows DEF AddsTo
<1>. QED  BY <1>1, <1>2 DEF PagesStand

LEMMA ThreeInARow ==
    ASSUME NEW s \in Seq(Nat), NEW t \in Seq(Nat), NEW u \in Seq(Nat)
    PROVE  (s \o t) \o u = s \o (t \o u)
<1>1. ASSUME NEW S, NEW x \in Seq(S), NEW y \in Seq(S), NEW z \in Seq(S)
      PROVE  (x \o y) \o z = x \o (y \o z)
  BY ConcatAssociative
<1>. QED  BY <1>1

LEMMA OneMorePage ==
    ASSUME NEW f \in Seq(FileObject), NEW page \in FileObject, page.kind = "page",
           NEW first \in Seq(Nat), NEW list \in Seq(Nat), PagesStand(f, first, list)
    PROVE  PagesStand(Append(f, page), first, Append(list, page.id))
<1>1. PICK i \in Nat : i = page.id
  BY DEF FileObject
<1>2. PICK g, l : g = Append(f, page) /\ l = Append(list, i)
  OBVIOUS
<1>3. PagesOfFile(g) = first \o l
  <2>1. PagesOfFile(g) = Append(first \o list, i)
    BY <1>1, <1>2, PageIsLast DEF PagesStand
  <2>2. PICK one \in Seq(Nat) : one = <<i>>
    <3>1. <<i>> \in Seq(Nat)
      OBVIOUS
    <3>. QED  BY <3>1
  <2>3. Append(first \o list, i) = (first \o list) \o one
    <3>1. first \o list \in Seq(Nat)
      BY ConcatProperties
    <3>. QED  BY <2>2, <3>1, AppendIsConcat
  <2>4. l = list \o one
    BY <1>2, <2>2, AppendIsConcat
  <2>5. (first \o list) \o one = first \o (list \o one)
    BY ThreeInARow
  <2>. QED  BY <2>1, <2>3, <2>4, <2>5
<1>4. /\ \A k \in 1 .. Len(f) : k \in 1 .. Len(g) /\ g[k] = f[k]
      /\ Len(g) = Len(f) + 1 /\ g[Len(f) + 1] = page /\ Len(f) \in Nat
  BY <1>2, AppendedGrows DEF AddsTo
<1>5. PICK n \in Nat : n = Len(list)
  BY LenProperties
<1>6. Len(l) = n + 1 /\ l[n + 1] = i /\ \A j \in 1 .. n : l[j] = list[j]
  BY <1>2, <1>5, AppendProperties
<1>7. ASSUME NEW j \in 1 .. Len(l)
      PROVE  \E k \in 1 .. Len(g) : g[k].kind = "page" /\ g[k].id = l[j]
  <2>1. CASE j = n + 1
    <3>1. Len(f) + 1 \in 1 .. Len(g)
      BY <1>4
    <3>. QED  BY <1>1, <1>4, <1>6, <2>1, <3>1
  <2>2. CASE j # n + 1
    <3>1. j \in 1 .. n
      BY <1>6, <2>2
    <3>2. PICK k \in 1 .. Len(f) : f[k].kind = "page" /\ f[k].id = list[j]
      BY <1>5, <3>1 DEF PagesStand
    <3>. QED  BY <1>4, <1>6, <3>1, <3>2
  <2>. QED  BY <2>1, <2>2
<1>. QED  BY <1>1, <1>2, <1>3, <1>7 DEF PagesStand

FirstPages == IF isModified THEN << 3 >> ELSE <<>>

OriginalsRefer(f) == f[1].refs = Refs("Pages", {2}) /\ f[2].kids = << 3 >>

PagesKept ==
    /\ OriginalsAre
    /\ isModified => OriginalsRefer(file)
    /\ PagesStand(file, FirstPages, kids)
    /\ tree = NoID => kids = <<>>

\* There are no pages without a tree.
LEMMA StepTree ==
    ASSUME Steps, registry \in Seq(ObjectWriteInformation)
    PROVE  (tree' = tree /\ kids' = kids) \/ tree' # NoID
<1>1. NextID(StartPage) # NoID
  <2>1. PICK r : r = Append(registry, NewObject)
    OBVIOUS
  <2>2. Len(r) = Len(registry) + 1 /\ Len(registry) \in Nat
    BY <2>1, LenProperties
  <2>3. NextID(StartPage) = Len(r)
    BY <2>1 DEF NextID, StartPage, Allocate, AllocateNewObjectID, GetObjectsCount, W
  <2>. QED  BY <2>2, <2>3 DEF NoID
<1>2. ASSUME NEW p \in PageObjects, NEW release \in BOOLEAN,
             \/ \E n \in 0 .. Len(endTasks[p]) : WritePage(p, n, release)
             \/ WritePageFailsOnResources(p, release)
      PROVE  tree' # NoID
  <2>1. tree' = TreeAfter(StartPage)
    BY <1>2 DEF WritePage, WritePageFailsOnResources, AddPageToPageTree
  <2>. QED  BY <1>1, <2>1 DEF TreeAfter
<1>. QED  BY <1>2 DEF Steps, SetCreationDate, StartContentStream, EndContentStream, DrawImage,
              SetOpacity, AllocateForm, StartFormXObject, DrawForm, EndFormXObject,
              AttachURLLinktoCurrentPage, ShutdownAndContinue, document

LEMMA PagesStep ==
    ASSUME PagesKept, Shapes, Shapes', file \in Seq(FileObject),
           registry \in Seq(ObjectWriteInformation), forms \subseteq Nat, Steps,
           UNCHANGED client
    PROVE  PagesKept'
<1>1. Len(registry) \in Nat
  BY LenProperties
<1>2. PICK key \in Int : key = StreamKey
  BY StreamKeyIs
<1>3. /\ NoPageOrLink(key) \/ Link \/ WholePage(key) \/ PageThatFails
      /\ UNCHANGED <<isModified, documents>>
  BY <1>1, <1>2, StepFile
<1>4. AddsTo(file, file')
  BY <1>3, StepGrows
<1>5. OriginalsAre'
  BY <1>3, <1>4, OriginalsStay DEF PagesKept
<1>6. isModified' => OriginalsRefer(file')
  <2>1. CASE isModified
    <3>1. \A k \in 1 .. 3 : k \in 1 .. Len(file)
      BY <2>1 DEF PagesKept, OriginalsAre, OriginalCount
    <3>2. file'[1] = file[1] /\ file'[2] = file[2]
      BY <1>4, <3>1 DEF AddsTo
    <3>. QED  BY <2>1, <3>2 DEF PagesKept, OriginalsRefer
  <2>. QED  BY <1>3, <2>1
<1>7. PICK first \in Seq(Nat), list \in Seq(Nat) : first = FirstPages /\ list = kids
  <2>1. << 3 >> \in Seq(Nat) /\ <<>> \in Seq(Nat)
    OBVIOUS
  <2>. QED  BY <2>1 DEF FirstPages, Shapes
<1>8. PagesStand(file, first, list) /\ FirstPages' = first
  BY <1>3, <1>7 DEF PagesKept, FirstPages
<1>9. PagesStand(file', first, kids')
  <2>1. CASE NoPageOrLink(key)
    <3>1. FileAdds(file, file', Others(key)) /\ \A o \in Others(key) : o.kind # "page"
      BY <2>1 DEF NoPageOrLink, Others
    <3>2. PagesStand(file', first, list)
      BY <1>8, <3>1, OthersKeepPages
    <3>. QED  BY <1>7, <2>1, <3>2 DEF NoPageOrLink
  <2>2. CASE Link
    <3>1. PICK o \in FileObject : o.kind = "annotation" /\ file' = Append(file, o)
      BY <2>2 DEF Link
    <3>2. PICK A : A = {o}
      OBVIOUS
    <3>3. FileAdds(file, file', A) /\ \A x \in A : x.kind # "page"
      BY <3>1, <3>2, OneAdded
    <3>4. PagesStand(file', first, list)
      BY <1>8, <3>3, OthersKeepPages
    <3>. QED  BY <1>7, <2>2, <3>4 DEF Link
  <2>3. CASE WholePage(key)
    <3>1. PICK page \in FileObject :
             /\ page.id = NextID(W) /\ page.kind = "page"
             /\ FileAdds(Append(file, page), file', Others(key))
      BY <2>3 DEF WholePage
    <3>2. PICK f, l : f = Append(file, page) /\ l = Append(list, page.id)
      OBVIOUS
    <3>3. PagesStand(f, first, l)
      BY <1>8, <3>1, <3>2, OneMorePage
    <3>4. FileAdds(f, file', Others(key)) /\ \A o \in Others(key) : o.kind # "page"
      BY <3>1, <3>2 DEF Others
    <3>5. PagesStand(file', first, l)
      BY <3>3, <3>4, OthersKeepPages
    <3>6. kids' = l
      BY <1>7, <2>3, <3>1, <3>2 DEF WholePage
    <3>. QED  BY <3>5, <3>6
  <2>4. CASE PageThatFails
    <3>1. PICK page \in FileObject :
             page.id = NextID(W) /\ page.kind = "page" /\ file' = Append(file, page)
      BY <2>4 DEF PageThatFails
    <3>2. PICK l : l = Append(list, page.id)
      OBVIOUS
    <3>3. PagesStand(file', first, l)
      BY <1>8, <3>1, <3>2, OneMorePage
    <3>4. kids' = l
      BY <1>7, <2>4, <3>1, <3>2 DEF PageThatFails
    <3>. QED  BY <3>3, <3>4
  <2>. QED  BY <1>3, <2>1, <2>2, <2>3, <2>4
<1>10. tree' = NoID => kids' = <<>>
  BY StepTree DEF PagesKept
<1>. QED  BY <1>5, <1>6, <1>8, <1>9, <1>10 DEF PagesKept

LEMMA OriginalsReferTo ==
    ASSUME NEW encrypted \in BOOLEAN, NEW f, f = OriginalFile(encrypted)
    PROVE  OriginalsRefer(f)
<1>1. PICK a, b, c, d : /\ a = Object(1, "catalog", Refs("Pages", {2}), <<>>)
                        /\ b = Object(2, "pages", {}, << 3 >>)
                        /\ c = Object(3, "page", Refs("Parent", {2}), <<>>)
                        /\ d = Object(4, "encrypt", {}, <<>>)
  OBVIOUS
<1>2. a.refs = Refs("Pages", {2}) /\ b.kids = << 3 >>
  BY <1>1 DEF Object
<1>3. f = <<a, b, c>> \o (IF encrypted THEN <<d>> ELSE <<>>)
  BY <1>1 DEF OriginalFile
<1>4. f[1] = a /\ f[2] = b
  <2>1. PICK s, t : s = <<a, b, c>> /\ t = (IF encrypted THEN <<d>> ELSE <<>>)
    OBVIOUS
  <2>2. PICK S : S = {a, b, c, d}
    OBVIOUS
  <2>3. s \in Seq(S) /\ t \in Seq(S) /\ Len(s) = 3 /\ s[1] = a /\ s[2] = b
    <3>1. a \in S /\ b \in S /\ c \in S /\ d \in S
      BY <2>2
    <3>2. s = <<a, b, c>>
      BY <2>1
    <3>3. s \in Seq(S) /\ Len(s) = 3 /\ s[1] = a /\ s[2] = b
      BY <3>1, <3>2
    <3>4. <<d>> \in Seq(S) /\ <<>> \in Seq(S)
      BY <3>1
    <3>. QED  BY <2>1, <3>3, <3>4
  <2>4. PICK n \in Nat : n = Len(t)
    BY <2>3, LenProperties
  <2>5. \A i \in 1 .. 3 + n : (s \o t)[i] = IF i <= 3 THEN s[i] ELSE t[i - 3]
    <3>1. \A i \in 1 .. Len(s) + Len(t) : (s \o t)[i] = IF i <= Len(s) THEN s[i] ELSE t[i - Len(s)]
      BY <2>3, ConcatProperties
    <3>. QED  BY <2>3, <2>4, <3>1
  <2>6. 1 \in 1 .. 3 + n /\ 2 \in 1 .. 3 + n /\ 1 <= 3 /\ 2 <= 3
    OBVIOUS
  <2>. QED  BY <1>3, <2>1, <2>3, <2>5, <2>6
<1>. QED  BY <1>2, <1>4 DEF OriginalsRefer

\* A document begins with no page, or with the one of the modified file.
LEMMA PagesStart ==
    ASSUME Forgotten, StartPDF \/ ModifyPDF, UNCHANGED client
    PROVE  PagesKept'
<1>1. kids' = <<>> /\ tree' = NoID
  BY DEF StartPDF, ModifyPDF, NextDocument, Forgotten
<1>2. OriginalsAre'
  BY OriginalsBegin
<1>3. CASE StartPDF
  <2>1. file' = <<>> /\ isModified' = FALSE
    BY <1>3 DEF StartPDF
  <2>2. FirstPages' = <<>> /\ <<>> \o <<>> = <<>>
    BY <2>1 DEF FirstPages
  <2>3. PagesStand(file', FirstPages', kids')
    BY <1>1, <2>1, <2>2, PagesOfNone DEF PagesStand
  <2>. QED  BY <1>1, <1>2, <2>1, <2>3 DEF PagesKept
<1>4. CASE ModifyPDF
  <2>1. isModified' = TRUE
    BY <1>4 DEF ModifyPDF
  <2>2. PICK encrypted \in BOOLEAN : encrypted <=> documents' \in client.encrypted
    <3>1. CASE documents' \in client.encrypted
      BY <3>1
    <3>2. CASE documents' \notin client.encrypted
      BY <3>2
    <3>. QED  BY <3>1, <3>2
  <2>3. PICK f, n : f = OriginalFile(encrypted) /\ n = IF encrypted THEN 4 ELSE 3
    OBVIOUS
  <2>4. /\ f \in Seq(FileObject) /\ Len(f) = n /\ n \in Nat /\ 3 <= n /\ n <= 4
        /\ \A k \in 1 .. n : f[k].id = k /\ f[k].kind = OriginalKinds[k]
    <3>1. IsOriginal(f, n)
      BY <2>3, OriginalFileIs
    <3>2. \A k \in 1 .. n : f[k].id = k /\ f[k].kind = OriginalKinds[f[k].id]
      BY <3>1 DEF IsOriginal, Fits
    <3>. QED  BY <2>3, <3>1, <3>2 DEF IsOriginal
  <2>5. file' = f
    BY <1>4, <2>2, <2>3 DEF ModifyPDF
  <2>6. PagesOfFile(f) = << 3 >>
    <3>1. PICK u : IsUpTo(u, f, n) /\ PagesOfFile(f) = u[n]
      BY <2>4, PagesAre
    <3>2. /\ u[0] = <<>>
          /\ \A k \in 1 .. n : u[k] = IF f[k].kind = "page" THEN Append(u[k - 1], f[k].id)
                                      ELSE u[k - 1]
      BY <2>4, <3>1, UpToSteps
    <3>3. f[1].kind # "page" /\ f[2].kind # "page" /\ f[3].kind = "page" /\ f[3].id = 3
      BY <2>4, OriginalsKinds
    <3>4. n = 4 => f[4].kind # "page"
      BY <2>4, OriginalsKinds
    <3>5. u[1] = <<>>
      BY <2>4, <3>2, <3>3
    <3>6. u[2] = <<>>
      BY <2>4, <3>2, <3>3, <3>5
    <3>7. u[3] = << 3 >>
      <4>1. 3 \in 1 .. n /\ 3 - 1 = 2
        BY <2>4
      <4>2. u[3] = Append(u[3 - 1], f[3].id)
        BY <3>2, <3>3, <4>1
      <4>3. u[3] = Append(<<>>, 3)
        BY <3>3, <3>6, <4>1, <4>2
      <4>. QED  BY <4>3
    <3>8. CASE n = 4
      BY <3>1, <3>2, <3>4, <3>7, <3>8
    <3>9. CASE n = 3
      BY <3>1, <3>7, <3>9
    <3>. QED  BY <2>4, <3>8, <3>9
  <2>7. << 3 >> \o <<>> = << 3 >>
    OBVIOUS
  <2>8. PagesStand(file', FirstPages', kids')
    BY <1>1, <2>1, <2>5, <2>6, <2>7 DEF PagesStand, FirstPages
  <2>9. OriginalsRefer(file')
    BY <2>3, <2>5, OriginalsReferTo
  <2>. QED  BY <1>1, <1>2, <2>8, <2>9 DEF PagesKept
<1>. QED  BY <1>3, <1>4
-----------------------------------------------------------------------------
(***************************************************************************)
(* What a reader of the ended document finds.                              *)
(***************************************************************************)
LEMMA OneTreeBelow ==
    ASSUME NEW objects, NEW t \in DOMAIN objects, objects[t].kind # "page",
           NEW list \in Seq(Nat), objects[t].kids = list, AllPages(objects, list)
    PROVE  PagesBelow(objects, t) = list
<1>1. PICK g : IsBelow(g, objects) /\ PagesBelow(objects, t) = g[3][t]
  BY BelowIs
<1>2. PICK depth \in 1 .. 3 : depth = 3
  OBVIOUS
<1>3. ListIs(g, depth, t, list)
  BY <1>1, BelowTree
<1>. QED  BY <1>1, <1>2, <1>3 DEF ListIs

IsNode(objects, n, list) ==
    /\ n \in DOMAIN objects /\ objects[n].kind # "page" /\ objects[n].kids = list
    /\ list \in Seq(Nat)

LeadsToBoth(objects, root, first, list) == PagesBelow(objects, root) = first \o list

LEMMA TwoTreesBelow ==
    ASSUME NEW objects, NEW i, NEW j, NEW pair, pair = <<i, j>>, NEW root,
           IsNode(objects, root, pair), NEW first, IsNode(objects, i, first), AllPages(objects, first),
           NEW list, IsNode(objects, j, list), AllPages(objects, list)
    PROVE  LeadsToBoth(objects, root, first, list)
<1>1. PICK g : IsBelow(g, objects) /\ PagesBelow(objects, root) = g[3][root]
  BY BelowIs
<1>2. PICK depth \in 1 .. 3 : depth = 2
  OBVIOUS
<1>3. ListIs(g, depth, i, first)
  BY <1>1, BelowTree DEF IsNode
<1>4. ListIs(g, depth, j, list)
  BY <1>1, BelowTree DEF IsNode
<1>5. TwoListsIn(g, root, i, j)
  BY <1>1, BelowTop DEF IsNode
<1>. QED  BY <1>1, <1>2, <1>3, <1>4, <1>5 DEF ListIs, TwoListsIn, LeadsToBoth

\* The end of a document by EndPDF, when w is all that is written.
EndsWell(w) ==
    /\ Sound(w, Again) /\ Extends(W, w) /\ CanWriteXref(w.registry)
    /\ file' = w.file /\ result'.xref = Xref(w.registry)
    /\ UNCHANGED <<isModified, documents, client>>

FindsFor(w, id) ==
    id \in DOMAIN Found' /\ \E k \in 1 .. Len(w.file) : w.file[k].id = id /\ Found'[id] = w.file[k]

LEMMA FoundObject ==
    ASSUME PositionsFit, Shapes, NEW K \in Kinds, OneOwner(K), RightKind(K),
           NEW w, EndsWell(w), NEW k \in 1 .. Len(w.file), w.file[k].id <= Len(registry) + 1
    PROVE  FindsFor(w, w.file[k].id)
<1>1. PICK i : i = w.file[k].id
  OBVIOUS
<1>2. i \in 1 .. Len(w.registry) - 1 /\ Len(w.registry) \in Nat
  BY <1>1 DEF EndsWell, Sound, ObjectIsKnown
<1>3. Finds(w, i)
  BY <1>2, EndedReader DEF EndsWell
<1>4. i \in IDs'
  <2>1. IDs' = 0 .. client.objects + 8
    BY DEF EndsWell, IDs
  <2>2. client.objects \in Nat /\ Len(registry) \in Nat
    BY ClientNumbers, OpenWriter DEF Shapes
  <2>3. Len(registry) <= client.objects \/ Len(registry) <= 5
    BY DEF OneOwner, RegistryFits
  <2>4. i <= client.objects + 8
    BY <1>1, <1>2, <2>2, <2>3
  <2>. QED  BY <1>2, <2>1, <2>2, <2>4
<1>5. Found' = [n \in {n \in IDs' : ReaderKnows(n)'} |-> ReaderFinds(n)']
  BY DEF Found
<1>6. i \in DOMAIN Found' /\ Found'[i] = ReaderFinds(i)'
  BY <1>3, <1>4, <1>5 DEF Finds
<1>. QED  BY <1>1, <1>3, <1>6 DEF Finds, FindsFor

IsFound(o) == o.id \in DOMAIN Found' /\ Found'[o.id] = o

LEMMA FoundAlone ==
    ASSUME PositionsFit, Shapes, NEW K \in Kinds, OneOwner(K), RightKind(K),
           NEW w, EndsWell(w), NEW k \in 1 .. Len(w.file), w.file[k].id <= Len(registry) + 1,
           w.file[k].id \notin Again
    PROVE  IsFound(w.file[k])
<1>1. FindsFor(w, w.file[k].id)
  BY FoundObject
<1>2. PICK j \in 1 .. Len(w.file) : /\ w.file[j].id = w.file[k].id
                                    /\ Found'[w.file[k].id] = w.file[j]
  BY <1>1 DEF FindsFor
<1>3. j = k
  BY <1>2 DEF EndsWell, Sound, Once
<1>. QED  BY <1>1, <1>2, <1>3 DEF FindsFor, IsFound

\* The catalog leads to the root of the tree.
LEMMA LedToPages ==
    ASSUME UNCHANGED client, NEW root \in IDs, NEW o, IsFound(o), o.id = result'.root,
           o.refs = Refs("Pages", {root}), PagesOfFile(file') = PagesBelow(Found', root)
    PROVE  PagesInOrder'
<1>1. Found'[result'.root].refs = Refs("Pages", {root})
  BY DEF IsFound
<1>2. IDs' = IDs
  BY DEF IDs
<1>3. PICK refs : refs = Refs("Pages", {root})
  OBVIOUS
<1>4. refs = {<<"Pages", root>>}
  BY <1>3 DEF Refs
<1>5. (CHOOSE id \in IDs' : <<"Pages", id>> \in refs) = root
  <2>1. \A id \in IDs' : <<"Pages", id>> \in refs <=> id = root
    BY <1>4
  <2>2. root \in IDs'
    BY <1>2
  <2>. QED  BY <2>1, <2>2
<1>6. PagesOfFile(file') = PagesBelow(Found', CHOOSE id \in IDs' : <<"Pages", id>> \in refs)
  BY <1>5
<1>7. refs # {} /\ Found'[result'.root].refs = refs
  BY <1>1, <1>3, <1>4
<1>. QED  BY <1>6, <1>7 DEF PagesInOrder

LEMMA LedToNone ==
    ASSUME NEW o, IsFound(o), o.id = result'.root, o.refs = {}, PagesOfFile(file') = <<>>
    PROVE  PagesInOrder'
<1>1. Found'[result'.root].refs = {}
  BY DEF IsFound
<1>. QED  BY <1>1 DEF PagesInOrder

\* Every page the tree names is found.
LEMMA KidsFound ==
    ASSUME PositionsFit, PagesKept, Shapes, NEW K \in Kinds, OneOwner(K), RightKind(K),
           NEW w, EndsWell(w)
    PROVE  AllPages(Found', kids)
<1>1. /\ W.file = file /\ Len(file) \in Nat /\ Len(registry) \in Nat
      /\ Len(file) <= Len(registry) - 1
  BY OpenWriter
<1>2. ASSUME NEW j \in 1 .. Len(kids)
      PROVE  kids[j] \in DOMAIN Found' /\ Found'[kids[j]].kind = "page"
  <2>1. PICK k \in 1 .. Len(file) : file[k].kind = "page" /\ file[k].id = kids[j]
    BY <1>2 DEF PagesKept, PagesStand
  <2>2. k \in 1 .. Len(w.file) /\ w.file[k] = file[k]
    BY <1>1, <2>1 DEF EndsWell, Extends
  <2>3. file[k].id \in 1 .. Len(registry) - 1
    BY <1>1 DEF OneOwner, Sound, ObjectIsKnown, W
  <2>4. file[k].id \notin Again
    <3>1. ASSUME isModified, file[k].id = 2
          PROVE  FALSE
      <4>1. 2 \in 1 .. Len(file) /\ file[2].id = 2
        BY <1>1, <3>1, ModifiedHasObjects DEF OneOwner
      <4>2. k = 2
        BY <1>1, <3>1, <4>1 DEF OneOwner, Sound, Once
      <4>3. 2 \in 1 .. OriginalCount
        BY DEF OriginalCount
      <4>4. file[2].kind = OriginalKinds[2]
        BY <3>1, <4>3 DEF PagesKept, OriginalsAre
      <4>. QED  BY <2>1, <4>2, <4>4, OriginalsKinds
    <3>. QED  BY <3>1 DEF Again
  <2>5. w.file[k].id <= Len(registry) + 1
    BY <1>1, <2>2, <2>3
  <2>6. IsFound(w.file[k])
    BY <2>2, <2>4, <2>5, FoundAlone
  <2>. QED  BY <2>1, <2>2, <2>6 DEF IsFound
<1>. QED  BY <1>2 DEF AllPages

\* What the end of a document writes of the tree.
IsTree(o) == o \in FileObject /\ o.id = tree /\ o.kind = "pages" /\ o.kids = kids

LEMMA TreeFile ==
    ASSUME Shapes, NEW w, IsWriter(w), NEW parent \in Nat
    PROVE  \E o : /\ IsTree(o) /\ IsWriter(WritePagesTree(w, parent))
                  /\ WritePagesTree(w, parent).file = Append(w.file, o)
<1>1. PICK o : o = Object(tree, "pages", Refs("Parent", {parent} \ {NoID}), kids)
  OBVIOUS
<1>2. o \in FileObject /\ o.id = tree /\ o.kind = "pages" /\ o.kids = kids
  BY <1>1, TreeObject
<1>3. /\ IsWriter(WritePagesTree(w, parent))
      /\ WritePagesTree(w, parent).file = Append(w.file, o)
  BY <1>1, WriterFiles DEF WritePagesTree
<1>. QED  BY <1>2, <1>3 DEF IsTree

LEMMA NewTreeFile ==
    ASSUME Shapes, DocumentHasNewPages, ~isModified
    PROVE  \E o : IsTree(o) /\ PagesWritten.file = Append(file, o)
<1>1. IsWriter(W) /\ W.file = file
  BY WIsWriter
<1>2. NoID \in Nat
  BY DEF NoID
<1>3. PICK o : IsTree(o) /\ WritePagesTree(W, NoID).file = Append(W.file, o)
  BY <1>1, <1>2, TreeFile
<1>. QED  BY <1>1, <1>3 DEF PagesWritten

Combined(o, below, top) ==
    /\ IsTree(o) /\ HasParent(below, file[2], NextID(W)) /\ IsRootOf(top, NextID(W), file[2].id, tree)
    /\ PagesWritten.file = Append(Append(Append(file, o), below), top)

LEMMA CombinedFile ==
    ASSUME Shapes, file \in Seq(FileObject), NextID(W) \in Nat, 2 \in 1 .. Len(file),
           DocumentHasNewPages, isModified
    PROVE  \E o, below, top : Combined(o, below, top)
<1>1. PICK n \in Nat : n = NextID(W)
  OBVIOUS
<1>2. PICK old \in FileObject : old = file[2]
  BY ElementOfSeq
<1>3. PICK below : below = BelowRoot(old, n)
  OBVIOUS
<1>4. HasParent(below, old, n)
  BY <1>3, TreeBelow
<1>5. PICK a, b, c : a = Allocate(W) /\ b = WritePagesTree(a, n) /\ c = WriteModified(b, below)
  OBVIOUS
<1>6. IsWriter(a) /\ a.file = file
  BY <1>5, WIsWriter, WriterFiles
<1>7. PICK o : IsTree(o) /\ IsWriter(b) /\ b.file = Append(file, o)
  BY <1>5, <1>6, TreeFile
<1>8. IsWriter(c) /\ c.file = Append(b.file, below)
  BY <1>5, <1>7, WriterFiles
<1>9. PICK i \in Nat, j \in Nat : i = old.id /\ j = tree
  BY DEF Shapes, FileObject
<1>10. PICK top : top = Object(n, "pages", {}, <<i, j>>)
  OBVIOUS
<1>11. IsRootOf(top, n, i, j)
  BY <1>10, TwoKids
<1>12. PICK d : d = WriteAt(c, top)
  OBVIOUS
<1>13. d.file = Append(c.file, top)
  BY <1>8, <1>12, WriterFiles
<1>14. PagesWritten = d
  <2>1. below = [old EXCEPT !.refs = @ \cup Refs("Parent", {n})]
    BY <1>3 DEF BelowRoot
  <2>. QED  BY <1>1, <1>2, <1>5, <1>9, <1>10, <1>12, <2>1
            DEF PagesWritten, WriteCombinedPageTree, OriginalTreeRoot
<1>15. PagesWritten.file = Append(Append(Append(file, o), below), top)
  BY <1>7, <1>8, <1>13, <1>14
<1>. QED  BY <1>1, <1>2, <1>4, <1>7, <1>9, <1>11, <1>15 DEF Combined

\* And of the catalog.
IsCatalog(o, other) ==
    /\ o.id = RootAfter(other) /\ o.refs = Refs("Pages", {FinalPageRoot} \ {NoID})

LEMMA CatalogFile ==
    ASSUME IsWriter(PagesWritten), PagesWritten.file \in Seq(FileObject),
           NextID(PagesWritten) \in Nat, FinalPageRoot \in Nat, NEW other
    PROVE  /\ FileAdds(PagesWritten.file, CatalogWritten(other).file, Trailers)
           /\ NeedsCatalog(other) =>
                 \E k \in 1 .. Len(CatalogWritten(other).file) :
                    IsCatalog(CatalogWritten(other).file[k], other)
<1>0. PICK w : w = PagesWritten
  OBVIOUS
<1>1. PICK n \in Nat : w = PagesWritten /\ n = NextID(w)
  BY <1>0
<1>2. PICK c : c = CatalogWritten(other)
  OBVIOUS
<1>3. IsWriter(w) /\ w.file \in Seq(FileObject)
  BY <1>1
<1>4. CASE ~NeedsCatalog(other)
  <2>1. c = w
    BY <1>1, <1>2, <1>4 DEF CatalogWritten
  <2>. QED  BY <1>1, <1>2, <1>3, <1>4, <2>1, NothingAdded
<1>5. CASE NeedsCatalog(other)
  <2>1. PICK ids : ids = {FinalPageRoot} \ {NoID} /\ ids \subseteq Nat
    OBVIOUS
  <2>2. PICK refs \in SUBSET (RoleNames \X Nat) : refs = Refs("Pages", ids)
    BY <2>1, RefsAre, Names
  <2>3. \A ref \in refs : ref[1] # "Annots"
    BY <2>2, AnnotRefs
  <2>4. PICK kind \in KindNames : kind = "catalog"
    BY Names
  <2>5. PICK list \in Seq(Nat) : list = <<>>
    <3>1. <<>> \in Seq(Nat)
      OBVIOUS
    <3>. QED  BY <3>1
  <2>6. PICK o : o = Object(n, kind, refs, list)
    OBVIOUS
  <2>7. o \in FileObject /\ o.id = n /\ o.kind = kind /\ o.refs = refs
    BY <2>6, PlainObject
  <2>8. o \in Trailers
    BY <2>3, <2>4, <2>7 DEF Trailers, Enders
  <2>9. c = WriteAt(Allocate(w), o)
    BY <1>1, <1>2, <1>5, <2>1, <2>2, <2>4, <2>5, <2>6 DEF CatalogWritten, WriteNew
  <2>10. c.file = Append(w.file, o)
    BY <1>3, <2>9, WriterFiles
  <2>11. FileAdds(w.file, c.file, Trailers)
    BY <1>3, <2>7, <2>8, <2>10, OneAdded
  <2>12. Len(w.file) + 1 \in 1 .. Len(c.file) /\ c.file[Len(w.file) + 1] = o
    <3>1. /\ Len(w.file) \in Nat /\ Len(c.file) = Len(w.file) + 1
          /\ c.file[Len(w.file) + 1] = o
      BY <1>3, <2>7, <2>10, AppendedGrows, LenProperties
    <3>. QED  BY <3>1
  <2>13. IsCatalog(o, other)
    BY <1>1, <1>5, <2>1, <2>2, <2>7 DEF IsCatalog, RootAfter
  <2>. QED  BY <1>1, <1>2, <2>11, <2>12, <2>13
<1>. QED  BY <1>4, <1>5

\* All of it, in the order it is written.
CatalogIn(w, other) ==
    NeedsCatalog(other) => \E k \in 1 .. Len(w.file) : IsCatalog(w.file[k], other)

LEMMA WhatEnds ==
    ASSUME PositionsFit, Shapes, NEW K \in Kinds, OneOwner(K), ImagesOnce => RightKind(K),
           TreeOfOriginal, NEW other \in BOOLEAN, NEW w,
           w = EncryptionWritten(InfoWritten(CatalogWritten(other)))
    PROVE  /\ FileAdds(PagesWritten.file, w.file, Trailers)
           /\ NextID(PagesWritten) \in Len(registry) .. Len(registry) + 1
           /\ FinalPageRoot \in Nat
           /\ CatalogIn(w, other) /\ FileAdds(file, w.file, Enders)
<1>1. PICK m, L, U : TreeStands(W, K, m, L) /\ Ends(PagesWritten, L, m, Len(file) + 3, U)
  BY TreeEnds
<1>2. /\ NextID(PagesWritten) = m /\ m \in Nat /\ FinalPageRoot \in Nat
      /\ m \in Len(registry) .. Len(registry) + 1
  <2>1. /\ NextID(PagesWritten) = m /\ m \in Nat /\ FinalPageRoot \in Nat
        /\ Len(registry) <= m /\ m <= Len(registry) + 1
    BY <1>1, EndAllocates, Names DEF TreeStands
  <2>2. Len(registry) \in Nat
    BY OpenWriter
  <2>. QED  BY <2>1, <2>2
<1>3. IsWriter(PagesWritten) /\ FileAdds(file, PagesWritten.file, Enders)
  <2>1. NextID(W) \in Nat /\ file \in Seq(FileObject)
    BY OpenWriter
  <2>. QED  BY <2>1, PagesAdded
<1>4. PICK c : c = CatalogWritten(other)
  OBVIOUS
<1>5. /\ FileAdds(PagesWritten.file, c.file, Trailers)
      /\ NeedsCatalog(other) => \E k \in 1 .. Len(c.file) : IsCatalog(c.file[k], other)
  <2>1. PagesWritten.file \in Seq(FileObject)
    BY <1>3 DEF FileAdds
  <2>. QED  BY <1>2, <1>3, <1>4, <2>1, CatalogFile
<1>6. FileAdds(c.file, w.file, Trailers) /\ FileAdds(file, w.file, Enders)
  BY <1>4, EndingFile
<1>7. FileAdds(PagesWritten.file, w.file, Trailers)
  BY <1>5, <1>6, MoreAdded
<1>8. \A k \in 1 .. Len(c.file) : k \in 1 .. Len(w.file) /\ w.file[k] = c.file[k]
  BY <1>6, FileGrows DEF AddsTo
<1>9. CatalogIn(w, other)
  BY <1>5, <1>8 DEF CatalogIn
<1>. QED  BY <1>2, <1>6, <1>7, <1>9

IsIn(o, f) == \E k \in 1 .. Len(f) : f[k] = o

HasThreeMore(f, g, a, b, c) ==
    /\ IsIn(a, g) /\ IsIn(b, g) /\ IsIn(c, g)
    /\ \A k \in 1 .. Len(g) : IsIn(g[k], f) \/ g[k] \in {a, b, c}

LEMMA ThreeMore ==
    ASSUME NEW f \in Seq(FileObject), NEW a \in FileObject, NEW b \in FileObject,
           NEW c \in FileObject, NEW g, g = Append(Append(Append(f, a), b), c)
    PROVE  HasThreeMore(f, g, a, b, c)
<1>1. PICK e, h : e = Append(f, a) /\ h = Append(e, b)
  OBVIOUS
<1>2. AddsOne(f, e, a) /\ e \in Seq(FileObject)
  BY <1>1, OneMoreObject, AppendedGrows
<1>3. AddsOne(e, h, b) /\ h \in Seq(FileObject)
  BY <1>1, <1>2, OneMoreObject, AppendedGrows
<1>4. AddsOne(h, g, c)
  BY <1>1, <1>3, OneMoreObject
<1>5. IsIn(a, e) /\ IsIn(b, h) /\ IsIn(c, g)
  BY <1>2, <1>3, <1>4 DEF AddsOne, IsIn
<1>6. /\ \A o : IsIn(o, e) => IsIn(o, h)
      /\ \A o : IsIn(o, h) => IsIn(o, g)
  BY <1>3, <1>4 DEF AddsOne, IsIn
<1>7. ASSUME NEW k \in 1 .. Len(g)
      PROVE  IsIn(g[k], f) \/ g[k] \in {a, b, c}
  <2>1. g[k] = c \/ IsIn(g[k], h)
    BY <1>4 DEF AddsOne, IsIn
  <2>2. \A o : IsIn(o, h) => o = b \/ IsIn(o, e)
    BY <1>3 DEF AddsOne, IsIn
  <2>3. \A o : IsIn(o, e) => o = a \/ IsIn(o, f)
    BY <1>2 DEF AddsOne, IsIn
  <2>. QED  BY <2>1, <2>2, <2>3
<1>. QED  BY <1>5, <1>6, <1>7 DEF HasThreeMore

\* What is written stays, and what has an ID of its own is found.
LEMMA InGrows ==
    ASSUME NEW f, NEW g, NEW A, FileAdds(f, g, A), NEW o, IsIn(o, f)
    PROVE  IsIn(o, g)
BY FileGrows DEF AddsTo, IsIn

LEMMA InFound ==
    ASSUME PositionsFit, Shapes, NEW K \in Kinds, OneOwner(K), RightKind(K),
           NEW w, EndsWell(w), NEW o, IsIn(o, w.file), o.id <= Len(registry) + 1,
           o.id \notin Again
    PROVE  IsFound(o)
<1>1. PICK k \in 1 .. Len(w.file) : w.file[k] = o
  BY DEF IsIn
<1>. QED  BY <1>1, FoundAlone

\* The file's own first objects.
LEMMA FirstObjects ==
    ASSUME PositionsFit, PagesKept, Shapes, NEW K \in Kinds, OneOwner(K), isModified
    PROVE  /\ Len(registry) \in Nat /\ 3 <= Len(registry) /\ NextID(W) = Len(registry)
           /\ 1 \in 1 .. Len(file) /\ 2 \in 1 .. Len(file) /\ 3 \in 1 .. Len(file)
           /\ file[1].id = 1 /\ file[2].id = 2 /\ file[3].id = 3
           /\ file[2].kind = "pages" /\ file[3].kind = "page"
           /\ file[1].refs = Refs("Pages", {2}) /\ file[2].kids = << 3 >>
<1>1. /\ Len(file) \in Nat /\ Len(registry) \in Nat /\ NextID(W) = Len(registry)
      /\ Len(file) <= Len(registry) - 1
  BY OpenWriter
<1>2. OriginalsStart
  BY DEF OneOwner
<1>3. 3 <= Len(file) /\ 3 <= Len(registry) /\ OriginalCount \in Nat /\ 3 <= OriginalCount
  BY <1>1, <1>2, ModifiedHasObjects
<1>4. /\ 1 \in 1 .. OriginalCount /\ 2 \in 1 .. OriginalCount /\ 3 \in 1 .. OriginalCount
      /\ 1 \in 1 .. Len(file) /\ 2 \in 1 .. Len(file) /\ 3 \in 1 .. Len(file)
  BY <1>1, <1>3
<1>5. file[1].id = 1 /\ file[2].id = 2 /\ file[3].id = 3
  BY <1>2, <1>4 DEF OriginalsStart
<1>6. file[2].kind = "pages" /\ file[3].kind = "page"
  BY <1>4, OriginalsKinds DEF PagesKept, OriginalsAre
<1>. QED  BY <1>1, <1>3, <1>4, <1>5, <1>6 DEF PagesKept, OriginalsRefer

\* The reader is led to a catalog, which names the root of the tree.
LEMMA CatalogFound ==
    ASSUME PositionsFit, PagesKept, Shapes, NEW K \in Kinds, OneOwner(K), RightKind(K),
           NEW other \in BOOLEAN, NEW w, EndsWell(w), CatalogIn(w, other),
           NextID(PagesWritten) \in Len(registry) .. Len(registry) + 1
    PROVE  \E o : /\ IsFound(o) /\ o.id = RootAfter(other)
                  /\ o.refs = Refs("Pages", {FinalPageRoot} \ {NoID})
<1>1. Len(registry) \in Nat
  BY OpenWriter
<1>2. CASE NeedsCatalog(other)
  <2>1. PICK o : /\ IsIn(o, w.file) /\ o.id = RootAfter(other)
                 /\ o.refs = Refs("Pages", {FinalPageRoot} \ {NoID})
    BY <1>2 DEF CatalogIn, IsCatalog, IsIn
  <2>2. o.id \in Len(registry) .. Len(registry) + 1
    BY <1>2, <2>1 DEF RootAfter
  <2>3. o.id \notin Again
    <3>1. isModified => 3 <= Len(registry)
      BY FirstObjects
    <3>. QED  BY <1>1, <2>2, <3>1 DEF Again
  <2>4. IsFound(o)
    BY <1>1, <2>1, <2>2, <2>3, InFound
  <2>. QED  BY <2>1, <2>4
<1>3. CASE ~NeedsCatalog(other)
  <2>1. isModified
    BY <1>3 DEF NeedsCatalog, RightKind, Shapes
  <2>2. ~DocumentHasNewPages /\ RootAfter(other) = 1
    BY <1>3, <2>1 DEF NeedsCatalog, RootAfter, RightKind
  <2>3. /\ 3 <= Len(registry) /\ 1 \in 1 .. Len(file)
        /\ file[1].id = 1 /\ file[2].id = 2 /\ file[1].refs = Refs("Pages", {2})
    BY <2>1, FirstObjects
  <2>4. FinalPageRoot = 2 /\ {FinalPageRoot} \ {NoID} = {2}
    BY <2>1, <2>2, <2>3 DEF FinalPageRoot, OriginalTreeRoot, NoID
  <2>5. PICK o : o = file[1]
    OBVIOUS
  <2>6. IsIn(o, w.file)
    <3>1. W.file = file /\ Len(file) \in Nat
      BY OpenWriter
    <3>. QED  BY <2>3, <2>5, <3>1 DEF EndsWell, Extends, IsIn
  <2>7. o.id \notin Again /\ o.id <= Len(registry) + 1
    BY <1>1, <2>1, <2>3, <2>5 DEF Again
  <2>8. IsFound(o)
    BY <2>6, <2>7, InFound
  <2>. QED  BY <2>2, <2>3, <2>4, <2>5, <2>8
<1>. QED  BY <1>2, <1>3

\* The pages of the file are those of the document.
LEMMA PagesEnded ==
    ASSUME PagesKept, NEW w, FileAdds(file, w.file, Enders), file' = w.file
    PROVE  PagesOfFile(file') = FirstPages \o kids
<1>1. \A o \in Enders : o.kind # "page"
  BY DEF Enders
<1>2. PagesOfFile(w.file) = PagesOfFile(file)
  BY <1>1, PagesSame
<1>. QED  BY <1>2 DEF PagesKept, PagesStand

LEMMA TreeIsNew ==
    ASSUME PositionsFit, Shapes, NEW K \in Kinds, OneOwner(K), DocumentHasNewPages
    PROVE  /\ tree \in 1 .. Len(registry) - 1 /\ Len(registry) \in Nat
           /\ \A k \in 1 .. Len(file) : file[k].id # tree
<1>1. W.file = file /\ Len(registry) \in Nat /\ W.registry = registry
  BY OpenWriter DEF W
<1>2. tree \in Unwritten(W)
  BY DEF OneOwner, TreeOwned, DocumentHasNewPages
<1>3. tree \in 1 .. Len(registry) - 1 /\ ~registry[tree + 1].written
  BY <1>1, <1>2 DEF Unwritten
<1>4. \A k \in 1 .. Len(file) : registry[file[k].id + 1].written
  BY <1>1 DEF OneOwner, Sound, ObjectIsKnown
<1>. QED  BY <1>1, <1>3, <1>4

\* Objects with the same ID are of the same kind.
KindsByID(f) ==
    \A j, k \in 1 .. Len(f) : f[j].id = f[k].id => f[j].kind = f[k].kind

LEMMA KindsAgree ==
    ASSUME ImagesOnce, NEW w, NEW root, NEW n, EndsRooted(w, root, n)
    PROVE  KindsByID(w.file)
<1>1. PICK m, L, U : Ends(w, L, m, n, U)
  BY DEF EndsRooted
<1>2. \A k \in 1 .. Len(w.file) : w.file[k].kind = L[w.file[k].id]
  BY <1>1 DEF Ends, Objects, Fits
<1>. QED  BY <1>2 DEF KindsByID

\* Whatever is written of the root of a modified file's tree has the kids it had.
LEMMA RootsWritten ==
    ASSUME PositionsFit, PagesKept, Shapes, NEW K \in Kinds, OneOwner(K), isModified,
           NEW k \in 1 .. Len(PagesWritten.file), PagesWritten.file[k].id = 2
    PROVE  PagesWritten.file[k].kids = << 3 >>
<1>1. /\ 3 <= Len(registry) /\ NextID(W) = Len(registry) /\ Len(registry) \in Nat
      /\ 2 \in 1 .. Len(file) /\ file[2].id = 2 /\ file[2].kids = << 3 >>
  BY FirstObjects
<1>2. W.file = file /\ file \in Seq(FileObject)
  BY OpenWriter
<1>3. PICK x : x = PagesWritten.file[k]
  OBVIOUS
<1>4. CASE IsIn(x, file)
  <2>1. PICK j \in 1 .. Len(file) : file[j] = x
    BY <1>4 DEF IsIn
  <2>2. Once(file, {})
    BY <1>2 DEF OneOwner, Sound
  <2>3. file[j].id = file[2].id
    BY <1>1, <1>3, <2>1
  <2>4. j = 2
    BY <1>1, <2>2, <2>3 DEF Once
  <2>. QED  BY <1>1, <1>3, <2>1, <2>4
<1>5. CASE ~DocumentHasNewPages
  <2>1. PagesWritten.file = file
    BY <1>2, <1>5 DEF PagesWritten
  <2>. QED  BY <1>3, <1>4, <2>1 DEF IsIn
<1>6. CASE DocumentHasNewPages
  <2>1. NextID(W) \in Nat
    BY <1>1
  <2>2. PICK o, below, top : Combined(o, below, top)
    BY <1>1, <1>2, <1>6, <2>1, CombinedFile
  <2>3. /\ o \in FileObject /\ o.id = tree
        /\ below \in FileObject /\ below.kids = file[2].kids
        /\ top \in FileObject /\ top.id = NextID(W)
        /\ PagesWritten.file = Append(Append(Append(file, o), below), top)
    BY <2>2 DEF Combined, IsTree, HasParent, IsRootOf
  <2>4. IsIn(x, file) \/ x \in {o, below, top}
    <3>1. PICK g : g = PagesWritten.file
      OBVIOUS
    <3>2. HasThreeMore(file, g, o, below, top)
      BY <1>2, <2>3, <3>1, ThreeMore
    <3>. QED  BY <1>3, <3>1, <3>2 DEF HasThreeMore
  <2>5. o.id # 2
    BY <1>1, <1>6, <2>3, TreeIsNew
  <2>6. top.id # 2
    BY <1>1, <2>3
  <2>. QED  BY <1>1, <1>3, <1>4, <2>3, <2>4, <2>5, <2>6
<1>. QED  BY <1>5, <1>6

\* A reader of a modified file finds the tree it had, with its page.
LEMMA OldTreeFound ==
    ASSUME PositionsFit, PagesKept, Shapes, NEW K \in Kinds, OneOwner(K), RightKind(K),
           NEW w, EndsWell(w), KindsByID(w.file), FileAdds(PagesWritten.file, w.file, Trailers),
           isModified
    PROVE  IsNode(Found', 2, << 3 >>) /\ AllPages(Found', << 3 >>)
<1>1. /\ 3 <= Len(registry) /\ Len(registry) \in Nat
      /\ 2 \in 1 .. Len(file) /\ file[2].id = 2 /\ file[2].kind = "pages"
      /\ 3 \in 1 .. Len(file) /\ file[3].id = 3 /\ file[3].kind = "page"
  BY FirstObjects
<1>2. \A k \in 1 .. Len(file) : k \in 1 .. Len(w.file) /\ w.file[k] = file[k]
  <2>1. W.file = file /\ Len(file) \in Nat
    BY OpenWriter
  <2>. QED  BY <2>1 DEF EndsWell, Extends
<1>3. AllPages(Found', << 3 >>)
  <2>1. IsIn(file[3], w.file)
    BY <1>1, <1>2 DEF IsIn
  <2>2. file[3].id <= Len(registry) + 1 /\ file[3].id \notin Again
    BY <1>1 DEF Again
  <2>3. IsFound(file[3])
    BY <2>1, <2>2, InFound
  <2>4. 3 \in DOMAIN Found' /\ Found'[3].kind = "page"
    BY <1>1, <2>3 DEF IsFound
  <2>5. PICK list : list = << 3 >>
    OBVIOUS
  <2>6. \A j \in 1 .. Len(list) : list[j] = 3
    BY <2>5
  <2>. QED  BY <2>4, <2>5, <2>6 DEF AllPages
<1>4. FindsFor(w, 2)
  <2>1. 2 \in 1 .. Len(w.file) /\ w.file[2].id = 2
    BY <1>1, <1>2
  <2>2. w.file[2].id <= Len(registry) + 1
    BY <1>1, <2>1
  <2>3. FindsFor(w, w.file[2].id)
    BY <2>1, <2>2, FoundObject
  <2>. QED  BY <2>1, <2>3
<1>5. PICK k \in 1 .. Len(w.file) : w.file[k].id = 2 /\ Found'[2] = w.file[k]
  BY <1>4 DEF FindsFor
<1>6. w.file[k].kind = "pages"
  <2>1. 2 \in 1 .. Len(w.file) /\ w.file[2].id = 2 /\ w.file[2].kind = "pages"
    BY <1>1, <1>2
  <2>. QED  BY <1>5, <2>1 DEF KindsByID
<1>7. w.file[k].kids = << 3 >>
  <2>1. w.file[k] \notin Trailers
    BY <1>6 DEF Trailers
  <2>2. k \in 1 .. Len(PagesWritten.file) /\ w.file[k] = PagesWritten.file[k]
    BY <1>5, <2>1 DEF FileAdds
  <2>. QED  BY <1>5, <2>2, RootsWritten
<1>8. << 3 >> \in Seq(Nat)
  OBVIOUS
<1>. QED  BY <1>3, <1>4, <1>5, <1>6, <1>7, <1>8 DEF IsNode, FindsFor

\* The tree of the new pages.
LEMMA NewTreeFound ==
    ASSUME PositionsFit, PagesKept, Shapes, NEW K \in Kinds, OneOwner(K), RightKind(K),
           NEW w, EndsWell(w), NEW o, IsTree(o), IsIn(o, w.file), DocumentHasNewPages
    PROVE  IsNode(Found', tree, kids) /\ AllPages(Found', kids)
<1>1. o.id = tree /\ o.kind = "pages" /\ o.kids = kids
  BY DEF IsTree
<1>2. AllPages(Found', kids)
  BY KidsFound
<1>3. /\ tree \in 1 .. Len(registry) - 1 /\ Len(registry) \in Nat
      /\ \A k \in 1 .. Len(file) : file[k].id # tree
  BY TreeIsNew
<1>4. tree \notin Again
  <2>1. isModified => 2 \in 1 .. Len(file) /\ file[2].id = 2
    BY FirstObjects
  <2>. QED  BY <1>3, <2>1 DEF Again
<1>5. o.id <= Len(registry) + 1
  BY <1>1, <1>3
<1>6. IsFound(o)
  BY <1>1, <1>4, <1>5, InFound
<1>. QED  BY <1>1, <1>2, <1>6 DEF IsFound, IsNode, Shapes

\* The root of the pages, for every document there is.
LEMMA PagesLead ==
    ASSUME PositionsFit, PagesKept, Shapes, NEW K \in Kinds, OneOwner(K), RightKind(K),
           NEW w, EndsWell(w), KindsByID(w.file), FileAdds(PagesWritten.file, w.file, Trailers),
           FinalPageRoot # NoID
    PROVE  PagesBelow(Found', FinalPageRoot) = FirstPages \o kids
<1>1. file \in Seq(FileObject) /\ W.file = file /\ kids \in Seq(Nat)
  BY OpenWriter DEF Shapes
<1>2. CASE ~isModified
  <2>1. FinalPageRoot = tree /\ DocumentHasNewPages
    BY <1>2 DEF FinalPageRoot, DocumentHasNewPages
  <2>2. PICK o : IsTree(o) /\ PagesWritten.file = Append(file, o)
    BY <1>2, <2>1, NewTreeFile
  <2>3. IsIn(o, PagesWritten.file)
    <3>1. AddsOne(file, Append(file, o), o)
      BY <1>1, <2>2, OneMoreObject DEF IsTree
    <3>. QED  BY <2>2, <3>1 DEF AddsOne, IsIn
  <2>4. IsIn(o, w.file)
    BY <2>3, InGrows
  <2>5. IsNode(Found', tree, kids) /\ AllPages(Found', kids)
    BY <2>1, <2>2, <2>4, NewTreeFound
  <2>6. PagesBelow(Found', tree) = kids
    BY <2>5, OneTreeBelow DEF IsNode
  <2>7. FirstPages \o kids = kids
    BY <1>1, <1>2 DEF FirstPages
  <2>. QED  BY <2>1, <2>6, <2>7
<1>3. CASE isModified /\ ~DocumentHasNewPages
  <2>1. FinalPageRoot = 2
    BY <1>3, FirstObjects DEF FinalPageRoot, OriginalTreeRoot
  <2>2. IsNode(Found', 2, << 3 >>) /\ AllPages(Found', << 3 >>)
    BY <1>3, OldTreeFound
  <2>3. PagesBelow(Found', 2) = << 3 >>
    BY <2>2, OneTreeBelow DEF IsNode
  <2>4. FirstPages = << 3 >> /\ kids = <<>>
    BY <1>3 DEF FirstPages, PagesKept, DocumentHasNewPages
  <2>5. << 3 >> \o <<>> = << 3 >>
    OBVIOUS
  <2>. QED  BY <2>1, <2>3, <2>4, <2>5
<1>4. CASE isModified /\ DocumentHasNewPages
  <2>1. /\ 3 <= Len(registry) /\ NextID(W) = Len(registry) /\ Len(registry) \in Nat
        /\ 2 \in 1 .. Len(file) /\ file[2].id = 2
    BY <1>4, FirstObjects
  <2>2. NextID(W) \in Nat /\ FinalPageRoot = Len(registry)
    BY <1>4, <2>1 DEF FinalPageRoot
  <2>3. PICK o, below, top : Combined(o, below, top)
    BY <1>1, <1>4, <2>1, <2>2, CombinedFile
  <2>4. /\ IsTree(o) /\ o \in FileObject /\ below \in FileObject /\ top \in FileObject
        /\ top.id = NextID(W) /\ top.kind = "pages" /\ top.kids = <<file[2].id, tree>>
        /\ PagesWritten.file = Append(Append(Append(file, o), below), top)
    BY <2>3 DEF Combined, IsTree, HasParent, IsRootOf
  <2>5. IsIn(o, PagesWritten.file) /\ IsIn(top, PagesWritten.file)
    <3>1. PICK g : g = PagesWritten.file
      OBVIOUS
    <3>2. HasThreeMore(file, g, o, below, top)
      BY <1>1, <2>4, <3>1, ThreeMore
    <3>. QED  BY <3>1, <3>2 DEF HasThreeMore
  <2>6. IsIn(o, w.file) /\ IsIn(top, w.file)
    BY <2>5, InGrows
  <2>7. IsNode(Found', tree, kids) /\ AllPages(Found', kids)
    BY <1>4, <2>4, <2>6, NewTreeFound
  <2>8. IsNode(Found', 2, << 3 >>) /\ AllPages(Found', << 3 >>)
    BY <1>4, OldTreeFound
  <2>9. IsFound(top)
    <3>1. top.id <= Len(registry) + 1 /\ top.id \notin Again
      BY <2>1, <2>4 DEF Again
    <3>. QED  BY <2>6, <3>1, InFound
  <2>10. PICK root : root = Len(registry)
    OBVIOUS
  <2>11. PICK i \in Nat, j \in Nat : i = 2 /\ j = tree
    BY DEF Shapes
  <2>12. IsNode(Found', root, <<i, j>>)
    <3>1. top.id = root /\ top.kind # "page" /\ top.kids = <<i, j>>
      BY <2>1, <2>4, <2>10, <2>11
    <3>2. PICK list : list = <<i, j>>
      OBVIOUS
    <3>3. list \in Seq(Nat)
      BY <3>2
    <3>. QED  BY <2>9, <3>1, <3>2, <3>3 DEF IsFound, IsNode
  <2>13. PagesBelow(Found', root) = << 3 >> \o kids
    <3>1. PICK objects, first, last : objects = Found' /\ first = << 3 >> /\ last = kids
      OBVIOUS
    <3>2. IsNode(objects, i, first) /\ AllPages(objects, first)
      BY <2>8, <2>11, <3>1
    <3>3. IsNode(objects, j, last) /\ AllPages(objects, last)
      BY <2>7, <2>11, <3>1
    <3>4. PICK pair : pair = <<i, j>> /\ IsNode(objects, root, pair)
      BY <2>12, <3>1
    <3>5. LeadsToBoth(objects, root, first, last)
      BY <3>2, <3>3, <3>4, TwoTreesBelow
    <3>. QED  BY <3>1, <3>5 DEF LeadsToBoth
  <2>. QED  BY <1>4, <2>2, <2>10, <2>13 DEF FirstPages
<1>. QED  BY <1>2, <1>3, <1>4

LEMMA PagesFound ==
    ASSUME PositionsFit, ImagesOnce, PagesKept, Shapes, NEW K \in Kinds, OneOwner(K),
           RightKind(K), NEW other \in BOOLEAN, NEW w,
           w = EncryptionWritten(InfoWritten(CatalogWritten(other))), EndsWell(w),
           result'.root = RootAfter(other)
    PROVE  PagesInOrder'
<1>1. TreeOfOriginal
  <2>1. file \in Seq(FileObject)
    BY OpenWriter
  <2>. QED  BY <2>1, TreeWas DEF PagesKept
<1>2. /\ FileAdds(PagesWritten.file, w.file, Trailers)
      /\ NextID(PagesWritten) \in Len(registry) .. Len(registry) + 1
      /\ FinalPageRoot \in Nat
      /\ CatalogIn(w, other) /\ FileAdds(file, w.file, Enders)
  BY <1>1, WhatEnds
<1>3. KindsByID(w.file)
  <2>1. PICK n : EndsRooted(w, RootAfter(other), n)
    BY EndingStands
  <2>. QED  BY <2>1, KindsAgree
<1>4. PICK o : /\ IsFound(o) /\ o.id = RootAfter(other)
               /\ o.refs = Refs("Pages", {FinalPageRoot} \ {NoID})
  BY <1>2, CatalogFound
<1>5. PagesOfFile(file') = FirstPages \o kids
  BY <1>2, PagesEnded DEF EndsWell
<1>6. CASE FinalPageRoot = NoID
  <2>1. {FinalPageRoot} \ {NoID} = {}
    BY <1>6
  <2>2. o.refs = {}
    BY <1>4, <2>1 DEF Refs
  <2>3. ~isModified /\ tree = NoID
    <3>1. ASSUME isModified
          PROVE  FALSE
      <4>1. 3 <= Len(registry) /\ NextID(W) = Len(registry) /\ file[2].id = 2
        BY <3>1, FirstObjects
      <4>. QED  BY <1>6, <3>1, <4>1 DEF FinalPageRoot, OriginalTreeRoot, NoID
    <3>. QED  BY <1>6, <3>1 DEF FinalPageRoot
  <2>4. FirstPages = <<>> /\ kids = <<>>
    BY <2>3 DEF FirstPages, PagesKept
  <2>5. PagesOfFile(file') = <<>>
    <3>1. <<>> \o <<>> = <<>>
      OBVIOUS
    <3>. QED  BY <1>5, <2>4, <3>1
  <2>. QED  BY <1>4, <2>2, <2>5, LedToNone
<1>7. CASE FinalPageRoot # NoID
  <2>1. PICK root : root = FinalPageRoot
    OBVIOUS
  <2>2. {FinalPageRoot} \ {NoID} = {root}
    BY <1>7, <2>1
  <2>3. root \in IDs
    <3>1. /\ client.objects \in Nat /\ Len(registry) \in Nat
          /\ Len(registry) <= client.objects \/ Len(registry) <= 5
      BY ClientNumbers, OpenWriter DEF Shapes, OneOwner, RegistryFits
    <3>2. CASE root <= Len(registry) \/ root = 2
      BY <1>2, <2>1, <3>1, <3>2 DEF IDs
    <3>3. root <= Len(registry) \/ root = 2
      <4>1. CASE isModified
        BY <2>1, <3>1, <4>1, FirstObjects DEF FinalPageRoot, OriginalTreeRoot
      <4>2. CASE ~isModified
        <5>1. root = tree /\ DocumentHasNewPages
          BY <1>7, <2>1, <4>2 DEF FinalPageRoot, DocumentHasNewPages
        <5>2. tree \in 1 .. Len(registry) - 1
          BY <5>1, TreeIsNew
        <5>. QED  BY <3>1, <5>1, <5>2
      <4>. QED  BY <4>1, <4>2
    <3>. QED  BY <3>2, <3>3
  <2>4. PagesBelow(Found', root) = FirstPages \o kids
    BY <1>2, <1>3, <1>7, <2>1, PagesLead
  <2>5. client' = client
    BY DEF EndsWell
  <2>. QED  BY <1>4, <1>5, <2>2, <2>3, <2>4, <2>5, LedToPages
<1>. QED  BY <1>6, <1>7

LEMMA PagesEnd ==
    ASSUME PositionsFit, ImagesOnce, PagesKept, Shapes, Asides, NEW K \in Kinds, Open(K),
           phase = "open", Endings, UNCHANGED client
    PROVE  PagesInOrder'
<1>1. OneOwner(K) /\ RightKind(K) /\ result = NoResult
  BY DEF Open, Asides
<1>2. UNCHANGED <<isModified, documents>>
  BY DEF Endings, EndPDF, EndPDFFails, Reset, Cleanup
<1>3. NoResult.status # "ok" /\ [NoResult EXCEPT !.status = "failed"].status # "ok"
  BY DEF NoResult
<1>4. CASE EndPDFFails \/ Reset
  <2>1. result'.status # "ok"
    BY <1>1, <1>3, <1>4 DEF EndPDFFails, Reset
  <2>. QED  BY <2>1 DEF PagesInOrder, EndedWell
<1>5. ASSUME NEW other \in BOOLEAN, EndPDF(other)
      PROVE  PagesInOrder'
  <2>1. PICK w : w = EncryptionWritten(InfoWritten(CatalogWritten(other)))
    OBVIOUS
  <2>2. CASE CanWriteXref(w.registry)
    <3>1. /\ file' = w.file /\ result'.xref = Xref(w.registry)
          /\ result'.root = RootAfter(other)
      BY <1>5, <2>1, <2>2 DEF EndPDF
    <3>2. Sound(w, Again) /\ Extends(W, w)
      <4>1. PICK n : EndsRooted(w, RootAfter(other), n)
        BY <1>1, <2>1, EndingStands
      <4>. QED  BY <4>1 DEF EndsRooted, Ends, Stands
    <3>3. EndsWell(w)
      BY <1>2, <2>2, <3>1, <3>2 DEF EndsWell
    <3>. QED  BY <1>1, <2>1, <3>1, <3>3, PagesFound
  <2>3. CASE ~CanWriteXref(w.registry)
    <3>1. result'.status # "ok"
      BY <1>3, <1>5, <2>1, <2>3 DEF EndPDF
    <3>. QED  BY <3>1 DEF PagesInOrder, EndedWell
  <2>. QED  BY <2>2, <2>3
<1>. QED  BY <1>4, <1>5 DEF Endings

PInv == /\ phase = "open" => PagesKept
        /\ phase = "closed" => PagesInOrder

LEMMA PagesNext ==
    ASSUME PositionsFit, OpacitiesOnce, ImagesOnce, DInv, DInv', PInv, [Next]_vars
    PROVE  PInv'
<1>1. Shapes /\ Asides /\ Shapes'
  BY DEF DInv
<1>2. ASSUME Calls, UNCHANGED client
      PROVE  PInv'
  <2>1. StartPDF \/ ModifyPDF \/ Steps \/ Endings
    BY <1>2, CallsAre
  <2>2. /\ (StartPDF \/ ModifyPDF) => phase = "closed"
        /\ Steps => phase = "open"
        /\ Endings => phase = "open" /\ Cleanup
    BY OpenPhases
  <2>3. CASE StartPDF \/ ModifyPDF
    <3>1. Forgotten
      BY <2>2, <2>3 DEF DInv
    <3>2. phase' = "open"
      BY <2>3 DEF StartPDF, ModifyPDF, NextDocument
    <3>3. PagesKept'
      BY <1>2, <2>3, <3>1, PagesStart
    <3>. QED  BY <3>2, <3>3 DEF PInv
  <2>4. CASE Steps \/ Endings
    <3>1. phase = "open" /\ \E K \in Kinds : Open(K)
      BY <2>2, <2>4 DEF DInv
    <3>2. PICK K \in Kinds : Open(K)
      BY <3>1
    <3>3. OneOwner(K) /\ PagesKept
      BY <3>1, <3>2 DEF Open, PInv
    <3>4. CASE Steps
      <4>1. /\ file \in Seq(FileObject) /\ registry \in Seq(ObjectWriteInformation)
            /\ forms \subseteq Nat
        BY <1>1, <3>3, OpenTypes DEF OneOwner, Sound, Writers, W
      <4>2. phase' = "open"
        BY <3>1, <3>3, <3>4, StepStaysOpen
      <4>3. PagesKept'
        BY <1>1, <1>2, <3>3, <3>4, <4>1, PagesStep
      <4>. QED  BY <4>2, <4>3 DEF PInv
    <3>5. CASE Endings
      <4>1. phase' = "closed"
        BY <1>1, <1>2, <3>1, <3>2, <3>5, EndStep DEF Endings
      <4>2. PagesInOrder'
        BY <1>1, <1>2, <3>1, <3>2, <3>3, <3>5, PagesEnd
      <4>. QED  BY <4>1, <4>2 DEF PInv
    <3>. QED  BY <2>4, <3>4, <3>5
  <2>. QED  BY <2>1, <2>3, <2>4
<1>3. CASE UNCHANGED vars
  <2>1. UNCHANGED <<phase, file, tree, kids, isModified, documents, result, client>>
    BY <1>3 DEF vars, document, identity, history
  <2>2. OriginalObjects' = OriginalObjects /\ IDs' = IDs
    BY <2>1 DEF OriginalObjects, IDs
  <2>3. Found' = Found
    BY <2>1, <2>2 DEF Found, ReaderKnows, ReaderFinds
  <2>4. PagesInOrder' = PagesInOrder
    BY <2>1, <2>2, <2>3 DEF PagesInOrder, EndedWell
  <2>5. PagesKept' = PagesKept
    BY <2>1 DEF PagesKept, OriginalsAre, OriginalCount, FirstPages
  <2>. QED  BY <2>1, <2>4, <2>5 DEF PInv
<1>. QED  BY <1>2, <1>3 DEF Next, Ended

\* A reader of a document that ended well finds the pages of the modified file and then
\* those WritePage was called for, in that order and each once, whatever failed and however
\* often the document was shut down and continued: for every client that draws an image
\* once, in every document.
THEOREM PagesReachReader ==
    ASSUME PositionsFit, OpacitiesOnce, ImagesOnce
    PROVE  Spec => []PagesInOrder
<1>1. Init => PInv
  BY DEF Init, PInv, PagesInOrder, EndedWell, NoResult
<1>2. DInv /\ DInv' /\ PInv /\ [Next]_vars => PInv'
  BY PagesNext
<1>3. DInv /\ PInv => PagesInOrder
  BY DEF DInv, PInv, PagesInOrder, EndedWell
<1>4. Spec => []DInv
  BY Invariant
<1>. QED  BY <1>1, <1>2, <1>3, <1>4, PTL DEF Spec
=============================================================================
