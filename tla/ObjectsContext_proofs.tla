------------------------ MODULE ObjectsContext_proofs ------------------------
(***************************************************************************)
(* Whatever a client calls, every entry a reader of the new revision       *)
(* follows leads to the header of its object, and a restart changes        *)
(* nothing of the xref table to come.                                      *)
(***************************************************************************)
EXTENDS ObjectsContext, SequenceTheorems, TLAPS

Registry == Seq(ObjectWriteInformation)

\* The IDs a reader follows.
Listed(r) == {id \in DirtyIDs(r) : r[id + 1].type = "Used" /\ r[id + 1].written}

\* A registry lists what another does, at the same positions, and at most one
\* object in addition or anew, at a position an xref row can say.
ListsAtMost(after, r, id, position) ==
    \A other \in Listed(after) :
        \/ other \in Listed(r) /\ after[other + 1].position = r[other + 1].position
        \/ other = id /\ after[other + 1].position = position /\ position <= MaxWritePosition

\* The data of an open stream starts in the file: its length is no less than 0.
StreamsStarted == \A s \in streams : s.start <= Len(file)

IInv == TypeOK /\ StreamsStarted /\ XrefEntriesPointAtHeaders
-----------------------------------------------------------------------------
(***************************************************************************)
(* The operations of the registry.                                         *)
(***************************************************************************)

\* One registry is another but for the entry of an ID.
Replaces(after, r, id, entry) == after = [r EXCEPT ![id + 1] = entry]

\* Replacing an entry of a registry by another gives a registry.
LEMMA EntryReplaced ==
    ASSUME NEW r \in Registry, NEW id \in ObjectIDs(r),
           NEW entry \in ObjectWriteInformation,
           NEW after, Replaces(after, r, id, entry)
    PROVE  /\ after \in Registry /\ Len(after) = Len(r)
           /\ ObjectIDs(after) = ObjectIDs(r)
           /\ after[id + 1] = entry
           /\ \A other \in ObjectIDs(r) : other # id => after[other + 1] = r[other + 1]
<1>1. id + 1 \in 1 .. Len(r)
  BY LenProperties DEF Registry, ObjectIDs
<1>2. after \in Registry /\ Len(after) = Len(r)
  BY <1>1, ExceptSeq DEF Registry, Replaces
<1>. QED  BY <1>1, <1>2, LenProperties DEF Registry, ObjectIDs, Replaces

\* A registry's entries are entries.
LEMMA EntryType ==
    ASSUME NEW r \in Registry, NEW id \in ObjectIDs(r)
    PROVE  /\ r[id + 1] \in ObjectWriteInformation
           /\ id \in Nat /\ id < Len(r) /\ Len(r) \in Nat
BY LenProperties, ElementOfSeq DEF Registry, ObjectIDs

\* AllocateNewObjectID adds an object that is not written.
LEMMA Allocated ==
    ASSUME NEW r \in Registry
    PROVE  /\ AllocateNewObjectID(r) \in Registry
           /\ Len(AllocateNewObjectID(r)) = Len(r) + 1
           /\ \A id \in ObjectIDs(r) : AllocateNewObjectID(r)[id + 1] = r[id + 1]
           /\ Listed(AllocateNewObjectID(r)) = Listed(r)
<1>1. NewObject \in ObjectWriteInformation
  BY RegistryAssumption DEF NewObject, ObjectWriteInformation, ReferenceTypes
<1>2. /\ AllocateNewObjectID(r) \in Registry
      /\ Len(AllocateNewObjectID(r)) = Len(r) + 1 /\ Len(r) \in Nat
      /\ \A k \in 1 .. Len(r) : AllocateNewObjectID(r)[k] = r[k]
      /\ AllocateNewObjectID(r)[Len(r) + 1] = NewObject
  BY <1>1, AppendProperties, LenProperties DEF AllocateNewObjectID, Registry
<1>3. ObjectIDs(AllocateNewObjectID(r)) = ObjectIDs(r) \cup {Len(r)}
  BY <1>2 DEF ObjectIDs
<1>4. \A id \in ObjectIDs(r) : AllocateNewObjectID(r)[id + 1] = r[id + 1]
  BY <1>2 DEF ObjectIDs
<1>5. Len(r) \notin Listed(AllocateNewObjectID(r)) /\ Len(r) \notin Listed(r)
  BY <1>2 DEF Listed, DirtyIDs, ObjectIDs, NewObject
<1>6. Listed(AllocateNewObjectID(r)) = Listed(r)
  BY <1>3, <1>4, <1>5 DEF Listed, DirtyIDs
<1>. QED  BY <1>2, <1>4, <1>6

\* MarkObjectAsWritten lists at most its object in addition, at the position
\* it is given, which is one an xref row can say.
LEMMA MarkedAsWritten ==
    ASSUME NEW r \in Registry, NEW id \in Nat, NEW position \in Nat,
           NEW after, after = MarkObjectAsWritten(r, id, position)
    PROVE  /\ after \in Registry /\ Len(after) = Len(r)
           /\ ListsAtMost(after, r, id, position)
<1>1. CASE CanMarkAsWritten(r, id, position)
  <2>1. id \in ObjectIDs(r) /\ r[id + 1] \in ObjectWriteInformation
    <3>1. id \in ObjectIDs(r)
      BY <1>1, LenProperties DEF CanMarkAsWritten, ObjectIDs, Registry
    <3>. QED  BY <3>1, EntryType
  <2>2. [r[id + 1] EXCEPT !.dirty = TRUE, !.position = position, !.written = TRUE]
            \in ObjectWriteInformation
    BY <2>1 DEF ObjectWriteInformation
  <2>3. PICK entry \in ObjectWriteInformation :
            entry.position = position /\ Replaces(after, r, id, entry)
    <3>1. id + 1 \in DOMAIN r
      BY <2>1, LenProperties DEF Registry, ObjectIDs
    <3>. QED  BY <1>1, <2>1, <2>2, <3>1 DEF MarkObjectAsWritten, Replaces, ObjectWriteInformation
  <2>4. /\ after \in Registry /\ Len(after) = Len(r)
        /\ ObjectIDs(after) = ObjectIDs(r) /\ after[id + 1] = entry
        /\ \A other \in ObjectIDs(r) : other # id => after[other + 1] = r[other + 1]
    BY <2>1, <2>3, EntryReplaced
  <2>. QED  BY <1>1, <2>3, <2>4 DEF ListsAtMost, Listed, DirtyIDs, CanMarkAsWritten
<1>2. CASE ~CanMarkAsWritten(r, id, position)
  BY <1>2 DEF MarkObjectAsWritten, ListsAtMost
<1>. QED  BY <1>1, <1>2

\* MarkObjectAsUpdated does too, whatever the object was.
LEMMA MarkedAsUpdated ==
    ASSUME NEW r \in Registry, NEW id \in Nat, NEW position \in Nat,
           NEW after, after = MarkObjectAsUpdated(r, id, position)
    PROVE  /\ after \in Registry /\ Len(after) = Len(r)
           /\ ListsAtMost(after, r, id, position)
<1>1. CASE CanMarkAsUpdated(r, id, position)
  <2>1. id \in ObjectIDs(r) /\ r[id + 1] \in ObjectWriteInformation
    <3>1. id \in ObjectIDs(r)
      BY <1>1, LenProperties DEF CanMarkAsUpdated, ObjectIDs, Registry
    <3>. QED  BY <3>1, EntryType
  <2>2. [r[id + 1] EXCEPT !.dirty = TRUE, !.position = position, !.type = "Used"]
            \in ObjectWriteInformation
    BY <2>1 DEF ObjectWriteInformation, ReferenceTypes
  <2>3. PICK entry \in ObjectWriteInformation :
            entry.position = position /\ Replaces(after, r, id, entry)
    <3>1. id + 1 \in DOMAIN r
      BY <2>1, LenProperties DEF Registry, ObjectIDs
    <3>. QED  BY <1>1, <2>1, <2>2, <3>1
              DEF MarkObjectAsUpdated, Replaces, ObjectWriteInformation
  <2>4. /\ after \in Registry /\ Len(after) = Len(r)
        /\ ObjectIDs(after) = ObjectIDs(r) /\ after[id + 1] = entry
        /\ \A other \in ObjectIDs(r) : other # id => after[other + 1] = r[other + 1]
    BY <2>1, <2>3, EntryReplaced
  <2>. QED  BY <1>1, <2>3, <2>4 DEF ListsAtMost, Listed, DirtyIDs, CanMarkAsUpdated
<1>2. CASE ~CanMarkAsUpdated(r, id, position)
  BY <1>2 DEF MarkObjectAsUpdated, ListsAtMost
<1>. QED  BY <1>1, <1>2

\* DeleteObject lists nothing in addition.
LEMMA Deleted ==
    ASSUME NEW r \in Registry, NEW id \in Nat, NEW after, after = DeleteObject(r, id)
    PROVE  /\ after \in Registry /\ Len(after) = Len(r)
           /\ \A other \in Listed(after) :
                 other \in Listed(r) /\ after[other + 1] = r[other + 1]
<1>1. CASE CanDelete(r, id)
  <2>1. id \in ObjectIDs(r) /\ r[id + 1] \in ObjectWriteInformation
    <3>1. id \in ObjectIDs(r)
      BY <1>1, LenProperties DEF CanDelete, ObjectIDs, Registry
    <3>. QED  BY <3>1, EntryType
  <2>2. r[id + 1].generation + 1 \in 0 .. MaxGeneration
    BY <1>1, <2>1, RegistryAssumption DEF CanDelete, ObjectWriteInformation
  <2>3. [r[id + 1] EXCEPT !.dirty = TRUE, !.generation = @ + 1, !.position = 0, !.type = "Free"]
            \in ObjectWriteInformation
    BY <2>1, <2>2 DEF ObjectWriteInformation, ReferenceTypes
  <2>4. PICK entry \in ObjectWriteInformation :
            entry.type = "Free" /\ Replaces(after, r, id, entry)
    <3>1. id + 1 \in DOMAIN r
      BY <2>1, LenProperties DEF Registry, ObjectIDs
    <3>. QED  BY <1>1, <2>1, <2>3, <3>1 DEF DeleteObject, Replaces, ObjectWriteInformation
  <2>5. /\ after \in Registry /\ Len(after) = Len(r)
        /\ ObjectIDs(after) = ObjectIDs(r) /\ after[id + 1] = entry
        /\ \A other \in ObjectIDs(r) : other # id => after[other + 1] = r[other + 1]
    BY <2>1, <2>4, EntryReplaced
  <2>. QED  BY <2>4, <2>5 DEF Listed, DirtyIDs
<1>2. CASE ~CanDelete(r, id)
  BY <1>2 DEF DeleteObject, Listed
<1>. QED  BY <1>1, <1>2

\* A state file keeps of an entry all but the position of what is not written.
LEMMA SavedEntry ==
    ASSUME NEW entry \in ObjectWriteInformation
    PROVE  /\ Saved(entry) \in ObjectWriteInformation
           /\ Saved(entry).type = entry.type /\ Saved(entry).written = entry.written
           /\ Saved(entry).dirty = entry.dirty
           /\ Saved(entry).generation = entry.generation
           /\ entry.written => Saved(entry).position = entry.position
BY DEF Saved, ObjectWriteInformation

\* A registry that is saved and restored lists the same objects at the same places.
LEMMA Restored ==
    ASSUME NEW r \in Registry
    PROVE  /\ WriteAndReadState(r) \in Registry
           /\ Len(WriteAndReadState(r)) = Len(r)
           /\ \A id \in ObjectIDs(r) : WriteAndReadState(r)[id + 1] = Saved(r[id + 1])
           /\ DirtyIDs(WriteAndReadState(r)) = DirtyIDs(r)
           /\ Listed(WriteAndReadState(r)) = Listed(r)
<1>1. \A id \in ObjectIDs(r) : r[id + 1] \in ObjectWriteInformation
  BY EntryType
<1>2. \A k \in 1 .. Len(r) : Saved(r[k]) \in ObjectWriteInformation
  BY SavedEntry, ElementOfSeq DEF Registry
<1>3. WriteAndReadState(r) \in Registry /\ Len(WriteAndReadState(r)) = Len(r)
  BY <1>2, LenProperties DEF WriteAndReadState, Registry
<1>4. \A id \in ObjectIDs(r) : WriteAndReadState(r)[id + 1] = Saved(r[id + 1])
  BY LenProperties DEF WriteAndReadState, Registry, ObjectIDs
<1>5. DirtyIDs(WriteAndReadState(r)) = DirtyIDs(r)
  BY <1>1, <1>3, <1>4, SavedEntry DEF DirtyIDs, ObjectIDs
<1>6. Listed(WriteAndReadState(r)) = Listed(r)
  BY <1>1, <1>4, <1>5, SavedEntry DEF Listed, DirtyIDs
<1>. QED  BY <1>3, <1>4, <1>5, <1>6
-----------------------------------------------------------------------------
(***************************************************************************)
(* The invariant.                                                          *)
(***************************************************************************)

\* What the entries lead to is about the objects that are listed.
LEMMA EntriesByListed ==
    XrefEntriesPointAtHeaders <=> \A id \in Listed(registry) : XrefEntryOK(id)
BY DEF XrefEntriesPointAtHeaders, Listed

\* Writing more leaves what is in the file where it is.
LEMMA FileGrows ==
    ASSUME TypeOK, NEW tokens \in Seq(Token), file' = file \o tokens
    PROVE  /\ file' \in Seq(Token)
           /\ Len(file') = Len(file) + Len(tokens)
           /\ Len(file) \in Nat /\ Len(tokens) \in Nat
           /\ \A k \in 1 .. Len(file) : file'[k] = file[k]
           /\ \A k \in 1 .. Len(tokens) : file'[Len(file) + k] = tokens[k]
<1>1. file \in Seq(Token)
  BY DEF TypeOK
<1>2. Len(file) \in Nat /\ Len(tokens) \in Nat
  BY <1>1, LenProperties
<1>3. /\ file' \in Seq(Token) /\ Len(file') = Len(file) + Len(tokens)
      /\ \A k \in 1 .. Len(file) + Len(tokens) :
            file'[k] = IF k <= Len(file) THEN file[k] ELSE tokens[k - Len(file)]
  BY <1>1, ConcatProperties
<1>4. \A k \in 1 .. Len(file) : file'[k] = file[k]
  BY <1>2, <1>3
<1>5. ASSUME NEW k \in 1 .. Len(tokens)
      PROVE  file'[Len(file) + k] = tokens[k]
  <2>1. Len(file) + k \in 1 .. Len(file) + Len(tokens) /\ ~(Len(file) + k <= Len(file))
    BY <1>2
  <2>2. Len(file) + k - Len(file) = k
    BY <1>2
  <2>. QED  BY <1>3, <2>1, <2>2
<1>. QED  BY <1>2, <1>3, <1>4, <1>5

\* An entry that lists its object anew must be given the place of its header;
\* the others go on leading where they did.
LEMMA EntriesFollow ==
    ASSUME TypeOK, XrefEntriesPointAtHeaders,
           NEW tokens \in Seq(Token), file' = file \o tokens,
           \A id \in Listed(registry') :
              \/ /\ id \in Listed(registry)
                 /\ registry'[id + 1].position = registry[id + 1].position
              \/ XrefEntryOK(id)'
    PROVE  XrefEntriesPointAtHeaders'
<1>. SUFFICES ASSUME NEW id \in Listed(registry'), id \in Listed(registry),
                     registry'[id + 1].position = registry[id + 1].position
              PROVE  XrefEntryOK(id)'
  BY DEF XrefEntriesPointAtHeaders, Listed
<1>1. /\ registry[id + 1].position \in 0 .. MaxWritePosition
      /\ registry[id + 1].position < Len(file)
      /\ IsHeaderOf(file[registry[id + 1].position + 1], id)
  BY EntriesByListed DEF XrefEntryOK
<1>2. /\ Len(file) <= Len(file')
      /\ registry[id + 1].position + 1 \in 1 .. Len(file)
  BY <1>1, FileGrows, RegistryAssumption
<1>3. file'[registry[id + 1].position + 1] = file[registry[id + 1].position + 1]
  BY <1>2, FileGrows
<1>. QED  BY <1>1, <1>2, <1>3, FileGrows DEF XrefEntryOK, IsHeaderOf

\* A step that writes nothing to the file and lists nothing anew.
LEMMA EntriesStay ==
    ASSUME TypeOK, XrefEntriesPointAtHeaders, UNCHANGED file,
           \A id \in Listed(registry') :
              id \in Listed(registry) /\ registry'[id + 1].position = registry[id + 1].position
    PROVE  XrefEntriesPointAtHeaders'
<1>1. <<>> \in Seq(Token) /\ file' = file \o <<>>
  BY ConcatEmptySeq, EmptySeq DEF TypeOK
<1>. QED  BY <1>1, EntriesFollow

\* A step that writes the header of one object, listed there if at all, as the
\* first of the tokens of its last part.
LEMMA EntriesAfterHeader ==
    ASSUME TypeOK, XrefEntriesPointAtHeaders, NEW id \in Nat,
           NEW tokens \in Seq(Token), file' = file \o tokens,
           NEW n \in 0 .. Len(tokens) - 1, IsHeaderOf(tokens[n + 1], id),
           NEW position, position = Len(file) + n,
           \A other \in Listed(registry') :
              \/ /\ other \in Listed(registry)
                 /\ registry'[other + 1].position = registry[other + 1].position
              \/ /\ other = id /\ registry'[other + 1].position = position
                 /\ position <= MaxWritePosition
    PROVE  XrefEntriesPointAtHeaders'
<1>1. /\ position \in Nat /\ position < Len(file')
      /\ file'[position + 1] = tokens[n + 1]
  <2>1. n + 1 \in 1 .. Len(tokens) /\ position + 1 = Len(file) + (n + 1)
    BY FileGrows
  <2>2. file'[Len(file) + (n + 1)] = tokens[n + 1]
    BY <2>1, FileGrows
  <2>. QED  BY <2>1, <2>2, FileGrows
<1>2. ASSUME NEW other \in Listed(registry'), other = id,
             registry'[other + 1].position = position, position <= MaxWritePosition
      PROVE  XrefEntryOK(other)'
  BY <1>1, <1>2, RegistryAssumption DEF XrefEntryOK, IsHeaderOf
<1>. QED  BY <1>2, EntriesFollow

\* A new file's registry and a modified file's list nothing.
LEMMA InitHolds == Init => IInv
<1>. SUFFICES ASSUME Init PROVE IInv
  OBVIOUS
<1>1. original \in Seq(XrefEntryInput) /\ Len(original) \in Nat
  BY ContextAssumption, LenProperties DEF Init
<1>2. \A k \in 1 .. Len(original) : original[k] \in XrefEntryInput
  BY <1>1, ElementOfSeq
<1>. DEFINE bytes == [i \in 1 .. Len(original) |-> OriginalToken(original[i], i)]
<1>3. \A entry \in XrefEntryInput :
          ExistingItem(entry) \in ObjectWriteInformation /\ ~ExistingItem(entry).dirty
  BY RegistryAssumption
     DEF ExistingItem, XrefEntryInput, ObjectWriteInformation, ReferenceTypes
<1>4. PICK items \in Registry :
          /\ registry = EmptyRegistry \o items /\ Len(items) = Len(original)
          /\ \A k \in 1 .. Len(original) : items[k] = ExistingItem(original[k])
  <2>. DEFINE its == [i \in 1 .. Len(original) |-> ExistingItem(original[i])]
  <2>1. its \in Registry /\ Len(its) = Len(original)
    BY <1>1, <1>2, <1>3 DEF Registry
  <2>2. registry = EmptyRegistry \o its
    BY DEF Init, SetupXrefFromModifiedFile
  <2>3. \A k \in 1 .. Len(original) : its[k] = ExistingItem(original[k])
    OBVIOUS
  <2>. HIDE DEF its
  <2>. QED  BY <2>1, <2>2, <2>3
<1>5. EmptyRegistry \in Registry /\ Len(EmptyRegistry) = 1
      /\ EmptyRegistry[1] = InitialFreeObject
  BY RegistryAssumption
     DEF EmptyRegistry, InitialFreeObject, Registry, ObjectWriteInformation, ReferenceTypes
<1>6. /\ registry \in Registry /\ Len(registry) = Len(original) + 1
      /\ registry[1] = InitialFreeObject
      /\ \A k \in 2 .. Len(registry) : registry[k] = items[k - 1]
  <2>1. /\ registry \in Registry
        /\ Len(registry) = Len(EmptyRegistry) + Len(items)
        /\ \A k \in 1 .. Len(EmptyRegistry) + Len(items) :
              registry[k] = IF k <= Len(EmptyRegistry) THEN EmptyRegistry[k]
                            ELSE items[k - Len(EmptyRegistry)]
    BY <1>4, <1>5, ConcatProperties DEF Registry
  <2>. QED  BY <1>1, <1>4, <1>5, <2>1
<1>7. Listed(registry) = {}
  <2>1. \A k \in 2 .. Len(registry) : ~registry[k].dirty
    BY <1>1, <1>2, <1>3, <1>4, <1>6
  <2>. QED  BY <1>1, <1>6, <2>1 DEF Listed, DirtyIDs, ObjectIDs, InitialFreeObject
<1>8. file \in Seq(Token)
  <2>1. bytes \in Seq(Token)
    BY <1>1, <1>2 DEF OriginalToken, Tk, Token, TokenKinds, XrefEntryInput
  <2>2. <<Tk("header", 0, 0)>> \in Seq(Token)
    BY DEF Tk, Token, TokenKinds
  <2>3. file = <<Tk("header", 0, 0)>> \o bytes
    BY DEF Init
  <2>. HIDE DEF bytes
  <2>. QED  BY <2>1, <2>2, <2>3, ConcatProperties
<1>9. TypeOK
  <2>1. isEncrypted \in BOOLEAN /\ helperAttached \in BOOLEAN
    BY ContextAssumption DEF Init, MayBeAttached
  <2>. QED  BY <1>1, <1>6, <1>8, <2>1 DEF Init, TypeOK, Registry
<1>10. StreamsStarted
  BY DEF Init, StreamsStarted
<1>. QED  BY <1>7, <1>9, <1>10, EntriesByListed DEF IInv
-----------------------------------------------------------------------------
(***************************************************************************)
(* The steps.                                                              *)
(***************************************************************************)
Parts == {"obj", "<<", "stream"}

\* What the client has open stays a sequence of parts.
LEMMA OpenTypes ==
    ASSUME TypeOK
    PROVE  /\ \A what \in Parts : Opened(what) \in Seq(Parts)
           /\ \A n \in Nat : Closed(n) \in Seq(Parts)
<1>1. open \in Seq(Parts) /\ Len(open) \in Nat
  BY LenProperties DEF TypeOK, Parts
<1>2. ASSUME NEW what \in Parts PROVE Opened(what) \in Seq(Parts)
  BY <1>1, AppendProperties DEF Opened
<1>3. ASSUME NEW n \in Nat PROVE Closed(n) \in Seq(Parts)
  <2>1. Len(open) - n \in Int /\ \A k \in 1 .. Len(open) - n : k \in 1 .. Len(open)
    BY <1>1
  <2>2. \A k \in 1 .. Len(open) - n : open[k] \in Parts
    BY <1>1, <2>1, ElementOfSeq
  <2>3. SubSeq(open, 1, Len(open) - n) \in Seq(Parts)
    BY <2>1, <2>2, SubSeqProperties
  <2>. QED  BY <1>1, <2>3 DEF Closed
<1>. QED  BY <1>2, <1>3

\* All but the last element of a sequence, and the last.
LEMMA FrontAndLast ==
    ASSUME NEW S, NEW seq \in Seq(S), seq # <<>>
    PROVE  Front(seq) \in Seq(S) /\ Last(seq) \in S
<1>1. Len(seq) \in Nat \ {0}
  BY EmptySeq
<1>2. \A k \in 1 .. Len(seq) : seq[k] \in S
  BY ElementOfSeq
<1>3. Front(seq) = SubSeq(seq, 1, Len(seq) - 1) /\ Last(seq) = seq[Len(seq)]
  BY DEF Front, Last
<1>4. Last(seq) \in S
  BY <1>1, <1>2, <1>3
<1>5. SubSeq(seq, 1, Len(seq) - 1) \in Seq(S)
  <2>1. Len(seq) - 1 \in Int /\ \A k \in 1 .. Len(seq) - 1 : seq[k] \in S
    BY <1>1, <1>2
  <2>. QED  BY <2>1, SubSeqProperties
<1>. QED  BY <1>3, <1>4, <1>5

\* Keys pushed and popped stay numbers.
LEMMA KeysTypes ==
    ASSUME TypeOK
    PROVE  /\ \A id \in Nat : OnObjectStart(id) => keysStack' \in Seq(Nat)
           /\ PopKey => keysStack' \in Seq(Nat)
           /\ StreamKey \in Nat
<1>1. keysStack \in Seq(Nat)
  BY DEF TypeOK
<1>2. EmptyKey \in Nat /\ GarbageKey \in Nat /\ NoKey \in Nat
  BY ContextAssumption DEF EmptyKey, GarbageKey, NoKey
<1>3. ASSUME NEW id \in Nat, OnObjectStart(id) PROVE keysStack' \in Seq(Nat)
  BY <1>1, <1>3, AppendProperties DEF OnObjectStart
<1>4. ASSUME PopKey PROVE keysStack' \in Seq(Nat)
  <2>1. <<>> \in Seq(Nat) /\ <<GarbageKey>> \in Seq(Nat)
    BY <1>2
  <2>. QED  BY <1>1, <1>4, <2>1, FrontAndLast DEF PopKey
<1>5. StreamKey \in Nat
  BY <1>1, <1>2, FrontAndLast DEF StreamKey, CurrentObjectKey
<1>. QED  BY <1>3, <1>4, <1>5

\* Streams that stay open stay started.
LEMMA StartedStay ==
    ASSUME TypeOK, StreamsStarted, NEW tokens \in Seq(Token), file' = file \o tokens,
           streams' \subseteq streams
    PROVE  StreamsStarted'
<1>1. Len(file) <= Len(file') /\ Len(file) \in Nat /\ Len(file') \in Nat
  BY FileGrows
<1>2. \A s \in streams : s.start \in Nat
  BY DEF TypeOK, Stream
<1>. QED  BY <1>1, <1>2 DEF StreamsStarted

\* The three ways to start an object.
LEMMA HeaderStep ==
    ASSUME IInv, NEW id \in Nat, WriteObjectHeader(id),
           registry' \in Registry, Len(registry') >= Len(registry),
           ListsAtMost(registry', registry, id, Len(file))
    PROVE  IInv'
<1>1. TypeOK /\ StreamsStarted /\ XrefEntriesPointAtHeaders
  BY DEF IInv
<1>. DEFINE header == <<Tk("obj", id, 0)>>
<1>2. /\ header \in Seq(Token) /\ Len(header) = 1
      /\ IsHeaderOf(header[1], id)
  BY DEF Tk, Token, TokenKinds, IsHeaderOf
<1>3. file' = file \o header
  BY DEF WriteObjectHeader, Emit
<1>. HIDE DEF header
<1>4. file' \in Seq(Token) /\ Len(file) \in Nat
  BY <1>1, <1>2, <1>3, FileGrows
<1>5. XrefEntriesPointAtHeaders'
  <2>1. 0 \in 0 .. Len(header) - 1 /\ Len(file) = Len(file) + 0 /\ 0 + 1 = 1
    BY <1>2, <1>4
  <2>. QED  BY <1>1, <1>2, <1>3, <2>1, EntriesAfterHeader DEF ListsAtMost
<1>6. StreamsStarted'
  BY <1>1, <1>2, <1>3, StartedStay DEF WriteObjectHeader
<1>7. keysStack' \in Seq(Nat) /\ open' \in Seq(Parts)
  BY <1>1, KeysTypes, OpenTypes DEF WriteObjectHeader, Parts
<1>8. Len(registry') > Len(original)
  BY <1>1, LenProperties DEF TypeOK, Registry
<1>9. TypeOK'
  BY <1>1, <1>4, <1>7, <1>8 DEF TypeOK, WriteObjectHeader, Registry, Parts
<1>. QED  BY <1>5, <1>6, <1>9 DEF IInv

\* A step that leaves the file, the streams and the rest of the types alone but for
\* the registry, in which it lists nothing anew.
LEMMA RegistryStep ==
    ASSUME IInv, registry' \in Registry, Len(registry') >= Len(registry),
           \A id \in Listed(registry') :
              id \in Listed(registry) /\ registry'[id + 1].position = registry[id + 1].position,
           UNCHANGED <<file, dictionaryStack, streams, compressStreams, encryption,
                       xrefStatus, client>>
    PROVE  IInv'
<1>1. TypeOK /\ StreamsStarted /\ XrefEntriesPointAtHeaders
  BY DEF IInv
<1>2. XrefEntriesPointAtHeaders'
  BY <1>1, EntriesStay
<1>3. StreamsStarted'
  BY <1>1 DEF StreamsStarted
<1>4. Len(registry') > Len(original)
  BY <1>1, LenProperties DEF TypeOK, Registry
<1>5. TypeOK'
  BY <1>1, <1>4 DEF TypeOK, Registry, encryption, client
<1>. QED  BY <1>2, <1>3, <1>5 DEF IInv

\* The steps that list nothing anew, whatever they write to the file.
LEMMA QuietStep ==
    ASSUME IInv, registry' \in Registry,
           \A id \in Listed(registry') :
              id \in Listed(registry) /\ registry'[id + 1].position = registry[id + 1].position,
           NEW tokens \in Seq(Token), file' = file \o tokens
    PROVE  /\ XrefEntriesPointAtHeaders'
           /\ file' \in Seq(Token)
           /\ streams' \subseteq streams => StreamsStarted'
<1>1. TypeOK /\ StreamsStarted /\ XrefEntriesPointAtHeaders
  BY DEF IInv
<1>2. XrefEntriesPointAtHeaders'
  BY <1>1, EntriesFollow
<1>. QED  BY <1>1, <1>2, StartedStay, FileGrows

-----------------------------------------------------------------------------
\* A new ID lists nothing.
LEMMA AllocateNewObjectStep == IInv /\ AllocateNewObject => IInv'
<1>. SUFFICES ASSUME IInv, AllocateNewObject PROVE IInv'
  OBVIOUS
<1>1. registry \in Registry
  BY DEF IInv, TypeOK, Registry
<1>2. registry' = AllocateNewObjectID(registry)
  BY DEF AllocateNewObject
<1>3. /\ registry' \in Registry /\ Len(registry') >= Len(registry)
      /\ Listed(registry') = Listed(registry)
      /\ \A id \in ObjectIDs(registry) : registry'[id + 1] = registry[id + 1]
  BY <1>1, <1>2, Allocated, LenProperties DEF Registry
<1>. QED  BY <1>3, RegistryStep DEF AllocateNewObject, Listed, DirtyIDs

\* The header of a started object is written where its entry says.
LEMMA StartObjectStep ==
    ASSUME IInv,
           \/ StartNewIndirectObject
           \/ \E id \in 0 .. GetObjectsCount(registry) :
                 StartNewIndirectObjectWithID(id) \/ StartModifiedIndirectObject(id)
    PROVE  IInv'
<1>1. /\ registry \in Registry /\ Len(registry) \in Nat /\ GetObjectsCount(registry) \in Nat
      /\ GetCurrentPosition = Len(file) /\ Len(file) \in Nat
  BY LenProperties DEF IInv, TypeOK, Registry, GetObjectsCount, GetCurrentPosition
<1>2. CASE StartNewIndirectObject
  <2>1. PICK id \in Nat, more \in Registry :
            /\ id = GetObjectsCount(registry) /\ more = AllocateNewObjectID(registry)
            /\ registry' = MarkObjectAsWritten(more, id, Len(file))
            /\ WriteObjectHeader(id)
    BY <1>1, <1>2, Allocated DEF StartNewIndirectObject
  <2>2. /\ Len(more) = Len(registry) + 1
        /\ \A other \in Listed(more) :
              other \in Listed(registry) /\ more[other + 1] = registry[other + 1]
    BY <1>1, <2>1, Allocated DEF Listed, DirtyIDs
  <2>3. /\ registry' \in Registry /\ Len(registry') = Len(more)
        /\ ListsAtMost(registry', more, id, Len(file))
    BY <1>1, <2>1, MarkedAsWritten
  <2>4. ListsAtMost(registry', registry, id, Len(file))
    BY <2>2, <2>3 DEF ListsAtMost
  <2>. QED  BY <1>1, <2>1, <2>2, <2>3, <2>4, HeaderStep
<1>3. ASSUME NEW id \in 0 .. GetObjectsCount(registry), StartNewIndirectObjectWithID(id)
      PROVE  IInv'
  <2>1. id \in Nat
    BY <1>1
  <2>2. WriteObjectHeader(id) /\ registry' = MarkObjectAsWritten(registry, id, Len(file))
    BY <1>1, <1>3 DEF StartNewIndirectObjectWithID
  <2>3. /\ registry' \in Registry /\ Len(registry') = Len(registry)
        /\ ListsAtMost(registry', registry, id, Len(file))
    BY <1>1, <2>1, <2>2, MarkedAsWritten
  <2>. QED  BY <1>1, <2>1, <2>2, <2>3, HeaderStep
<1>4. ASSUME NEW id \in 0 .. GetObjectsCount(registry), StartModifiedIndirectObject(id)
      PROVE  IInv'
  <2>1. id \in Nat
    BY <1>1
  <2>2. WriteObjectHeader(id) /\ registry' = MarkObjectAsUpdated(registry, id, Len(file))
    BY <1>1, <1>4 DEF StartModifiedIndirectObject
  <2>3. /\ registry' \in Registry /\ Len(registry') = Len(registry)
        /\ ListsAtMost(registry', registry, id, Len(file))
    BY <1>1, <2>1, <2>2, MarkedAsUpdated
  <2>. QED  BY <1>1, <2>1, <2>2, <2>3, HeaderStep
<1>. QED  BY <1>2, <1>3, <1>4

\* A deleted object is no longer listed as in use.
LEMMA DeleteAnObjectStep ==
    ASSUME IInv, NEW id \in Nat, DeleteAnObject(id)
    PROVE  IInv'
<1>1. registry \in Registry /\ registry' = DeleteObject(registry, id)
  BY DEF IInv, TypeOK, Registry, DeleteAnObject
<1>2. Len(registry) \in Nat
  BY <1>1, LenProperties DEF Registry
<1>. QED  BY <1>1, <1>2, Deleted, RegistryStep DEF DeleteAnObject

\* What follows is about steps that leave the registry as it is.
LEMMA SameRegistry ==
    ASSUME IInv, UNCHANGED registry
    PROVE  /\ registry' \in Registry /\ Len(registry') > Len(original)
           /\ \A id \in Listed(registry') :
                 id \in Listed(registry) /\ registry'[id + 1].position = registry[id + 1].position
BY DEF IInv, TypeOK, Registry

\* Short sequences.
LEMMA ShortSequences ==
    ASSUME NEW S, NEW a \in S, NEW b \in S, NEW c \in S
    PROVE  /\ <<a>> \in Seq(S) /\ <<a, b>> \in Seq(S) /\ <<a, b, c>> \in Seq(S)
           /\ Len(<<a, b>>) = 2 /\ Len(<<a, b, c>>) = 3 /\ <<a, b, c>>[1] = a
OBVIOUS

\* Tokens are tokens.
LEMMA TokenTypes ==
    \A kind \in TokenKinds, ref \in Nat, val \in Nat : Tk(kind, ref, val) \in Token
BY DEF Tk, Token

\* Writing one token is writing a sequence of them.
LEMMA EmitOne ==
    ASSUME NEW token \in Token, Emit(<<token>>)
    PROVE  \E tokens \in Seq(Token) : file' = file \o tokens
<1>1. <<token>> \in Seq(Token)
  OBVIOUS
<1>2. file' = file \o <<token>>
  BY DEF Emit
<1>. QED  BY <1>1, <1>2

\* The end of an object, and the key it pops.
LEMMA EndIndirectObjectStep == IInv /\ EndIndirectObject => IInv'
<1>. SUFFICES ASSUME IInv, EndIndirectObject PROVE IInv'
  OBVIOUS
<1>1. PICK tokens \in Seq(Token) : file' = file \o tokens
  <2>1. Tk("endobj", 0, 0) \in Token
    BY TokenTypes DEF TokenKinds
  <2>2. Emit(<<Tk("endobj", 0, 0)>>)
    BY DEF EndIndirectObject
  <2>. QED  BY <2>1, <2>2, EmitOne
<1>2. UNCHANGED registry /\ streams' \subseteq streams
  BY DEF EndIndirectObject
<1>3. XrefEntriesPointAtHeaders' /\ file' \in Seq(Token) /\ StreamsStarted'
  BY <1>1, <1>2, SameRegistry, QuietStep
<1>4. TypeOK
  BY DEF IInv
<1>5. open' \in Seq(Parts)
  BY <1>4, OpenTypes DEF EndIndirectObject
<1>6. keysStack' \in Seq(Nat)
  BY <1>4, KeysTypes DEF EndIndirectObject, OnObjectEnd, TypeOK
<1>7. TypeOK'
  BY <1>3, <1>4, <1>5, <1>6 DEF EndIndirectObject, TypeOK, Parts
<1>. QED  BY <1>3, <1>7 DEF IInv

\* The steps that write nothing and leave streams and registry as they are.
LEMMA SettingsStep ==
    ASSUME IInv, SetCompressStreams(TRUE) \/ SetCompressStreams(FALSE) \/ WriteXrefTable
                 \/ UNCHANGED vars
    PROVE  IInv'
<1>1. TypeOK /\ StreamsStarted /\ XrefEntriesPointAtHeaders
  BY DEF IInv
<1>2. UNCHANGED <<registry, file, streams>>
  BY DEF SetCompressStreams, WriteXrefTable, vars
<1>3. XrefEntriesPointAtHeaders' /\ StreamsStarted'
  BY <1>1, <1>2 DEF XrefEntriesPointAtHeaders, XrefEntryOK, StreamsStarted
<1>4. TypeOK'
  BY <1>1 DEF SetCompressStreams, WriteXrefTable, vars, TypeOK, encryption, client
<1>. QED  BY <1>3, <1>4 DEF IInv

\* A dictionary is opened and remembers where.
LEMMA StartDictionaryStep == IInv /\ StartDictionary => IInv'
<1>. SUFFICES ASSUME IInv, StartDictionary PROVE IInv'
  OBVIOUS
<1>1. TypeOK
  BY DEF IInv
<1>2. PICK tokens \in Seq(Token) : file' = file \o tokens
  <2>1. Tk("<<", 0, 0) \in Token
    BY TokenTypes DEF TokenKinds
  <2>2. Emit(<<Tk("<<", 0, 0)>>)
    BY DEF StartDictionary
  <2>. QED  BY <2>1, <2>2, EmitOne
<1>3. UNCHANGED registry /\ streams' \subseteq streams
  BY DEF StartDictionary
<1>4. XrefEntriesPointAtHeaders' /\ file' \in Seq(Token) /\ StreamsStarted'
  BY <1>2, <1>3, SameRegistry, QuietStep
<1>5. NewDictionary \in Dictionary
  BY <1>1, LenProperties DEF NewDictionary, Dictionary, GetCurrentPosition, TypeOK
<1>6. dictionaryStack' \in Seq(Dictionary)
  BY <1>1, <1>5, AppendProperties DEF StartDictionary, TypeOK
<1>7. open' \in Seq(Parts)
  BY <1>1, OpenTypes DEF StartDictionary, Parts
<1>8. TypeOK'
  BY <1>1, <1>4, <1>6, <1>7 DEF StartDictionary, TypeOK, Parts, encryption
<1>. QED  BY <1>4, <1>8 DEF IInv

\* The innermost dictionary is closed.
LEMMA EndDictionaryStep == IInv /\ EndDictionary => IInv'
<1>. SUFFICES ASSUME IInv, EndDictionary PROVE IInv'
  OBVIOUS
<1>1. TypeOK
  BY DEF IInv
<1>2. PICK tokens \in Seq(Token) : file' = file \o tokens
  <2>1. Tk(">>", 0, 0) \in Token
    BY TokenTypes DEF TokenKinds
  <2>2. Emit(<<Tk(">>", 0, 0)>>)
    BY DEF EndDictionary
  <2>. QED  BY <2>1, <2>2, EmitOne
<1>3. UNCHANGED registry /\ streams' \subseteq streams
  BY DEF EndDictionary
<1>4. XrefEntriesPointAtHeaders' /\ file' \in Seq(Token) /\ StreamsStarted'
  BY <1>2, <1>3, SameRegistry, QuietStep
<1>5. dictionaryStack' \in Seq(Dictionary)
  BY <1>1, FrontAndLast DEF EndDictionary, TypeOK
<1>6. open' \in Seq(Parts)
  BY <1>1, OpenTypes DEF EndDictionary
<1>7. TypeOK'
  BY <1>1, <1>4, <1>5, <1>6 DEF EndDictionary, TypeOK, Parts, encryption
<1>. QED  BY <1>4, <1>7 DEF IInv

\* Keys are added to dictionaries.
LEMMA KeysAdded ==
    ASSUME TypeOK, NEW i \in 1 .. Len(dictionaryStack), NEW keys \in SUBSET {"Filter", "Length"}
    PROVE  [dictionaryStack EXCEPT ![i].keys = @ \cup keys] \in Seq(Dictionary)
<1>1. dictionaryStack \in Seq(Dictionary) /\ i \in DOMAIN dictionaryStack
  BY LenProperties DEF TypeOK
<1>2. dictionaryStack[i] \in Dictionary
  BY <1>1, ElementOfSeq
<1>3. [dictionaryStack[i] EXCEPT !.keys = @ \cup keys] \in Dictionary
  BY <1>2 DEF Dictionary
<1>4. [dictionaryStack EXCEPT ![i] = [dictionaryStack[i] EXCEPT !.keys = @ \cup keys]]
          \in Seq(Dictionary)
  BY <1>1, <1>3, ExceptSeq
<1>. QED  BY <1>1, <1>4

\* A key is added to a dictionary.
LEMMA WriteKeyStep ==
    ASSUME IInv, NEW i \in 1 .. Len(dictionaryStack), NEW key \in ClientKeys, WriteKey(i, key)
    PROVE  IInv'
<1>1. TypeOK /\ StreamsStarted /\ XrefEntriesPointAtHeaders
  BY DEF IInv
<1>2. {key} \in SUBSET {"Filter", "Length"}
  BY ContextAssumption
<1>3. dictionaryStack' \in Seq(Dictionary)
  BY <1>1, <1>2, KeysAdded DEF WriteKey
<1>4. XrefEntriesPointAtHeaders' /\ StreamsStarted'
  BY <1>1 DEF WriteKey, XrefEntriesPointAtHeaders, XrefEntryOK, StreamsStarted
<1>5. TypeOK'
  BY <1>1, <1>3 DEF WriteKey, TypeOK, encryption, client
<1>. QED  BY <1>4, <1>5 DEF IInv

\* A stream's own dictionary has no keys, so that they clash with none.
LEMMA ClashIsClients ==
    ASSUME TypeOK, NEW compressed, NEW i \in 0 .. Len(dictionaryStack), KeysClash(i, compressed)
    PROVE  i \in 1 .. Len(dictionaryStack)
<1>1. Len(dictionaryStack) \in Nat /\ dictionaryStack \in Seq(Dictionary)
  BY LenProperties DEF TypeOK
<1>2. CASE i = 0
  <2>1. NewDictionary \in Dictionary /\ NewDictionary.keys = {}
    BY LenProperties DEF NewDictionary, Dictionary, GetCurrentPosition, TypeOK
  <2>2. Append(dictionaryStack, NewDictionary)[Len(dictionaryStack) + 1] = NewDictionary
    BY <1>1, <2>1, AppendProperties
  <2>. QED  BY <1>2, <2>1, <2>2 DEF KeysClash, StackForStream, StreamDictionary
<1>. QED  BY <1>1, <1>2

\* A stream that is refused changes at most keys and the registry.
LEMMA StartStreamFailsStep ==
    ASSUME IInv, NEW i \in 0 .. Len(dictionaryStack), NEW compressed \in BOOLEAN,
           StartStreamDuplicateKey(i, compressed) \/ StartStreamBadNesting(i, compressed)
    PROVE  IInv'
<1>1. TypeOK /\ StreamsStarted /\ XrefEntriesPointAtHeaders
  BY DEF IInv
<1>2. CASE StartStreamDuplicateKey(i, compressed)
  <2>1. i \in 1 .. Len(dictionaryStack)
    BY <1>1, <1>2, ClashIsClients DEF StartStreamDuplicateKey
  <2>2. dictionaryStack' \in Seq(Dictionary)
    <3>1. [dictionaryStack EXCEPT ![i].keys = @ \cup {"Filter"}] \in Seq(Dictionary)
      BY <1>1, <2>1, KeysAdded
    <3>. QED  BY <1>1, <1>2, <3>1 DEF StartStreamDuplicateKey, TypeOK
  <2>3. XrefEntriesPointAtHeaders' /\ StreamsStarted'
    BY <1>1, <1>2
       DEF StartStreamDuplicateKey, XrefEntriesPointAtHeaders, XrefEntryOK, StreamsStarted
  <2>4. TypeOK'
    BY <1>1, <1>2, <2>2 DEF StartStreamDuplicateKey, TypeOK, encryption, client
  <2>. QED  BY <2>3, <2>4 DEF IInv
<1>3. CASE StartStreamBadNesting(i, compressed)
  <2>1. i \in 1 .. Len(dictionaryStack)
    BY <1>1, <1>3, LenProperties DEF StartStreamBadNesting, TypeOK
  <2>2. dictionaryStack' \in Seq(Dictionary)
    <3>1. KeysForStream(compressed) \in SUBSET {"Filter", "Length"}
      BY DEF KeysForStream
    <3>. QED  BY <1>1, <1>3, <2>1, <3>1, KeysAdded DEF StartStreamBadNesting
  <2>3. /\ registry' \in Registry /\ Len(registry') = Len(registry) + 1
        /\ \A id \in Listed(registry') :
              id \in Listed(registry) /\ registry'[id + 1].position = registry[id + 1].position
    BY <1>1, <1>3, Allocated DEF StartStreamBadNesting, Listed, DirtyIDs, TypeOK, Registry
  <2>4. XrefEntriesPointAtHeaders' /\ StreamsStarted'
    BY <1>1, <1>3, <2>3, EntriesStay DEF StartStreamBadNesting, StreamsStarted
  <2>5. Len(registry') > Len(original)
    BY <1>1, <2>3, LenProperties DEF TypeOK
  <2>6. TypeOK'
    BY <1>1, <1>3, <2>2, <2>3, <2>5
       DEF StartStreamBadNesting, TypeOK, Registry, encryption, client
  <2>. QED  BY <2>4, <2>6 DEF IInv
<1>. QED  BY <1>2, <1>3

\* A stream starts where the file ends, and its length object gets an ID.
LEMMA StartStreamStep ==
    ASSUME IInv, NEW i \in 0 .. Len(dictionaryStack), NEW compressed \in BOOLEAN,
           StartStream(i, compressed)
    PROVE  IInv'
<1>1. TypeOK /\ StreamsStarted /\ XrefEntriesPointAtHeaders
  BY DEF IInv
<1>2. PICK extent \in Nat, key \in Nat, tokens \in Seq(Token) :
          /\ extent = GetObjectsCount(registry) /\ key = StreamKey
          /\ registry' = AllocateNewObjectID(registry)
          /\ file' = file \o tokens
          /\ streams' = streams \cup
               {[extent |-> extent, start |-> Len(file) + Len(tokens),
                 compressed |-> compressed, key |-> key, pending |-> 0]}
  <2>1. GetObjectsCount(registry) \in Nat /\ StreamKey \in Nat
    BY <1>1, KeysTypes, LenProperties DEF GetObjectsCount, TypeOK
  <2>2. OwnOpening(i) \in Seq(Token)
    <3>1. Tk("<<", 0, 0) \in Token
      BY TokenTypes DEF TokenKinds
    <3>. QED  BY <3>1, ShortSequences, EmptySeq DEF OwnOpening
  <2>3. <<Tk(">>", 0, 0), Tk("stream", StreamKey, GetObjectsCount(registry))>> \in Seq(Token)
    <3>1. Tk(">>", 0, 0) \in Token /\ Tk("stream", StreamKey, GetObjectsCount(registry)) \in Token
      BY <2>1, TokenTypes DEF TokenKinds
    <3>. QED  BY <3>1, ShortSequences
  <2>4. OwnOpening(i) \o <<Tk(">>", 0, 0), Tk("stream", StreamKey, GetObjectsCount(registry))>>
            \in Seq(Token)
    BY <2>2, <2>3, ConcatProperties
  <2>. QED  BY <2>1, <2>2, <2>3, <2>4 DEF StartStream, Emit
<1>3. /\ registry' \in Registry /\ Len(registry') = Len(registry) + 1
      /\ \A id \in Listed(registry') :
            id \in Listed(registry) /\ registry'[id + 1].position = registry[id + 1].position
  BY <1>1, <1>2, Allocated DEF Listed, DirtyIDs, TypeOK, Registry
<1>4. XrefEntriesPointAtHeaders' /\ file' \in Seq(Token)
  BY <1>2, <1>3, QuietStep
<1>5. Len(file') = Len(file) + Len(tokens) /\ Len(file) \in Nat /\ Len(tokens) \in Nat
  BY <1>1, <1>2, FileGrows
<1>6. StreamsStarted' /\ streams' \subseteq Stream
  <2>1. \A s \in streams : s \in Stream /\ s.start \in Nat /\ s.start <= Len(file)
    BY <1>1 DEF TypeOK, StreamsStarted, Stream
  <2>. QED  BY <1>2, <1>5, <2>1 DEF StreamsStarted, Stream
<1>7. dictionaryStack' \in Seq(Dictionary)
  <2>1. StackForStream(i) \in Seq(Dictionary) /\ StackForStream(i) # <<>>
    <3>1. dictionaryStack \in Seq(Dictionary) /\ NewDictionary \in Dictionary
      BY <1>1, LenProperties DEF NewDictionary, Dictionary, GetCurrentPosition, TypeOK
    <3>2. i # 0 => dictionaryStack # <<>>
      BY <3>1
    <3>. QED  BY <3>1, <3>2, AppendProperties DEF StackForStream
  <2>. QED  BY <2>1, FrontAndLast DEF StartStream
<1>8. open' \in Seq(Parts)
  <2>1. <<"obj", "stream">> \in Seq(Parts)
    BY ShortSequences DEF Parts
  <2>. QED  BY <1>1, <2>1 DEF StartStream, TypeOK, Parts
<1>9. Len(registry') > Len(original) /\ pauseLevel' \in Int
  BY <1>1, <1>3, LenProperties DEF TypeOK, StartStream
<1>10. TypeOK'
  BY <1>1, <1>3, <1>4, <1>6, <1>7, <1>8, <1>9 DEF StartStream, TypeOK, Registry, Parts
<1>. QED  BY <1>4, <1>6, <1>10 DEF IInv

\* Data is written or held back.
LEMMA WriteStreamDataStep ==
    ASSUME IInv, NEW s \in streams, WriteStreamData(s)
    PROVE  IInv'
<1>1. TypeOK /\ StreamsStarted /\ XrefEntriesPointAtHeaders /\ s \in Stream
  BY DEF IInv, TypeOK
<1>2. CASE UNCHANGED streams /\ Emit(<<Tk("data", s.key, s.extent)>>)
  <2>1. Tk("data", s.key, s.extent) \in Token
    BY <1>1, TokenTypes DEF Stream, TokenKinds
  <2>2. PICK tokens \in Seq(Token) : file' = file \o tokens
    BY <1>2, <2>1, EmitOne
  <2>3. XrefEntriesPointAtHeaders' /\ file' \in Seq(Token) /\ StreamsStarted'
    BY <1>2, <2>2, SameRegistry, QuietStep DEF WriteStreamData
  <2>4. TypeOK'
    BY <1>1, <1>2, <2>3 DEF WriteStreamData, TypeOK, encryption, client
  <2>. QED  BY <2>3, <2>4 DEF IInv
<1>3. CASE /\ streams' = (streams \ {s}) \cup {[s EXCEPT !.pending = 1]}
           /\ UNCHANGED file
  <2>1. [s EXCEPT !.pending = 1] \in Stream /\ [s EXCEPT !.pending = 1].start = s.start
    BY <1>1 DEF Stream
  <2>2. streams' \subseteq Stream /\ StreamsStarted'
    BY <1>1, <1>3, <2>1 DEF TypeOK, StreamsStarted
  <2>3. XrefEntriesPointAtHeaders'
    BY <1>1, <1>3 DEF WriteStreamData, XrefEntriesPointAtHeaders, XrefEntryOK
  <2>4. TypeOK'
    BY <1>1, <1>3, <2>2 DEF WriteStreamData, TypeOK, encryption, client
  <2>. QED  BY <2>2, <2>3, <2>4 DEF IInv
<1>. QED  BY <1>2, <1>3 DEF WriteStreamData

\* What a stream held back is tokens.
LEMMA HeldTypes ==
    ASSUME NEW s \in Stream
    PROVE  HeldData(s) \in Seq(Token) /\ Len(HeldData(s)) = s.pending
<1>1. s.pending \in Nat /\ Tk("data", s.key, s.extent) \in Token
  BY TokenTypes DEF Stream, TokenKinds
<1>. QED  BY <1>1 DEF HeldData

\* The length object follows the flushed data at the position it is given.
LEMMA EndPDFStreamStep ==
    ASSUME IInv, NEW s \in streams, EndPDFStream(s)
    PROVE  IInv'
<1>1. /\ TypeOK /\ StreamsStarted /\ XrefEntriesPointAtHeaders /\ registry \in Registry
      /\ Len(registry) \in Nat /\ Len(original) \in Nat /\ Len(file) \in Nat
  BY LenProperties DEF IInv, TypeOK, Registry
<1>2. /\ s \in Stream /\ s.extent \in Nat /\ s.pending \in Nat /\ s.start \in Nat
      /\ s.start <= Len(file)
  BY <1>1 DEF TypeOK, Stream, StreamsStarted
<1>3. PICK ending \in Seq(Token), last \in Seq(Token) :
          /\ Len(last) = 3 /\ IsHeaderOf(last[1], s.extent)
          /\ registry' = MarkObjectAsWritten(registry, s.extent, Len(file) + Len(ending))
          /\ file' = file \o (ending \o last)
  <2>1. HeldData(s) \o <<Tk("endstream", 0, s.extent), Tk("endobj", 0, 0)>> \in Seq(Token)
    <3>1. Tk("endstream", 0, s.extent) \in Token /\ Tk("endobj", 0, 0) \in Token
      BY <1>2, TokenTypes DEF TokenKinds
    <3>2. <<Tk("endstream", 0, s.extent), Tk("endobj", 0, 0)>> \in Seq(Token)
      BY <3>1, ShortSequences
    <3>. QED  BY <1>2, <3>2, HeldTypes, ConcatProperties
  <2>2. /\ Tk("obj", s.extent, 0) \in Token /\ Tk("endobj", 0, 0) \in Token
        /\ Tk("length", s.extent, StreamLength(s)) \in Token
    BY <1>1, <1>2, TokenTypes DEF TokenKinds, StreamLength
  <2>3. LET last == <<Tk("obj", s.extent, 0), Tk("length", s.extent, StreamLength(s)),
                      Tk("endobj", 0, 0)>>
        IN  last \in Seq(Token) /\ Len(last) = 3 /\ last[1] = Tk("obj", s.extent, 0)
    BY <2>2, ShortSequences
  <2>4. IsHeaderOf(Tk("obj", s.extent, 0), s.extent)
    BY DEF IsHeaderOf, Tk
  <2>. QED  BY <2>1, <2>3, <2>4 DEF EndPDFStream, ExtentWritten, Emit
<1>4. PICK tokens \in Seq(Token) :
          /\ tokens = ending \o last /\ Len(ending) \in Nat
          /\ Len(tokens) = Len(ending) + 3 /\ tokens[Len(ending) + 1] = last[1]
  <2>1. Len(ending) \in Nat
    BY LenProperties
  <2>2. /\ ending \o last \in Seq(Token) /\ Len(ending \o last) = Len(ending) + Len(last)
        /\ \A k \in 1 .. Len(ending) + Len(last) :
              (ending \o last)[k] = IF k <= Len(ending) THEN ending[k] ELSE last[k - Len(ending)]
    BY ConcatProperties
  <2>3. Len(ending) + 1 \in 1 .. Len(ending) + Len(last)
        /\ ~(Len(ending) + 1 <= Len(ending)) /\ Len(ending) + 1 - Len(ending) = 1
    BY <1>3, <2>1
  <2>4. (ending \o last)[Len(ending) + 1] = last[1]
    BY <2>2, <2>3
  <2>. QED  BY <1>3, <2>1, <2>2, <2>4
<1>5. /\ registry' \in Registry /\ Len(registry') = Len(registry)
      /\ ListsAtMost(registry', registry, s.extent, Len(file) + Len(ending))
  <2>1. Len(file) + Len(ending) \in Nat
    BY <1>1, <1>4
  <2>. QED  BY <1>1, <1>2, <1>3, <2>1, MarkedAsWritten
<1>6. XrefEntriesPointAtHeaders'
  <2>1. Len(ending) \in 0 .. Len(tokens) - 1 /\ file' = file \o tokens
        /\ IsHeaderOf(tokens[Len(ending) + 1], s.extent)
    BY <1>3, <1>4
  <2>. QED  BY <1>1, <1>2, <1>5, <2>1, EntriesAfterHeader DEF ListsAtMost
<1>7. StreamsStarted' /\ file' \in Seq(Token) /\ streams' \subseteq Stream
  <2>1. streams' \subseteq streams /\ file' = file \o tokens
    BY <1>3, <1>4 DEF EndPDFStream
  <2>. QED  BY <1>1, <2>1, StartedStay, FileGrows DEF TypeOK
<1>8. open' \in Seq(Parts)
  BY <1>1, OpenTypes DEF EndPDFStream
<1>9. pauseLevel' \in Int /\ keysStack' \in Seq(Nat)
  BY <1>1, KeysTypes DEF EndPDFStream, ReleaseEncryption, TypeOK
<1>10. TypeOK'
  BY <1>1, <1>5, <1>7, <1>8, <1>9 DEF EndPDFStream, TypeOK, Registry, Parts
<1>. QED  BY <1>6, <1>7, <1>10 DEF IInv

\* A restart lists the same objects at the same places.
LEMMA ShutdownAndContinueStep == IInv /\ ShutdownAndContinue => IInv'
<1>. SUFFICES ASSUME IInv, ShutdownAndContinue PROVE IInv'
  OBVIOUS
<1>1. /\ TypeOK /\ StreamsStarted /\ XrefEntriesPointAtHeaders /\ registry \in Registry
      /\ registry' = WriteAndReadState(registry)
  BY DEF IInv, TypeOK, Registry, ShutdownAndContinue
<1>2. /\ registry' \in Registry /\ Len(registry') = Len(registry)
      /\ Listed(registry') = Listed(registry)
      /\ \A id \in ObjectIDs(registry) : registry'[id + 1] = Saved(registry[id + 1])
  BY <1>1, Restored
<1>3. ASSUME NEW id \in Listed(registry')
      PROVE  id \in Listed(registry) /\ registry'[id + 1].position = registry[id + 1].position
  <2>1. id \in ObjectIDs(registry) /\ registry[id + 1].written
    BY <1>2, <1>3 DEF Listed, DirtyIDs
  <2>2. registry[id + 1] \in ObjectWriteInformation
    BY <1>1, <2>1, EntryType
  <2>. QED  BY <1>2, <2>1, <2>2, SavedEntry
<1>4. XrefEntriesPointAtHeaders'
  BY <1>1, <1>3, EntriesStay DEF ShutdownAndContinue
<1>5. StreamsStarted'
  BY DEF StreamsStarted, ShutdownAndContinue
<1>6. dictionaryStack' \in Seq(Dictionary)
  BY EmptySeq DEF ShutdownAndContinue
<1>7. keysStack' \in Seq(Nat)
  BY EmptySeq DEF ShutdownAndContinue
<1>8. /\ streams' \subseteq Stream /\ pauseLevel' \in Int /\ helperAttached' \in BOOLEAN
      /\ UNCHANGED <<file, compressStreams, isEncrypted, xrefStatus, original, open>>
  <2>1. streams' = {} /\ pauseLevel' = 0 /\ helperAttached' = FALSE
    BY DEF ShutdownAndContinue
  <2>2. UNCHANGED <<file, compressStreams, isEncrypted, xrefStatus, original, open>>
    BY DEF ShutdownAndContinue
  <2>3. streams' \subseteq Stream
    BY <2>1
  <2>4. pauseLevel' \in Int
    BY <2>1
  <2>5. helperAttached' \in BOOLEAN
    BY <2>1
  <2>. QED  BY <2>2, <2>3, <2>4, <2>5
<1>9. restarts' \in Nat
  BY <1>1 DEF ShutdownAndContinue, TypeOK
<1>10. TypeOK'
  BY <1>1, <1>2, <1>6, <1>7, <1>8, <1>9 DEF TypeOK, Registry
<1>. QED  BY <1>4, <1>5, <1>10 DEF IInv
-----------------------------------------------------------------------------
\* Every step keeps the invariant.
LEMMA NextKeeps == IInv /\ [Next]_vars => IInv'
<1>. SUFFICES ASSUME IInv, [Next]_vars PROVE IInv'
  OBVIOUS
<1>1. GetObjectsCount(registry) \in Nat
  BY LenProperties DEF IInv, TypeOK, GetObjectsCount
<1>2. CASE AllocateNewObject
  BY <1>2, AllocateNewObjectStep
<1>3. CASE StartNewIndirectObject
  BY <1>3, StartObjectStep
<1>4. CASE \E id \in 0 .. GetObjectsCount(registry) :
             StartNewIndirectObjectWithID(id) \/ StartModifiedIndirectObject(id)
  BY <1>4, StartObjectStep
<1>5. CASE \E id \in 0 .. GetObjectsCount(registry) : DeleteAnObject(id)
  BY <1>1, <1>5, DeleteAnObjectStep
<1>6. CASE EndIndirectObject
  BY <1>6, EndIndirectObjectStep
<1>7. CASE \/ \E value \in BOOLEAN : SetCompressStreams(value)
           \/ WriteXrefTable \/ UNCHANGED vars
  BY <1>7, SettingsStep
<1>8. CASE StartDictionary
  BY <1>8, StartDictionaryStep
<1>9. CASE \E i \in 1 .. Len(dictionaryStack), key \in ClientKeys : WriteKey(i, key)
  BY <1>9, WriteKeyStep
<1>10. CASE EndDictionary
  BY <1>10, EndDictionaryStep
<1>11. CASE \E i \in 0 .. Len(dictionaryStack), compressed \in BOOLEAN :
              StartStreamDuplicateKey(i, compressed) \/ StartStreamBadNesting(i, compressed)
  BY <1>11, StartStreamFailsStep
<1>12. CASE \E i \in 0 .. Len(dictionaryStack), compressed \in BOOLEAN :
              StartStream(i, compressed)
  BY <1>12, StartStreamStep
<1>13. CASE \E s \in streams : WriteStreamData(s)
  BY <1>13, WriteStreamDataStep
<1>14. CASE \E s \in streams : EndPDFStream(s)
  BY <1>14, EndPDFStreamStep
<1>15. CASE ShutdownAndContinue
  BY <1>15, ShutdownAndContinueStep
<1>. QED  BY <1>2, <1>3, <1>4, <1>5, <1>6, <1>7, <1>8, <1>9, <1>10, <1>11, <1>12, <1>13,
             <1>14, <1>15 DEF Next

\* The invariant holds in every state.
LEMMA Invariance == Spec => []IInv
BY InitHolds, NextKeeps, PTL DEF Spec

\* The variables of every run of an ObjectsContext hold what the code's types
\* allow, however the client calls it: in particular no length is negative.
THEOREM TypeCorrect == Spec => []TypeOK
<1>1. IInv => TypeOK
  BY DEF IInv
<1>. QED  BY <1>1, Invariance, PTL

\* Whatever a client calls in whatever order, with any number of objects, streams
\* and restarts, in a new or a modified file, the position the registry has for an
\* object that the new revision lists as in use is that of the object's header
\* (MarkObjectAsWritten, MarkObjectAsUpdated, EndPDFStream).
THEOREM EntriesCorrect == Spec => []XrefEntriesPointAtHeaders
<1>1. IInv => XrefEntriesPointAtHeaders
  BY DEF IInv
<1>. QED  BY <1>1, Invariance, PTL

\* Shutdown and ContinuePDF leave the xref table that is to be written, and the
\* number of the next object, as they are, from whatever state.
THEOREM RestartCorrect == Spec => RestartKeepsXref
<1>1. ASSUME IInv, Next, restarts' # restarts
      PROVE  XrefView(registry') = XrefView(registry) /\ Len(registry') = Len(registry)
  <2>1. registry' = WriteAndReadState(registry) /\ registry \in Registry
    <3>1. ShutdownAndContinue
      BY <1>1 DEF Next, AllocateNewObject, StartNewIndirectObject, WriteObjectHeader,
                  StartNewIndirectObjectWithID, StartModifiedIndirectObject, DeleteAnObject,
                  EndIndirectObject, SetCompressStreams, StartDictionary, WriteKey,
                  EndDictionary, StartStreamDuplicateKey, StartStreamBadNesting, StartStream,
                  WriteStreamData, EndPDFStream, WriteXrefTable, client
    <3>. QED  BY <1>1, <3>1 DEF ShutdownAndContinue, IInv, TypeOK, Registry
  <2>2. /\ Len(registry') = Len(registry) /\ DirtyIDs(registry') = DirtyIDs(registry)
        /\ \A id \in ObjectIDs(registry) : registry'[id + 1] = Saved(registry[id + 1])
    BY <2>1, Restored
  <2>3. ASSUME NEW id \in DirtyIDs(registry)
        PROVE  <<registry'[id + 1].type, registry'[id + 1].written,
                 registry'[id + 1].generation,
                 IF registry'[id + 1].written THEN registry'[id + 1].position ELSE 0>>
               = <<registry[id + 1].type, registry[id + 1].written,
                   registry[id + 1].generation,
                   IF registry[id + 1].written THEN registry[id + 1].position ELSE 0>>
    <3>1. id \in ObjectIDs(registry)
      BY DEF DirtyIDs
    <3>2. registry[id + 1] \in ObjectWriteInformation
      BY <2>1, <3>1, EntryType
    <3>. QED  BY <2>2, <3>1, <3>2, SavedEntry
  <2>4. XrefView(registry') = XrefView(registry)
    BY <2>2, <2>3 DEF XrefView
  <2>. QED  BY <2>2, <2>4
<1>2. IInv /\ [Next]_vars =>
        [restarts' # restarts =>
            XrefView(registry') = XrefView(registry) /\ Len(registry') = Len(registry)]_vars
  BY <1>1 DEF vars, client
<1>. QED  BY <1>2, Invariance, PTL DEF Spec, RestartKeepsXref

-----------------------------------------------------------------------------
(***************************************************************************)
(* What a stream leaves in the file: the length that is written after it   *)
(* measures it, whatever a client does; and, in an encrypted document of a *)
(* client that nests its calls, its data has the key of its own object.    *)
(*                                                                         *)
(* What else a client that nests its calls can rely on: a reader finds the *)
(* last version of each object, an update lists what changed and no more,  *)
(* and no length of a stream is left unwritten. All three need the         *)
(* registry to accept what it is told, so that positions must have at most *)
(* the digits of an xref row.                                              *)
(***************************************************************************)

\* The data of an open stream starts after the keyword that names its length object.
StreamsAt ==
    \A s \in streams :
        /\ s.start \in 1 .. Len(file)
        /\ file[s.start].kind = "stream" /\ file[s.start].val = s.extent

Measured(k) ==
    \E i \in 1 .. k, j \in 1 .. k :
        /\ file[i].kind = "stream" /\ file[i].val = file[k].ref
        /\ file[j].kind = "endstream" /\ file[j].val = file[k].ref
        /\ file[k].val = j - i - 1

LInv == StreamsAt /\ LengthObjectsMeasureStreams

-----------------------------------------------------------------------------
(***************************************************************************)
(* The lengths.                                                            *)
(***************************************************************************)

\* What was measured stays so, and streams that are open stay where they are.
LEMMA LengthsStay ==
    ASSUME TypeOK, LInv, NEW tokens \in Seq(Token), file' = file \o tokens
    PROVE  /\ \A s \in streams : /\ s.start \in 1 .. Len(file')
                                 /\ file'[s.start].kind = "stream"
                                 /\ file'[s.start].val = s.extent
           /\ \A k \in 1 .. Len(file) : file'[k].kind = "length" => Measured(k)'
<1>1. /\ Len(file') = Len(file) + Len(tokens) /\ Len(file) \in Nat /\ Len(tokens) \in Nat
      /\ \A k \in 1 .. Len(file) : file'[k] = file[k]
  BY FileGrows
<1>2. ASSUME NEW k \in 1 .. Len(file), file'[k].kind = "length"
      PROVE  Measured(k)'
  <2>1. PICK i \in 1 .. k, j \in 1 .. k :
          /\ file[i].kind = "stream" /\ file[i].val = file[k].ref
          /\ file[j].kind = "endstream" /\ file[j].val = file[k].ref
          /\ file[k].val = j - i - 1
    BY <1>1, <1>2 DEF LInv, LengthObjectsMeasureStreams
  <2>2. i \in 1 .. Len(file) /\ j \in 1 .. Len(file)
    BY <1>1
  <2>. QED  BY <1>1, <2>1, <2>2 DEF Measured
<1>3. ASSUME NEW s \in streams
      PROVE  /\ s.start \in 1 .. Len(file') /\ file'[s.start].kind = "stream"
             /\ file'[s.start].val = s.extent
  <2>1. s.start \in 1 .. Len(file) /\ file[s.start].kind = "stream"
        /\ file[s.start].val = s.extent
    BY DEF LInv, StreamsAt
  <2>. QED  BY <1>1, <2>1
<1>. QED  BY <1>2, <1>3

\* A step that writes no length.
LEMMA NoLengthWritten ==
    ASSUME TypeOK, LInv, NEW tokens \in Seq(Token), file' = file \o tokens,
           \A k \in 1 .. Len(tokens) : tokens[k].kind # "length"
    PROVE  LengthObjectsMeasureStreams'
<1>1. /\ Len(file') = Len(file) + Len(tokens) /\ Len(file) \in Nat /\ Len(tokens) \in Nat
      /\ \A k \in 1 .. Len(tokens) : file'[Len(file) + k] = tokens[k]
  BY FileGrows
<1>2. ASSUME NEW k \in 1 .. Len(file'), file'[k].kind = "length"
      PROVE  Measured(k)'
  <2>1. CASE k <= Len(file)
    BY <1>1, <1>2, <2>1, LengthsStay
  <2>2. CASE ~(k <= Len(file))
    <3>1. k - Len(file) \in 1 .. Len(tokens) /\ k = Len(file) + (k - Len(file))
      BY <1>1, <2>2
    <3>2. file'[k] = tokens[k - Len(file)]
      BY <1>1, <3>1
    <3>. QED  BY <1>2, <3>1, <3>2
  <2>. QED  BY <2>1, <2>2
<1>. QED  BY <1>2 DEF LengthObjectsMeasureStreams, Measured

\* And starts no stream: one that holds data back has the start and the length object
\* it had.
LEMMA LengthsQuiet ==
    ASSUME TypeOK, LInv, NEW tokens \in Seq(Token), file' = file \o tokens,
           \A k \in 1 .. Len(tokens) : tokens[k].kind # "length",
           \A s \in streams' : \E t \in streams : s.start = t.start /\ s.extent = t.extent
    PROVE  LInv'
<1>1. StreamsAt'
  BY LengthsStay DEF StreamsAt
<1>. QED  BY <1>1, NoLengthWritten DEF LInv

\* A step that writes nothing.
LEMMA LengthsUnwritten ==
    ASSUME TypeOK, LInv, UNCHANGED file,
           \A s \in streams' : \E t \in streams : s.start = t.start /\ s.extent = t.extent
    PROVE  LInv'
<1>1. <<>> \in Seq(Token) /\ file' = file \o <<>> /\ \A k \in 1 .. Len(<<>>) : FALSE
  BY ConcatEmptySeq, EmptySeq DEF TypeOK
<1>. QED  BY <1>1, LengthsQuiet

\* A step that writes one token, which is no length.
LEMMA LengthsOne ==
    ASSUME TypeOK, LInv, NEW token \in Token, Emit(<<token>>), token.kind # "length",
           streams' \subseteq streams
    PROVE  LInv'
<1>1. <<token>> \in Seq(Token) /\ file' = file \o <<token>>
      /\ \A k \in 1 .. Len(<<token>>) : <<token>>[k].kind # "length"
  BY DEF Emit
<1>. QED  BY <1>1, LengthsQuiet

\* An object's header.
LEMMA LengthsHeader ==
    ASSUME TypeOK, LInv, NEW id \in Nat, WriteObjectHeader(id)
    PROVE  LInv'
<1>1. Tk("obj", id, 0) \in Token /\ Tk("obj", id, 0).kind # "length"
  BY TokenTypes DEF TokenKinds, Tk
<1>. QED  BY <1>1, LengthsOne DEF WriteObjectHeader

\* The steps that write a token or none and start no stream.
LEMMA LengthsOrdinary ==
    ASSUME IInv, LInv,
           \/ AllocateNewObject \/ StartNewIndirectObject \/ EndIndirectObject
           \/ \E id \in Nat : \/ StartNewIndirectObjectWithID(id)
                              \/ StartModifiedIndirectObject(id)
                              \/ DeleteAnObject(id)
           \/ \E value \in BOOLEAN : SetCompressStreams(value)
           \/ StartDictionary \/ EndDictionary
           \/ \E i \in Nat, key \in ClientKeys : WriteKey(i, key)
           \/ \E i \in Nat, compressed \in BOOLEAN :
                 StartStreamDuplicateKey(i, compressed) \/ StartStreamBadNesting(i, compressed)
           \/ \E s \in streams : WriteStreamData(s)
           \/ ShutdownAndContinue \/ WriteXrefTable \/ UNCHANGED vars
    PROVE  LInv'
<1>1. TypeOK
  BY DEF IInv
<1>2. ASSUME UNCHANGED file, streams' \subseteq streams
      PROVE  LInv'
  BY <1>1, <1>2, LengthsUnwritten
<1>3. CASE \/ AllocateNewObject \/ ShutdownAndContinue \/ WriteXrefTable \/ UNCHANGED vars
           \/ \E id \in Nat : DeleteAnObject(id)
           \/ \E value \in BOOLEAN : SetCompressStreams(value)
           \/ \E i \in Nat, key \in ClientKeys : WriteKey(i, key)
           \/ \E i \in Nat, compressed \in BOOLEAN :
                 StartStreamDuplicateKey(i, compressed) \/ StartStreamBadNesting(i, compressed)
  BY <1>2, <1>3 DEF AllocateNewObject, ShutdownAndContinue, WriteXrefTable, vars, DeleteAnObject,
     SetCompressStreams, WriteKey, StartStreamDuplicateKey, StartStreamBadNesting
<1>4. CASE \/ StartNewIndirectObject
           \/ \E id \in Nat : StartNewIndirectObjectWithID(id) \/ StartModifiedIndirectObject(id)
  <2>1. GetObjectsCount(registry) \in Nat
    BY <1>1, LenProperties DEF TypeOK, GetObjectsCount
  <2>. QED  BY <1>1, <1>4, <2>1, LengthsHeader
            DEF StartNewIndirectObject, StartNewIndirectObjectWithID, StartModifiedIndirectObject
<1>5. CASE EndIndirectObject \/ StartDictionary \/ EndDictionary
  <2>1. \A kind \in {"endobj", "<<", ">>"} :
           Tk(kind, 0, 0) \in Token /\ Tk(kind, 0, 0).kind # "length"
    BY TokenTypes DEF TokenKinds, Tk
  <2>. QED  BY <1>1, <1>5, <2>1, LengthsOne DEF EndIndirectObject, StartDictionary, EndDictionary
<1>6. ASSUME NEW s \in streams, WriteStreamData(s)
      PROVE  LInv'
  <2>1. s \in Stream
    BY <1>1 DEF TypeOK
  <2>2. CASE Emit(<<Tk("data", s.key, s.extent)>>) /\ UNCHANGED streams
    <3>1. Tk("data", s.key, s.extent) \in Token /\ Tk("data", s.key, s.extent).kind # "length"
      BY <2>1, TokenTypes DEF TokenKinds, Tk, Stream
    <3>. QED  BY <1>1, <2>2, <3>1, LengthsOne
  <2>3. CASE streams' = (streams \ {s}) \cup {[s EXCEPT !.pending = 1]} /\ UNCHANGED file
    <3>1. [s EXCEPT !.pending = 1].start = s.start /\ [s EXCEPT !.pending = 1].extent = s.extent
      BY <2>1 DEF Stream
    <3>2. \A u \in streams' : \E t \in streams : u.start = t.start /\ u.extent = t.extent
      BY <2>3, <3>1
    <3>. QED  BY <1>1, <2>3, <3>2, LengthsUnwritten
  <2>. QED  BY <1>6, <2>2, <2>3 DEF WriteStreamData
<1>. QED  BY <1>3, <1>4, <1>5, <1>6

\* Elements of short sequences.
LEMMA Pairs ==
    ASSUME NEW S, NEW a \in S, NEW b \in S
    PROVE  <<a, b>> \in Seq(S) /\ Len(<<a, b>>) = 2 /\ <<a, b>>[1] = a /\ <<a, b>>[2] = b
OBVIOUS

LEMMA Triples ==
    ASSUME NEW S, NEW a \in S, NEW b \in S, NEW c \in S
    PROVE  /\ <<a, b, c>> \in Seq(S) /\ Len(<<a, b, c>>) = 3
           /\ <<a, b, c>>[1] = a /\ <<a, b, c>>[2] = b /\ <<a, b, c>>[3] = c
OBVIOUS

\* One element before two.
LEMMA OneAndTwo ==
    ASSUME NEW S, NEW a \in S, NEW b \in S, NEW c \in S
    PROVE  /\ <<a>> \o <<b, c>> \in Seq(S) /\ Len(<<a>> \o <<b, c>>) = 3
           /\ (<<a>> \o <<b, c>>)[1] = a /\ (<<a>> \o <<b, c>>)[2] = b
           /\ (<<a>> \o <<b, c>>)[3] = c
<1>1. <<a>> \in Seq(S) /\ Len(<<a>>) = 1 /\ <<a>>[1] = a
  OBVIOUS
<1>2. <<b, c>> \in Seq(S) /\ Len(<<b, c>>) = 2 /\ <<b, c>>[1] = b /\ <<b, c>>[2] = c
  BY Pairs
<1> DEFINE s == <<a>>
           t == <<b, c>>
<1>3. s \in Seq(S) /\ Len(s) = 1 /\ t \in Seq(S) /\ Len(t) = 2
  BY <1>1, <1>2
<1> HIDE DEF s, t
<1>4. /\ s \o t \in Seq(S) /\ Len(s \o t) = Len(s) + Len(t)
      /\ \A k \in 1 .. Len(s) + Len(t) : (s \o t)[k] = IF k <= Len(s) THEN s[k] ELSE t[k - Len(s)]
  BY <1>3, ConcatProperties
<1>5. Len(s \o t) = 3 /\ (s \o t)[1] = s[1] /\ (s \o t)[2] = t[2 - 1] /\ (s \o t)[3] = t[3 - 1]
  BY <1>3, <1>4
<1>6. 2 - 1 = 1 /\ 3 - 1 = 2
  OBVIOUS
<1>. QED  BY <1>1, <1>2, <1>4, <1>5, <1>6 DEF s, t

LEMMA Fields ==
    \A kind, ref, val : /\ Tk(kind, ref, val).kind = kind
                        /\ Tk(kind, ref, val).ref = ref /\ Tk(kind, ref, val).val = val
BY DEF Tk

\* The tokens with which a stream starts.
LEMMA StartTokens ==
    ASSUME NEW i \in Nat, NEW key \in Nat, NEW extent \in Nat
    PROVE  LET tokens == OwnOpening(i) \o <<Tk(">>", 0, 0), Tk("stream", key, extent)>>
           IN  /\ tokens \in Seq(Token) /\ Len(tokens) \in 2 .. 3
               /\ tokens[Len(tokens)] = Tk("stream", key, extent)
               /\ \A k \in 1 .. Len(tokens) :
                     k # Len(tokens) => tokens[k].kind \in {"<<", ">>"}
<1> DEFINE one == Tk("<<", 0, 0)
           two == Tk(">>", 0, 0)
           three == Tk("stream", key, extent)
           tokens == OwnOpening(i) \o <<two, three>>
<1>1. one \in Token /\ two \in Token /\ three \in Token
  BY TokenTypes DEF TokenKinds
<1>2. one.kind = "<<" /\ two.kind = ">>"
  BY DEF Tk
<1> HIDE DEF one, two, three
<1>3. /\ tokens \in Seq(Token) /\ Len(tokens) \in 2 .. 3 /\ tokens[Len(tokens)] = three
      /\ \A k \in 1 .. Len(tokens) : k # Len(tokens) => tokens[k].kind \in {"<<", ">>"}
  <2>1. CASE i = 0
    <3>1. tokens = <<one>> \o <<two, three>>
      BY <2>1 DEF OwnOpening, one
    <3>2. /\ tokens \in Seq(Token) /\ Len(tokens) = 3
          /\ tokens[1] = one /\ tokens[2] = two /\ tokens[3] = three
      <4> HIDE DEF tokens
      <4>. QED  BY <1>1, <3>1, OneAndTwo
    <3> HIDE DEF tokens
    <3>3. \A k \in 1 .. Len(tokens) : k # Len(tokens) => k \in {1, 2}
      BY <3>2
    <3>. QED  BY <1>2, <3>2, <3>3
  <2>2. CASE i # 0
    <3>1. tokens = <<>> \o <<two, three>>
      BY <2>2 DEF OwnOpening
    <3>2. <<two, three>> \in Seq(Token) /\ Len(<<two, three>>) = 2
          /\ <<two, three>>[1] = two /\ <<two, three>>[2] = three
      BY <1>1, Pairs
    <3>3. tokens = <<two, three>>
      BY <3>1, <3>2, ConcatEmptySeq
    <3> HIDE DEF tokens
    <3>4. \A k \in 1 .. Len(tokens) : k # Len(tokens) => k = 1
      BY <3>2, <3>3
    <3>. QED  BY <1>2, <3>2, <3>3, <3>4
  <2>. QED  BY <2>1, <2>2
<1>. QED  BY <1>3 DEF two, three

\* The tokens with which a stream ends.
EndTokens(s) ==
    (HeldData(s) \o <<Tk("endstream", 0, s.extent), Tk("endobj", 0, 0)>>)
        \o <<Tk("obj", s.extent, 0), Tk("length", s.extent, StreamLength(s)),
             Tk("endobj", 0, 0)>>

LEMMA EndTokensAre ==
    ASSUME NEW s \in Stream, StreamLength(s) \in Nat
    PROVE  /\ EndTokens(s) \in Seq(Token) /\ Len(EndTokens(s)) = s.pending + 5
           /\ \A k \in 1 .. s.pending : EndTokens(s)[k] = Tk("data", s.key, s.extent)
           /\ EndTokens(s)[s.pending + 1] = Tk("endstream", 0, s.extent)
           /\ EndTokens(s)[s.pending + 2] = Tk("endobj", 0, 0)
           /\ EndTokens(s)[s.pending + 3] = Tk("obj", s.extent, 0)
           /\ EndTokens(s)[s.pending + 4] = Tk("length", s.extent, StreamLength(s))
           /\ EndTokens(s)[s.pending + 5] = Tk("endobj", 0, 0)
<1> DEFINE held == HeldData(s)
           two == <<Tk("endstream", 0, s.extent), Tk("endobj", 0, 0)>>
           three == <<Tk("obj", s.extent, 0), Tk("length", s.extent, StreamLength(s)),
                      Tk("endobj", 0, 0)>>
<1>1. s.pending \in Nat /\ s.extent \in Nat /\ s.key \in Nat
  BY DEF Stream
<1>2. held \in Seq(Token) /\ Len(held) = s.pending
      /\ \A k \in 1 .. s.pending : held[k] = Tk("data", s.key, s.extent)
  BY HeldTypes DEF HeldData
<1>3. two \in Seq(Token) /\ Len(two) = 2
  BY <1>1, TokenTypes, ShortSequences DEF TokenKinds
<1>4. three \in Seq(Token) /\ Len(three) = 3
  BY <1>1, TokenTypes, ShortSequences DEF TokenKinds
<1>5. /\ held \o two \in Seq(Token) /\ Len(held \o two) = s.pending + 2
      /\ \A k \in 1 .. s.pending + 2 :
            (held \o two)[k] = IF k <= s.pending THEN held[k] ELSE two[k - s.pending]
  <2> HIDE DEF held, two
  <2>1. /\ held \o two \in Seq(Token) /\ Len(held \o two) = Len(held) + Len(two)
        /\ \A k \in 1 .. Len(held) + Len(two) :
              (held \o two)[k] = IF k <= Len(held) THEN held[k] ELSE two[k - Len(held)]
    BY <1>2, <1>3, ConcatProperties
  <2>2. Len(held) + Len(two) = s.pending + 2
    BY <1>2, <1>3
  <2>. QED  BY <1>2, <2>1, <2>2
<1>6. /\ EndTokens(s) \in Seq(Token) /\ Len(EndTokens(s)) = s.pending + 5
      /\ \A k \in 1 .. s.pending + 5 :
            EndTokens(s)[k] = IF k <= s.pending + 2 THEN (held \o two)[k]
                              ELSE three[k - (s.pending + 2)]
  <2>1. EndTokens(s) = (held \o two) \o three
    BY DEF EndTokens
  <2> DEFINE begin == held \o two
  <2>2. begin \in Seq(Token) /\ Len(begin) = s.pending + 2 /\ EndTokens(s) = begin \o three
    BY <1>5, <2>1
  <2> HIDE DEF begin, three
  <2>3. /\ begin \o three \in Seq(Token) /\ Len(begin \o three) = Len(begin) + Len(three)
        /\ \A k \in 1 .. Len(begin) + Len(three) :
              (begin \o three)[k] = IF k <= Len(begin) THEN begin[k] ELSE three[k - Len(begin)]
    BY <1>4, <2>2, ConcatProperties
  <2>4. Len(begin) + Len(three) = s.pending + 5
    BY <1>1, <1>4, <2>2
  <2>. QED  BY <2>2, <2>3, <2>4 DEF begin
<1>7. \A k \in 1 .. s.pending : EndTokens(s)[k] = Tk("data", s.key, s.extent)
  <2> HIDE DEF held, two, three
  <2>. QED  BY <1>1, <1>2, <1>5, <1>6
<1>8. /\ EndTokens(s)[s.pending + 1] = two[1] /\ EndTokens(s)[s.pending + 2] = two[2]
      /\ EndTokens(s)[s.pending + 3] = three[1] /\ EndTokens(s)[s.pending + 4] = three[2]
      /\ EndTokens(s)[s.pending + 5] = three[3]
  <2> DEFINE p == s.pending
  <2>1. /\ (p + 1) - p = 1 /\ (p + 2) - p = 2
        /\ (p + 3) - (p + 2) = 1 /\ (p + 4) - (p + 2) = 2 /\ (p + 5) - (p + 2) = 3
    BY <1>1
  <2> HIDE DEF held, two, three
  <2>2. /\ p + 1 \in 1 .. p + 2 /\ p + 2 \in 1 .. p + 2
        /\ ~(p + 1 <= p) /\ ~(p + 2 <= p) /\ ~(p + 3 <= p + 2) /\ ~(p + 4 <= p + 2)
        /\ ~(p + 5 <= p + 2)
    BY <1>1
  <2>3. (held \o two)[p + 1] = two[(p + 1) - p] /\ (held \o two)[p + 2] = two[(p + 2) - p]
    BY <1>5, <2>2
  <2>4. /\ EndTokens(s)[p + 1] = two[(p + 1) - p] /\ EndTokens(s)[p + 2] = two[(p + 2) - p]
        /\ EndTokens(s)[p + 3] = three[(p + 3) - (p + 2)]
        /\ EndTokens(s)[p + 4] = three[(p + 4) - (p + 2)]
        /\ EndTokens(s)[p + 5] = three[(p + 5) - (p + 2)]
    <3>1. /\ p + 1 <= p + 2 /\ p + 2 <= p + 2
          /\ p + 1 \in 1 .. p + 5 /\ p + 2 \in 1 .. p + 5 /\ p + 3 \in 1 .. p + 5
          /\ p + 4 \in 1 .. p + 5 /\ p + 5 \in 1 .. p + 5
      BY <1>1
    <3>. QED  BY <1>6, <2>2, <2>3, <3>1
  <2>. QED  BY <2>1, <2>4
<1>. QED  BY <1>6, <1>7, <1>8

\* A stream starts with the keyword that names its length object.
LEMMA LengthsStartStream ==
    ASSUME IInv, LInv, NEW i \in Nat, NEW compressed \in BOOLEAN, StartStream(i, compressed)
    PROVE  LInv'
<1> DEFINE extent == GetObjectsCount(registry)
           tokens == OwnOpening(i) \o <<Tk(">>", 0, 0), Tk("stream", StreamKey, extent)>>
<1>1. TypeOK /\ StreamKey \in Nat /\ extent \in Nat
  BY KeysTypes, LenProperties DEF IInv, TypeOK, GetObjectsCount
<1>2. /\ tokens \in Seq(Token) /\ Len(tokens) \in 2 .. 3
      /\ tokens[Len(tokens)] = Tk("stream", StreamKey, extent)
      /\ \A k \in 1 .. Len(tokens) : k # Len(tokens) => tokens[k].kind \in {"<<", ">>"}
  BY <1>1, StartTokens
<1>3. Tk("stream", StreamKey, extent).kind = "stream"
      /\ Tk("stream", StreamKey, extent).val = extent
  BY DEF Tk
<1>4. PICK s \in streams' : /\ streams' = streams \cup {s}
                           /\ s.extent = extent /\ s.start = Len(file) + Len(tokens)
  <2> DEFINE s == [extent |-> extent, start |-> Len(file) + Len(tokens),
                   compressed |-> compressed, key |-> StreamKey, pending |-> 0]
  <2>1. streams' = streams \cup {s}
    BY DEF StartStream
  <2>2. s.extent = extent /\ s.start = Len(file) + Len(tokens)
    OBVIOUS
  <2> HIDE DEF s, tokens
  <2>. QED  BY <2>1, <2>2
<1>5. file' = file \o tokens
  BY DEF StartStream, Emit
<1> HIDE DEF tokens
<1>6. LengthObjectsMeasureStreams'
  <2>1. \A k \in 1 .. Len(tokens) : tokens[k].kind # "length"
    BY <1>2, <1>3
  <2>. QED  BY <1>1, <1>2, <1>5, <2>1, NoLengthWritten
<1>7. s.start \in 1 .. Len(file') /\ file'[s.start] = tokens[Len(tokens)]
  <2>1. Len(tokens) \in 1 .. Len(tokens) /\ Len(tokens) >= 1
    BY <1>2
  <2>. QED  BY <1>1, <1>2, <1>4, <1>5, <2>1, FileGrows
<1>8. StreamsAt'
  BY <1>1, <1>2, <1>3, <1>4, <1>5, <1>7, LengthsStay DEF StreamsAt
<1>. QED  BY <1>6, <1>8 DEF LInv

\* The length that is written is that of what lies between the stream's keywords.
LEMMA LengthsEndStream ==
    ASSUME IInv, LInv, NEW s \in streams, EndPDFStream(s)
    PROVE  LInv'
<1> DEFINE p == s.pending
<1>0. PICK n : n = Len(file)
  OBVIOUS
<1>1. TypeOK /\ s \in Stream /\ p \in Nat /\ s.start \in Nat /\ s.extent \in Nat
      /\ n \in Nat /\ s.start <= n
  BY <1>0, LenProperties DEF IInv, TypeOK, Stream, StreamsStarted
<1>2. StreamLength(s) = n + p - s.start /\ StreamLength(s) \in Nat
  BY <1>0, <1>1 DEF StreamLength
<1>3. EndTokens(s) \in Seq(Token) /\ Len(EndTokens(s)) = p + 5
  BY <1>1, <1>2, EndTokensAre
<1>4. file' = file \o EndTokens(s)
  <2>1. HeldData(s) \o <<Tk("endstream", 0, s.extent), Tk("endobj", 0, 0)>> \in Seq(Token)
    <3>1. Tk("endstream", 0, s.extent) \in Token /\ Tk("endobj", 0, 0) \in Token
      BY <1>1, TokenTypes DEF TokenKinds
    <3>2. <<Tk("endstream", 0, s.extent), Tk("endobj", 0, 0)>> \in Seq(Token)
      BY <3>1, Pairs
    <3>. QED  BY <1>1, <3>2, HeldTypes, ConcatProperties
  <2>. QED  BY <2>1 DEF EndPDFStream, Emit, EndTokens
<1>5. /\ Len(file') = n + (p + 5)
      /\ \A k \in 1 .. n : file'[k] = file[k]
      /\ \A k \in 1 .. p + 5 : file'[n + k] = EndTokens(s)[k]
  BY <1>0, <1>1, <1>3, <1>4, FileGrows
<1>6. /\ \A k \in 1 .. p : EndTokens(s)[k].kind = "data"
      /\ EndTokens(s)[p + 1].kind = "endstream" /\ EndTokens(s)[p + 1].val = s.extent
      /\ EndTokens(s)[p + 2].kind = "endobj" /\ EndTokens(s)[p + 3].kind = "obj"
      /\ EndTokens(s)[p + 4].kind = "length" /\ EndTokens(s)[p + 4].ref = s.extent
      /\ EndTokens(s)[p + 4].val = n + p - s.start
      /\ EndTokens(s)[p + 5].kind = "endobj"
  <2>1. /\ \A k \in 1 .. p : EndTokens(s)[k] = Tk("data", s.key, s.extent)
        /\ EndTokens(s)[p + 1] = Tk("endstream", 0, s.extent)
        /\ EndTokens(s)[p + 2] = Tk("endobj", 0, 0)
        /\ EndTokens(s)[p + 3] = Tk("obj", s.extent, 0)
        /\ EndTokens(s)[p + 4] = Tk("length", s.extent, StreamLength(s))
        /\ EndTokens(s)[p + 5] = Tk("endobj", 0, 0)
    BY <1>1, <1>2, EndTokensAre
  <2>. QED  BY <1>2, <2>1, Fields
<1>7. ASSUME NEW k \in 1 .. p + 5, EndTokens(s)[k].kind = "length"
      PROVE  k = p + 4
  <2>1. k \in 1 .. p \/ k = p + 1 \/ k = p + 2 \/ k = p + 3 \/ k = p + 4 \/ k = p + 5
    BY <1>1
  <2>. QED  BY <1>6, <1>7, <2>1
<1>8. Measured(n + (p + 4))'
  <2>1. s.start \in 1 .. n /\ file[s.start].kind = "stream" /\ file[s.start].val = s.extent
    BY <1>0 DEF LInv, StreamsAt
  <2>2. p + 1 \in 1 .. p + 5 /\ p + 4 \in 1 .. p + 5
    BY <1>1
  <2>3. /\ file'[s.start].kind = "stream" /\ file'[s.start].val = s.extent
        /\ file'[n + (p + 1)].kind = "endstream" /\ file'[n + (p + 1)].val = s.extent
        /\ file'[n + (p + 4)].ref = s.extent /\ file'[n + (p + 4)].val = n + p - s.start
    BY <1>5, <1>6, <2>1, <2>2
  <2>4. s.start \in 1 .. n + (p + 4) /\ n + (p + 1) \in 1 .. n + (p + 4)
        /\ n + p - s.start = (n + (p + 1)) - s.start - 1
    BY <1>1, <2>1
  <2>. QED  BY <2>3, <2>4 DEF Measured
<1>9. ASSUME NEW k \in 1 .. Len(file'), file'[k].kind = "length"
      PROVE  Measured(k)'
  <2>1. CASE k <= n
    <3>1. k \in 1 .. Len(file)
      BY <1>0, <1>1, <1>5, <2>1
    <3>. QED  BY <1>1, <1>3, <1>4, <1>9, <3>1, LengthsStay
  <2>2. CASE ~(k <= n)
    <3>1. k - n \in 1 .. p + 5 /\ k = n + (k - n)
      BY <1>1, <1>5, <2>2
    <3>2. file'[k] = EndTokens(s)[k - n]
      BY <1>5, <3>1
    <3>3. k - n = p + 4
      BY <1>7, <1>9, <3>1, <3>2
    <3>4. k = n + (p + 4)
      BY <1>1, <3>1, <3>3
    <3>. QED  BY <1>8, <3>4
  <2>. QED  BY <2>1, <2>2
<1>10. StreamsAt'
  <2>1. streams' \subseteq streams
    BY DEF EndPDFStream
  <2>. QED  BY <1>1, <1>3, <1>4, <2>1, LengthsStay DEF StreamsAt
<1>. QED  BY <1>9, <1>10 DEF LInv, LengthObjectsMeasureStreams, Measured

\* What a file begins with are no streams.
LEMMA OriginalTokens ==
    ASSUME Init
    PROVE  \A k \in 1 .. Len(file) : file[k].kind \in {"header", "obj", "filler"}
<1> DEFINE rest == [i \in 1 .. Len(original) |-> OriginalToken(original[i], i)]
           first == <<Tk("header", 0, 0)>>
<1>1. Len(original) \in Nat
  BY ContextAssumption, LenProperties DEF Init
<1>2. \A i \in 1 .. Len(original) : rest[i].kind \in {"obj", "filler"}
  BY DEF OriginalToken, Tk
<1>3. first[1].kind = "header" /\ Len(first) = 1
  BY DEF Tk
<1>4. \E S, T : first \in Seq(S) /\ rest \in Seq(T)
  <2>1. first \in Seq({Tk("header", 0, 0)})
    OBVIOUS
  <2>2. rest \in Seq({rest[i] : i \in 1 .. Len(original)})
    BY <1>1
  <2>. QED  BY <2>1, <2>2
<1>5. Len(rest) = Len(original) /\ file = first \o rest
  BY <1>1 DEF Init
<1> HIDE DEF first, rest
<1>6. PICK S : first \in Seq(S) /\ rest \in Seq(S)
  <2>1. PICK S, T : first \in Seq(S) /\ rest \in Seq(T)
    BY <1>4
  <2>2. first \in Seq(S \cup T) /\ rest \in Seq(S \cup T)
    BY <2>1
  <2>. QED  BY <2>2
<1>7. /\ Len(file) = 1 + Len(original)
      /\ \A k \in 1 .. 1 + Len(original) : file[k] = IF k <= 1 THEN first[k] ELSE rest[k - 1]
  BY <1>3, <1>5, <1>6, ConcatProperties
<1>8. ASSUME NEW k \in 1 .. Len(file)
      PROVE  file[k].kind \in {"header", "obj", "filler"}
  <2>1. k = 1 \/ (~(k <= 1) /\ k - 1 \in 1 .. Len(original))
    BY <1>1, <1>7
  <2>. QED  BY <1>2, <1>3, <1>7, <2>1
<1>. QED  BY <1>8

\* A new file, or one that is modified, has no lengths of the context's.
LEMMA LengthsInit == Init => LInv
<1>. SUFFICES ASSUME Init PROVE LInv
  OBVIOUS
<1>1. streams = {} /\ \A k \in 1 .. Len(file) : file[k].kind # "length"
  BY OriginalTokens DEF Init
<1>. QED  BY <1>1 DEF LInv, StreamsAt, LengthObjectsMeasureStreams

LEMMA LengthsNext == IInv /\ LInv /\ [Next]_vars => LInv'
<1>. SUFFICES ASSUME IInv, LInv, [Next]_vars PROVE LInv'
  OBVIOUS
<1>1. GetObjectsCount(registry) \in Nat /\ Len(dictionaryStack) \in Nat
  BY LenProperties DEF IInv, TypeOK, GetObjectsCount
<1>2. CASE \E i \in 0 .. Len(dictionaryStack), compressed \in BOOLEAN : StartStream(i, compressed)
  BY <1>1, <1>2, LengthsStartStream
<1>3. CASE \E s \in streams : EndPDFStream(s)
  BY <1>3, LengthsEndStream
<1>4. CASE ~(\/ \E i \in 0 .. Len(dictionaryStack), compressed \in BOOLEAN :
                    StartStream(i, compressed)
             \/ \E s \in streams : EndPDFStream(s))
  <2>1. \/ AllocateNewObject \/ StartNewIndirectObject \/ EndIndirectObject
        \/ \E id \in Nat : \/ StartNewIndirectObjectWithID(id)
                           \/ StartModifiedIndirectObject(id)
                           \/ DeleteAnObject(id)
        \/ \E value \in BOOLEAN : SetCompressStreams(value)
        \/ StartDictionary \/ EndDictionary
        \/ \E i \in Nat, key \in ClientKeys : WriteKey(i, key)
        \/ \E i \in Nat, compressed \in BOOLEAN :
              StartStreamDuplicateKey(i, compressed) \/ StartStreamBadNesting(i, compressed)
        \/ \E s \in streams : WriteStreamData(s)
        \/ ShutdownAndContinue \/ WriteXrefTable \/ UNCHANGED vars
    BY <1>1, <1>4 DEF Next
  <2>. QED  BY <2>1, LengthsOrdinary
<1>. QED  BY <1>2, <1>3, <1>4

\* However a client calls, with any number of streams that are open at a time, any data
\* that is held back, and over restarts, each length object holds what lies between the
\* keywords of the stream that names it (PDFStream::FinalizeStreamWrite).
THEOREM LengthsCorrect == Spec => []LengthObjectsMeasureStreams
<1>1. LInv => LengthObjectsMeasureStreams
  BY DEF LInv
<1>. QED  BY <1>1, LengthsInit, LengthsNext, Invariance, PTL DEF Spec

-----------------------------------------------------------------------------
(***************************************************************************)
(* The keys.                                                               *)
(***************************************************************************)

\* The header that was written last is the object's.
IsLastHeader(f, id) ==
    \E i \in 1 .. Len(f) :
        IsHeaderOf(f[i], id) /\ \A j \in i + 1 .. Len(f) : f[j].kind # "obj"

\* What the client has open of an object, from the outside in, before its stream.
IsInObject == open[1] = "obj" /\ \A k \in 2 .. Len(open) : open[k] = "<<"

NothingOpen == open = <<>> /\ keysStack = <<>> /\ pauseLevel = 0 /\ streams = {}

ObjectOpen ==
    /\ open # <<>> /\ IsInObject /\ pauseLevel = 0 /\ streams = {}
    /\ \E id \in Nat : keysStack = <<id>> /\ IsLastHeader(file, id)

StreamOpen ==
    /\ open = <<"obj", "stream">> /\ pauseLevel = 1
    /\ \E id \in Nat, s \in Stream :
          /\ keysStack = <<id>> /\ IsLastHeader(file, id)
          /\ streams = {s} /\ s.key = id

\* The helper is in step with what is open.
KInv ==
    isEncrypted => /\ helperAttached
                   /\ NothingOpen \/ ObjectOpen \/ StreamOpen
                   /\ StreamsUseOwnKey

\* Tokens that are encrypted have the key of the object whose header was written last.
LEMMA KeysStay ==
    ASSUME TypeOK, isEncrypted, StreamsUseOwnKey, NEW tokens \in Seq(Token),
           file' = file \o tokens,
           \A m \in 1 .. Len(tokens) : tokens[m].kind \in {"stream", "data"} =>
              /\ IsLastHeader(file, tokens[m].ref)
              /\ \A n \in 1 .. m - 1 : tokens[n].kind # "obj"
    PROVE  StreamsUseOwnKey'
<1>1. /\ Len(file') = Len(file) + Len(tokens) /\ Len(file) \in Nat /\ Len(tokens) \in Nat
      /\ \A k \in 1 .. Len(file) : file'[k] = file[k]
      /\ \A k \in 1 .. Len(tokens) : file'[Len(file) + k] = tokens[k]
  BY FileGrows
<1>2. ASSUME NEW k \in 1 .. Len(file'), file'[k].kind \in {"stream", "data"}
      PROVE  \E i \in 1 .. k - 1 :
                /\ IsHeaderOf(file'[i], file'[k].ref)
                /\ \A j \in i + 1 .. k - 1 : file'[j].kind # "obj"
  <2>1. CASE k <= Len(file)
    <3>1. k \in 1 .. Len(file) /\ file'[k] = file[k]
      BY <1>1, <2>1
    <3>2. PICK i \in 1 .. k - 1 : /\ IsHeaderOf(file[i], file[k].ref)
                                 /\ \A j \in i + 1 .. k - 1 : file[j].kind # "obj"
      BY <1>2, <3>1 DEF StreamsUseOwnKey
    <3>3. file'[i] = file[i] /\ \A j \in i + 1 .. k - 1 : file'[j] = file[j]
      BY <1>1, <3>1
    <3>. QED  BY <3>1, <3>2, <3>3
  <2>2. CASE ~(k <= Len(file))
    <3>1. PICK m \in 1 .. Len(tokens) : k = Len(file) + m
      <4>1. k - Len(file) \in 1 .. Len(tokens) /\ k = Len(file) + (k - Len(file))
        BY <1>1, <2>2
      <4>. QED  BY <4>1
    <3>2. file'[k] = tokens[m]
      BY <1>1, <3>1
    <3>3. PICK i \in 1 .. Len(file) :
             IsHeaderOf(file[i], tokens[m].ref) /\ \A j \in i + 1 .. Len(file) : file[j].kind # "obj"
      BY <1>2, <3>2 DEF IsLastHeader
    <3>4. i \in 1 .. k - 1 /\ IsHeaderOf(file'[i], file'[k].ref)
      BY <1>1, <3>1, <3>2, <3>3
    <3>5. ASSUME NEW j \in i + 1 .. k - 1
          PROVE  file'[j].kind # "obj"
      <4>1. CASE j <= Len(file)
        BY <1>1, <3>3, <4>1
      <4>2. CASE ~(j <= Len(file))
        <5>1. j - Len(file) \in 1 .. m - 1 /\ j - Len(file) \in 1 .. Len(tokens)
              /\ j = Len(file) + (j - Len(file))
          BY <1>1, <3>1, <3>3, <4>2
        <5>2. file'[j] = tokens[j - Len(file)]
          BY <1>1, <5>1
        <5>. QED  BY <1>2, <3>2, <5>1, <5>2
      <4>. QED  BY <4>1, <4>2
    <3>. QED  BY <3>4, <3>5
  <2>. QED  BY <2>1, <2>2
<1>. QED  BY <1>2 DEF StreamsUseOwnKey

\* Until another header is written.
LEMMA HeaderStaysLast ==
    ASSUME TypeOK, NEW id, IsLastHeader(file, id), NEW tokens \in Seq(Token),
           file' = file \o tokens, \A k \in 1 .. Len(tokens) : tokens[k].kind # "obj"
    PROVE  IsLastHeader(file', id)
<1>1. /\ Len(file') = Len(file) + Len(tokens) /\ Len(file) \in Nat /\ Len(tokens) \in Nat
      /\ \A k \in 1 .. Len(file) : file'[k] = file[k]
      /\ \A k \in 1 .. Len(tokens) : file'[Len(file) + k] = tokens[k]
  BY FileGrows
<1>2. PICK i \in 1 .. Len(file) :
         IsHeaderOf(file[i], id) /\ \A j \in i + 1 .. Len(file) : file[j].kind # "obj"
  BY DEF IsLastHeader
<1>3. i \in 1 .. Len(file') /\ IsHeaderOf(file'[i], id)
  BY <1>1, <1>2
<1>4. ASSUME NEW j \in i + 1 .. Len(file')
      PROVE  file'[j].kind # "obj"
  <2>1. CASE j <= Len(file)
    BY <1>1, <1>2, <2>1
  <2>2. CASE ~(j <= Len(file))
    <3>1. j - Len(file) \in 1 .. Len(tokens) /\ j = Len(file) + (j - Len(file))
      BY <1>1, <1>2, <2>2
    <3>2. file'[j] = tokens[j - Len(file)]
      BY <1>1, <3>1
    <3>. QED  BY <3>1, <3>2
  <2>. QED  BY <2>1, <2>2
<1>. QED  BY <1>3, <1>4 DEF IsLastHeader

\* The header is the last one when it has been written.
LEMMA HeaderIsLast ==
    ASSUME TypeOK, NEW id \in Nat, file' = file \o <<Tk("obj", id, 0)>>
    PROVE  IsLastHeader(file', id)
<1> DEFINE header == <<Tk("obj", id, 0)>>
<1>1. header \in Seq(Token) /\ Len(header) = 1 /\ IsHeaderOf(header[1], id)
  BY TokenTypes DEF TokenKinds, Tk, IsHeaderOf
<1> HIDE DEF header
<1>2. /\ Len(file') = Len(file) + 1 /\ Len(file) \in Nat
      /\ file'[Len(file) + 1] = header[1]
  <2>1. /\ Len(file') = Len(file) + Len(header) /\ Len(file) \in Nat
        /\ \A k \in 1 .. Len(header) : file'[Len(file) + k] = header[k]
    BY <1>1, FileGrows DEF header
  <2>. QED  BY <1>1, <2>1
<1>3. Len(file) + 1 \in 1 .. Len(file') /\ (Len(file) + 1) + 1 .. Len(file') = {}
  BY <1>2
<1>. QED  BY <1>1, <1>2, <1>3 DEF IsLastHeader

\* A step that leaves alone what the keys depend on.
LEMMA KeysQuiet ==
    ASSUME KInv, UNCHANGED <<file, streams, encryption, open>>
    PROVE  KInv'
BY DEF KInv, NothingOpen, ObjectOpen, IsInObject, StreamOpen, StreamsUseOwnKey, encryption

\* A token that starts no object and is not encrypted.
LEMMA KeysPlainToken ==
    ASSUME TypeOK, KInv, isEncrypted, NEW token \in Token, Emit(<<token>>),
           token.kind \notin {"obj", "stream", "data"}
    PROVE  StreamsUseOwnKey' /\ \A id : IsLastHeader(file, id) => IsLastHeader(file', id)
<1> DEFINE tokens == <<token>>
<1>1. tokens \in Seq(Token) /\ file' = file \o tokens
      /\ \A m \in 1 .. Len(tokens) : tokens[m].kind \notin {"obj", "stream", "data"}
  BY DEF Emit
<1> HIDE DEF tokens
<1>2. StreamsUseOwnKey'
  BY <1>1, KeysStay DEF KInv
<1>3. ASSUME NEW id, IsLastHeader(file, id) PROVE IsLastHeader(file', id)
  BY <1>1, <1>3, HeaderStaysLast
<1>. QED  BY <1>2, <1>3

\* The three ways to start an object push its key.
LEMMA KeysHeader ==
    ASSUME Disciplined, TypeOK, KInv, NEW id \in Nat, open = <<>>, WriteObjectHeader(id)
    PROVE  KInv'
<1>. SUFFICES ASSUME isEncrypted PROVE KInv'
  BY DEF KInv, WriteObjectHeader
<1>1. helperAttached /\ StreamsUseOwnKey /\ NothingOpen
  BY DEF KInv, ObjectOpen, StreamOpen
<1>2. keysStack' = <<id>>
  BY <1>1 DEF WriteObjectHeader, OnObjectStart, IsEncrypting, NothingOpen
<1>3. open' = <<"obj">>
  BY DEF WriteObjectHeader, Opened
<1>4. file' = file \o <<Tk("obj", id, 0)>>
  BY DEF WriteObjectHeader, Emit
<1>5. IsLastHeader(file', id)
  BY <1>4, HeaderIsLast
<1>6. StreamsUseOwnKey'
  <2> DEFINE tokens == <<Tk("obj", id, 0)>>
  <2>1. tokens \in Seq(Token) /\ \A m \in 1 .. Len(tokens) : tokens[m].kind = "obj"
    BY TokenTypes DEF TokenKinds, Tk
  <2> HIDE DEF tokens
  <2>2. file' = file \o tokens
    BY <1>4 DEF tokens
  <2>. QED  BY <1>1, <2>1, <2>2, KeysStay
<1>7. ObjectOpen'
  <2>1. IsInObject' /\ open' # <<>>
    BY <1>3 DEF IsInObject
  <2>2. pauseLevel' = 0 /\ streams' = {}
    BY <1>1 DEF WriteObjectHeader, NothingOpen
  <2>. QED  BY <1>2, <1>5, <2>1, <2>2 DEF ObjectOpen
<1>. QED  BY <1>1, <1>6, <1>7 DEF KInv, WriteObjectHeader

\* An object that ends pops it.
LEMMA KeysEndObject ==
    ASSUME Disciplined, TypeOK, KInv, EndIndirectObject
    PROVE  KInv'
<1>. SUFFICES ASSUME isEncrypted PROVE KInv'
  BY DEF KInv, EndIndirectObject
<1>1. open # <<>> /\ Last(open) = "obj" /\ open \in Seq(Parts) /\ Len(open) \in Nat
  BY LenProperties DEF EndIndirectObject, Nested, TypeOK, Parts
<1>2. Last(open) = open[Len(open)]
  BY DEF Last
<1>3. helperAttached /\ ObjectOpen
  <2>1. ASSUME StreamOpen PROVE FALSE
    <3>1. open = <<"obj", "stream">>
      BY <2>1 DEF StreamOpen
    <3>2. open[Len(open)] = "stream"
      BY <3>1
    <3>. QED  BY <1>1, <1>2, <3>2
  <2>. QED  BY <1>1, <2>1 DEF KInv, NothingOpen
<1>4. Len(open) = 1
  <2>1. Len(open) # 0
    BY <1>1, EmptySeq
  <2>2. PICK n \in Nat : n = Len(open)
    BY <1>1
  <2>3. n \notin 2 .. n
    BY <1>1, <1>2, <1>3, <2>2 DEF ObjectOpen, IsInObject
  <2>. QED  BY <2>1, <2>2, <2>3
<1>5. open' = <<>>
  <2>1. open' = SubSeq(open, 1, 0)
    BY <1>4 DEF EndIndirectObject, Closed
  <2>. QED  BY <1>1, <2>1
<1>6. PICK id \in Nat : keysStack = <<id>>
  BY <1>3 DEF ObjectOpen
<1>7. keysStack' = <<>>
  <2>1. keysStack' = Front(<<id>>)
    BY <1>3, <1>6 DEF EndIndirectObject, OnObjectEnd, IsEncrypting, PopKey, ObjectOpen
  <2>. QED  BY <2>1 DEF Front
<1>8. StreamsUseOwnKey'
  <2>1. Tk("endobj", 0, 0) \in Token /\ Tk("endobj", 0, 0).kind \notin {"obj", "stream", "data"}
    BY TokenTypes DEF TokenKinds, Tk
  <2>. QED  BY <2>1, KeysPlainToken DEF EndIndirectObject
<1>9. NothingOpen'
  BY <1>3, <1>5, <1>7 DEF EndIndirectObject, NothingOpen, ObjectOpen
<1>. QED  BY <1>3, <1>8, <1>9 DEF KInv, EndIndirectObject
\* A dictionary is opened inside it.
LEMMA KeysStartDictionary ==
    ASSUME Disciplined, TypeOK, KInv, StartDictionary
    PROVE  KInv'
<1>. SUFFICES ASSUME isEncrypted PROVE KInv'
  BY DEF KInv, StartDictionary, encryption
<1>1. open # <<>> /\ open[Len(open)] # "stream" /\ open \in Seq(Parts) /\ Len(open) \in Nat
  BY LenProperties DEF StartDictionary, Nested, InObject, Last, TypeOK, Parts
<1>2. helperAttached /\ ObjectOpen
  <2>1. ASSUME StreamOpen PROVE FALSE
    <3>1. open = <<"obj", "stream">>
      BY <2>1 DEF StreamOpen
    <3>2. open[Len(open)] = "stream"
      BY <3>1
    <3>. QED  BY <1>1, <3>2
  <2>. QED  BY <1>1, <2>1 DEF KInv, NothingOpen
<1>3. StreamsUseOwnKey' /\ \A id : IsLastHeader(file, id) => IsLastHeader(file', id)
  <2>1. Tk("<<", 0, 0) \in Token /\ Tk("<<", 0, 0).kind \notin {"obj", "stream", "data"}
    BY TokenTypes DEF TokenKinds, Tk
  <2>. QED  BY <2>1, KeysPlainToken DEF StartDictionary
<1>4. open' # <<>> /\ IsInObject'
  <2>1. "<<" \in Parts /\ open' = Append(open, "<<")
    BY DEF StartDictionary, Opened, Parts
  <2>2. /\ Len(open') = Len(open) + 1 /\ open'[Len(open) + 1] = "<<"
        /\ \A k \in 1 .. Len(open) : open'[k] = open[k]
    BY <1>1, <2>1, AppendProperties
  <2>3. PICK n \in Nat : n = Len(open)
    BY <1>1
  <2>4. n # 0
    BY <1>1, <2>3, EmptySeq
  <2>5. 1 \in 1 .. n /\ \A k \in 2 .. n + 1 : k = n + 1 \/ (k \in 1 .. n /\ k \in 2 .. n)
    BY <2>4
  <2>6. open'[1] = "obj" /\ \A k \in 2 .. n + 1 : open'[k] = "<<"
    BY <1>2, <2>2, <2>3, <2>5 DEF ObjectOpen, IsInObject
  <2>. QED  BY <2>2, <2>3, <2>6 DEF IsInObject
<1>5. ObjectOpen'
  BY <1>2, <1>3, <1>4 DEF ObjectOpen, StartDictionary, encryption
<1>. QED  BY <1>2, <1>3, <1>5 DEF KInv, StartDictionary, encryption

\* Or closed.
LEMMA KeysEndDictionary ==
    ASSUME Disciplined, TypeOK, KInv, EndDictionary
    PROVE  KInv'
<1>. SUFFICES ASSUME isEncrypted PROVE KInv'
  BY DEF KInv, EndDictionary, encryption
<1>1. open # <<>> /\ open[Len(open)] = "<<" /\ open \in Seq(Parts) /\ Len(open) \in Nat
  BY LenProperties DEF EndDictionary, Nested, Last, TypeOK, Parts
<1>2. helperAttached /\ ObjectOpen
  <2>1. ASSUME StreamOpen PROVE FALSE
    <3>1. open = <<"obj", "stream">>
      BY <2>1 DEF StreamOpen
    <3>2. open[Len(open)] = "stream"
      BY <3>1
    <3>. QED  BY <1>1, <3>2
  <2>. QED  BY <1>1, <2>1 DEF KInv, NothingOpen
<1>3. StreamsUseOwnKey' /\ \A id : IsLastHeader(file, id) => IsLastHeader(file', id)
  <2>1. Tk(">>", 0, 0) \in Token /\ Tk(">>", 0, 0).kind \notin {"obj", "stream", "data"}
    BY TokenTypes DEF TokenKinds, Tk
  <2>. QED  BY <2>1, KeysPlainToken DEF EndDictionary
<1>4. open' # <<>> /\ IsInObject'
  <2>1. PICK n \in Nat : n = Len(open)
    BY <1>1
  <2>2. open[1] = "obj" /\ \A k \in 2 .. n : open[k] = "<<"
    BY <1>2, <2>1 DEF ObjectOpen, IsInObject
  <2>3. n # 0 /\ n # 1
    BY <1>1, <2>1, <2>2, EmptySeq
  <2>4. open' = SubSeq(open, 1, n - 1)
    BY <2>1 DEF EndDictionary, Closed
  <2>5. n - 1 \in Int /\ 1 <= n - 1 /\ (n - 1) - 1 + 1 = n - 1
        /\ \A k \in 1 .. n - 1 : k \in 1 .. n /\ 1 + k - 1 = k
    BY <2>3
  <2>6. \A k \in 1 .. n - 1 : open[k] \in Parts
    BY <1>1, <2>1, <2>5, ElementOfSeq
  <2>7. Len(open') = n - 1 /\ \A k \in 1 .. n - 1 : open'[k] = open[k]
    BY <2>4, <2>5, <2>6, SubSeqProperties
  <2>8. 1 \in 1 .. n - 1 /\ \A k \in 2 .. n - 1 : k \in 1 .. n - 1 /\ k \in 2 .. n
    BY <2>5
  <2>9. open'[1] = "obj" /\ \A k \in 2 .. n - 1 : open'[k] = "<<"
    BY <2>2, <2>7, <2>8
  <2>10. open' # <<>>
    BY <2>5, <2>7
  <2>. QED  BY <2>7, <2>9, <2>10 DEF IsInObject
<1>5. ObjectOpen'
  BY <1>2, <1>3, <1>4 DEF ObjectOpen, EndDictionary, encryption
<1>. QED  BY <1>2, <1>3, <1>5 DEF KInv, EndDictionary, encryption
\* A stream takes the object's key before it pauses the helper.
LEMMA KeysStartStream ==
    ASSUME Disciplined, IInv, KInv, NEW i \in Nat, NEW compressed \in BOOLEAN,
           StartStream(i, compressed)
    PROVE  KInv'
<1>. SUFFICES ASSUME isEncrypted PROVE KInv'
  BY DEF KInv, StartStream
<1> DEFINE extent == GetObjectsCount(registry)
           tokens == OwnOpening(i) \o <<Tk(">>", 0, 0), Tk("stream", StreamKey, extent)>>
<1>1. TypeOK /\ StreamKey \in Nat /\ extent \in Nat
  BY KeysTypes, LenProperties DEF IInv, TypeOK, GetObjectsCount
<1>2. open = <<"obj">> \/ open = <<"obj", "<<">>
  BY DEF StartStream, MayStartStream, Nested
<1>3. helperAttached /\ ObjectOpen /\ StreamsUseOwnKey
  <2>1. ~NothingOpen /\ ~StreamOpen
    <3>1. <<"obj">> # <<>> /\ <<"obj", "<<">> # <<>>
      OBVIOUS
    <3>2. <<"obj">> # <<"obj", "stream">> /\ <<"obj", "<<">> # <<"obj", "stream">>
      OBVIOUS
    <3>. QED  BY <1>2, <3>1, <3>2 DEF NothingOpen, StreamOpen
  <2>. QED  BY <2>1 DEF KInv
<1>4. PICK id \in Nat : keysStack = <<id>> /\ IsLastHeader(file, id)
  BY <1>3 DEF ObjectOpen
<1>5. StreamKey = id
  <2>1. keysStack # <<>> /\ Last(keysStack) = id
    BY <1>4 DEF Last
  <2>. QED  BY <1>3, <2>1 DEF StreamKey, CurrentObjectKey, IsEncrypting, ObjectOpen
<1>6. /\ tokens \in Seq(Token) /\ Len(tokens) \in 2 .. 3
      /\ tokens[Len(tokens)] = Tk("stream", StreamKey, extent)
      /\ \A k \in 1 .. Len(tokens) : k # Len(tokens) => tokens[k].kind \in {"<<", ">>"}
  BY <1>1, StartTokens
<1>7. file' = file \o tokens
  BY DEF StartStream, Emit
<1>8. PICK s \in Stream : streams' = {s} /\ s.key = id
  <2> DEFINE s == [extent |-> extent, start |-> Len(file) + Len(tokens),
                   compressed |-> compressed, key |-> StreamKey, pending |-> 0]
  <2>1. streams' = {s}
    BY <1>3 DEF StartStream, ObjectOpen
  <2>2. s \in Stream
    <3>1. PICK n \in Nat : n = Len(file) + Len(tokens)
      <4> HIDE DEF tokens
      <4>1. Len(file) \in Nat /\ Len(tokens) \in Nat
        BY <1>1, <1>6, LenProperties DEF TypeOK
      <4>. QED  BY <4>1
    <3>. QED  BY <1>1, <3>1 DEF Stream
  <2>3. s.key = id
    BY <1>5
  <2> HIDE DEF s
  <2>. QED  BY <2>1, <2>2, <2>3
<1> HIDE DEF tokens
<1>9. /\ Tk("stream", StreamKey, extent).kind = "stream"
      /\ Tk("stream", StreamKey, extent).ref = id
  BY <1>5, Fields
<1>10. StreamsUseOwnKey'
  <2>1. ASSUME NEW m \in 1 .. Len(tokens), tokens[m].kind \in {"stream", "data"}
        PROVE  IsLastHeader(file, tokens[m].ref) /\ \A n \in 1 .. m - 1 : tokens[n].kind # "obj"
    <3>1. m = Len(tokens)
      BY <1>6, <2>1
    <3>2. \A n \in 1 .. m - 1 : n \in 1 .. Len(tokens) /\ n # Len(tokens)
      BY <1>6, <3>1
    <3>3. \A n \in 1 .. m - 1 : tokens[n].kind \in {"<<", ">>"}
      BY <1>6, <3>2
    <3>4. \A n \in 1 .. m - 1 : tokens[n].kind # "obj"
      BY <3>3
    <3>. QED  BY <1>4, <1>6, <1>9, <3>1, <3>4
  <2>. QED  BY <1>1, <1>3, <1>6, <1>7, <2>1, KeysStay
<1>11. IsLastHeader(file', id)
  <2>1. \A k \in 1 .. Len(tokens) : tokens[k].kind # "obj"
    BY <1>6, <1>9
  <2>. QED  BY <1>1, <1>4, <1>6, <1>7, <2>1, HeaderStaysLast
<1>12. open' = <<"obj", "stream">> /\ pauseLevel' = 1 /\ keysStack' = <<id>>
  BY <1>3, <1>4 DEF StartStream, ObjectOpen
<1>13. StreamOpen'
  BY <1>8, <1>11, <1>12 DEF StreamOpen
<1>. QED  BY <1>3, <1>10, <1>13 DEF KInv, StartStream

\* What is written to a stream has the key the stream took.
LEMMA KeysStreamData ==
    ASSUME Disciplined, TypeOK, KInv, NEW s \in streams, WriteStreamData(s)
    PROVE  KInv'
<1>. SUFFICES ASSUME isEncrypted PROVE KInv'
  BY DEF KInv, WriteStreamData, encryption
<1>1. helperAttached /\ StreamOpen /\ StreamsUseOwnKey
  BY DEF KInv, NothingOpen, ObjectOpen
<1>2. PICK id \in Nat : /\ keysStack = <<id>> /\ IsLastHeader(file, id)
                        /\ streams = {s} /\ s.key = id /\ s \in Stream
  BY <1>1 DEF StreamOpen
<1>3. UNCHANGED <<isEncrypted, helperAttached, open, pauseLevel, keysStack>>
  BY DEF WriteStreamData, encryption, client
<1>4. CASE Emit(<<Tk("data", s.key, s.extent)>>) /\ UNCHANGED streams
  <2> DEFINE token == Tk("data", s.key, s.extent)
             tokens == <<token>>
  <2>1. token \in Token /\ token.kind = "data" /\ token.ref = id
    BY <1>2, TokenTypes, Fields DEF TokenKinds, Stream
  <2> HIDE DEF token
  <2>2. tokens \in Seq(Token) /\ Len(tokens) = 1 /\ tokens[1] = token
    BY <2>1
  <2>3. file' = file \o tokens
    BY <1>4 DEF Emit, token
  <2> HIDE DEF tokens
  <2>4. \A m \in 1 .. Len(tokens) : m = 1 /\ 1 .. m - 1 = {}
    BY <2>2
  <2>5. StreamsUseOwnKey'
    BY <1>1, <1>2, <2>1, <2>2, <2>3, <2>4, KeysStay
  <2>6. \A m \in 1 .. Len(tokens) : tokens[m].kind # "obj"
    BY <2>1, <2>2, <2>4
  <2>7. IsLastHeader(file', id)
    BY <1>2, <2>2, <2>3, <2>6, HeaderStaysLast
  <2>8. StreamOpen'
    BY <1>1, <1>2, <1>3, <1>4, <2>7 DEF StreamOpen
  <2>. QED  BY <1>1, <1>3, <2>5, <2>8 DEF KInv
<1>5. CASE /\ streams' = (streams \ {s}) \cup {[s EXCEPT !.pending = 1]}
           /\ UNCHANGED file
  <2>1. [s EXCEPT !.pending = 1] \in Stream /\ [s EXCEPT !.pending = 1].key = id
    BY <1>2 DEF Stream
  <2>2. streams' = {[s EXCEPT !.pending = 1]}
    BY <1>2, <1>5
  <2>3. StreamOpen'
    BY <1>1, <1>2, <1>3, <1>5, <2>1, <2>2 DEF StreamOpen
  <2>4. StreamsUseOwnKey'
    BY <1>1, <1>5 DEF StreamsUseOwnKey, WriteStreamData, encryption
  <2>. QED  BY <1>1, <1>3, <2>3, <2>4 DEF KInv
<1>. QED  BY <1>4, <1>5 DEF WriteStreamData
\* A stream that ends writes what it held back before the header of its length, and
\* releases the helper, which pops the key.
LEMMA KeysEndStream ==
    ASSUME Disciplined, IInv, KInv, NEW s \in streams, EndPDFStream(s)
    PROVE  KInv'
<1>. SUFFICES ASSUME isEncrypted PROVE KInv'
  BY DEF KInv, EndPDFStream
<1> DEFINE p == s.pending
<1>0. PICK n : n = Len(file)
  OBVIOUS
<1>1. TypeOK /\ s \in Stream /\ p \in Nat /\ s.start \in Nat /\ s.extent \in Nat
      /\ n \in Nat /\ s.start <= n
  BY <1>0, LenProperties DEF IInv, TypeOK, Stream, StreamsStarted
<1>2. StreamLength(s) \in Nat
  BY <1>0, <1>1 DEF StreamLength
<1>3. helperAttached /\ StreamOpen /\ StreamsUseOwnKey
  BY DEF KInv, NothingOpen, ObjectOpen
<1>4. PICK id \in Nat : /\ keysStack = <<id>> /\ IsLastHeader(file, id)
                        /\ streams = {s} /\ s.key = id
  BY <1>3 DEF StreamOpen
<1>5. EndTokens(s) \in Seq(Token) /\ Len(EndTokens(s)) = p + 5
  BY <1>1, <1>2, EndTokensAre
<1>6. file' = file \o EndTokens(s)
  <2>1. HeldData(s) \o <<Tk("endstream", 0, s.extent), Tk("endobj", 0, 0)>> \in Seq(Token)
    <3>1. Tk("endstream", 0, s.extent) \in Token /\ Tk("endobj", 0, 0) \in Token
      BY <1>1, TokenTypes DEF TokenKinds
    <3>2. <<Tk("endstream", 0, s.extent), Tk("endobj", 0, 0)>> \in Seq(Token)
      BY <3>1, Pairs
    <3>. QED  BY <1>1, <3>2, HeldTypes, ConcatProperties
  <2>. QED  BY <2>1 DEF EndPDFStream, Emit, EndTokens
<1>7. /\ \A k \in 1 .. p : EndTokens(s)[k].kind = "data" /\ EndTokens(s)[k].ref = id
      /\ EndTokens(s)[p + 1].kind = "endstream" /\ EndTokens(s)[p + 2].kind = "endobj"
      /\ EndTokens(s)[p + 3].kind = "obj" /\ EndTokens(s)[p + 4].kind = "length"
      /\ EndTokens(s)[p + 5].kind = "endobj"
  <2>1. /\ \A k \in 1 .. p : EndTokens(s)[k] = Tk("data", s.key, s.extent)
        /\ EndTokens(s)[p + 1] = Tk("endstream", 0, s.extent)
        /\ EndTokens(s)[p + 2] = Tk("endobj", 0, 0)
        /\ EndTokens(s)[p + 3] = Tk("obj", s.extent, 0)
        /\ EndTokens(s)[p + 4] = Tk("length", s.extent, StreamLength(s))
        /\ EndTokens(s)[p + 5] = Tk("endobj", 0, 0)
    BY <1>1, <1>2, EndTokensAre
  <2>. QED  BY <1>4, <2>1, Fields
<1>8. StreamsUseOwnKey'
  <2>1. ASSUME NEW m \in 1 .. p + 5, EndTokens(s)[m].kind \in {"stream", "data"}
        PROVE  /\ IsLastHeader(file, EndTokens(s)[m].ref)
               /\ \A k \in 1 .. m - 1 : EndTokens(s)[k].kind # "obj"
    <3>1. m \in 1 .. p \/ m = p + 1 \/ m = p + 2 \/ m = p + 3 \/ m = p + 4 \/ m = p + 5
      BY <1>1
    <3>2. m \in 1 .. p
      BY <1>7, <2>1, <3>1
    <3>3. \A k \in 1 .. m - 1 : k \in 1 .. p
      BY <1>1, <3>2
    <3>. QED  BY <1>4, <1>7, <3>2, <3>3
  <2>. QED  BY <1>1, <1>3, <1>5, <1>6, <2>1, KeysStay
<1>9. streams' = {}
  BY <1>4 DEF EndPDFStream
<1>10. pauseLevel' = 0
  BY <1>3 DEF EndPDFStream, ReleaseEncryption, StreamOpen
<1>11. keysStack' = <<>>
  <2>1. PopKey
    BY <1>3, <1>10 DEF EndPDFStream
  <2>2. keysStack' = Front(<<id>>)
    BY <1>4, <2>1 DEF PopKey
  <2>. QED  BY <2>2 DEF Front
<1>12. open' = <<>>
  <2>1. open = <<"obj", "stream">> /\ Len(<<"obj", "stream">>) = 2
    BY <1>3 DEF StreamOpen
  <2>2. open' = SubSeq(open, 1, 0)
    BY <2>1 DEF EndPDFStream, Closed
  <2>. QED  BY <2>2, SubSeqEmpty
<1>13. NothingOpen'
  BY <1>9, <1>10, <1>11, <1>12 DEF NothingOpen
<1>. QED  BY <1>3, <1>8, <1>13 DEF KInv, EndPDFStream

\* A helper is attached to every document that is to be encrypted.
LEMMA KeysInit == Init => KInv
<1>. SUFFICES ASSUME Init, isEncrypted PROVE KInv
  BY DEF KInv
<1>1. helperAttached
  BY DEF Init, MayBeAttached
<1>2. NothingOpen
  BY DEF Init, NothingOpen
<1>3. StreamsUseOwnKey
  BY OriginalTokens DEF StreamsUseOwnKey
<1>. QED  BY <1>1, <1>2, <1>3 DEF KInv

LEMMA KeysNext == Disciplined /\ MaxRestarts = 0 /\ IInv /\ KInv /\ [Next]_vars => KInv'
<1>. SUFFICES ASSUME Disciplined, MaxRestarts = 0, IInv, KInv, [Next]_vars PROVE KInv'
  OBVIOUS
<1>1. TypeOK /\ GetObjectsCount(registry) \in Nat /\ Len(dictionaryStack) \in Nat
  BY LenProperties DEF IInv, TypeOK, GetObjectsCount
<1>2. CASE \/ StartNewIndirectObject
           \/ \E id \in 0 .. GetObjectsCount(registry) :
                 StartNewIndirectObjectWithID(id) \/ StartModifiedIndirectObject(id)
  <2>1. \E id \in Nat : open = <<>> /\ WriteObjectHeader(id)
    BY <1>1, <1>2 DEF StartNewIndirectObject, StartNewIndirectObjectWithID,
                      StartModifiedIndirectObject, Nested
  <2>. QED  BY <1>1, <2>1, KeysHeader
<1>3. CASE \/ AllocateNewObject \/ WriteXrefTable \/ UNCHANGED vars
           \/ \E id \in 0 .. GetObjectsCount(registry) : DeleteAnObject(id)
           \/ \E value \in BOOLEAN : SetCompressStreams(value)
           \/ \E i \in 1 .. Len(dictionaryStack), key \in ClientKeys : WriteKey(i, key)
           \/ \E i \in 0 .. Len(dictionaryStack), compressed \in BOOLEAN :
                 StartStreamDuplicateKey(i, compressed) \/ StartStreamBadNesting(i, compressed)
  <2>1. UNCHANGED <<file, streams, encryption, open>>
    BY <1>3 DEF AllocateNewObject, WriteXrefTable, vars, DeleteAnObject, SetCompressStreams,
                WriteKey, StartStreamDuplicateKey, StartStreamBadNesting, client
  <2>. QED  BY <2>1, KeysQuiet
<1>4. CASE EndIndirectObject
  BY <1>1, <1>4, KeysEndObject
<1>5. CASE StartDictionary
  BY <1>1, <1>5, KeysStartDictionary
<1>6. CASE EndDictionary
  BY <1>1, <1>6, KeysEndDictionary
<1>7. CASE \E i \in 0 .. Len(dictionaryStack), compressed \in BOOLEAN : StartStream(i, compressed)
  BY <1>1, <1>7, KeysStartStream
<1>8. CASE \E s \in streams : WriteStreamData(s)
  BY <1>1, <1>8, KeysStreamData
<1>9. CASE \E s \in streams : EndPDFStream(s)
  BY <1>9, KeysEndStream
<1>10. CASE ShutdownAndContinue
  BY <1>1, <1>10 DEF ShutdownAndContinue, TypeOK
<1>. QED  BY <1>2, <1>3, <1>4, <1>5, <1>6, <1>7, <1>8, <1>9, <1>10 DEF Next

\* In a document of one process, whose client nests its calls the way the library does,
\* the helper's stack of keys keeps step with the objects: every stream of an encrypted
\* document is written with the key of the object it is part of, data that was held back
\* and the length object's header notwithstanding. A restart loses the helper.
THEOREM KeysCorrect ==
    ASSUME Disciplined, MaxRestarts = 0
    PROVE  Spec => []StreamsUseOwnKey
<1>1. KInv => StreamsUseOwnKey
  BY DEF KInv, StreamsUseOwnKey
<1>2. IInv /\ KInv /\ [Next]_vars => KInv'
  BY KeysNext
<1>. QED  BY <1>1, <1>2, KeysInit, Invariance, PTL DEF Spec

-----------------------------------------------------------------------------
(***************************************************************************)
(* A client that nests its calls.                                          *)
(***************************************************************************)
PositionsFit == \A xref \in OriginalXrefs : Len(xref) + MaxTokens + 3 <= MaxWritePosition

Written(r, id) == id \in ObjectIDs(r) /\ r[id + 1].written

\* The length object of the one stream that is open waits for its end.
OneStream ==
    \/ streams = {}
    \/ /\ open = <<"obj", "stream">>
       /\ \E s \in streams :
             /\ streams = {s} /\ s.pending \in 0 .. 1
             /\ s.extent \in ObjectIDs(registry) /\ s.extent > Len(original)
             /\ ~registry[s.extent + 1].written

LengthsOwed ==
    \A k \in 1 .. Len(file) : file[k].kind = "stream" =>
        Written(registry, file[k].val) \/ \E s \in streams : s.extent = file[k].val

\* UpdateListsWhatChanged of one object, whose generation never falls and which was
\* written if it is in use.
UpdateOK(id) ==
    LET entry == registry[id + 1]
        before == ExistingItem(original[id])
    IN  /\ entry.dirty <=> \/ HeadersSince(OriginalLength, id) # {}
                           \/ entry.generation # before.generation
        /\ entry.generation >= before.generation
        /\ ~entry.dirty => /\ entry.type = before.type
                           /\ entry.generation = before.generation
                           /\ entry.type = "Used" =>
                                entry.written /\ entry.position = before.position

UpdatesOK == \A id \in OriginalIDs : UpdateOK(id)

NInv ==
    /\ original \in OriginalXrefs
    /\ Len(file) > Len(original)
    /\ OneStream /\ LengthsOwed /\ XrefFindsLastVersion /\ UpdatesOK

-----------------------------------------------------------------------------
(***************************************************************************)
(* The registry.                                                           *)
(***************************************************************************)

\* An object is marked at a position, and nothing else changes of what was there.
Marks(after, r, id, position) ==
    /\ id \in ObjectIDs(after)
    /\ after[id + 1].position = position /\ after[id + 1].dirty
    /\ ObjectIDs(r) \subseteq ObjectIDs(after)
    /\ \A other \in ObjectIDs(after) \ {id} :
          other \in ObjectIDs(r) /\ after[other + 1] = r[other + 1]
    /\ id \in ObjectIDs(r) => /\ after[id + 1].generation = r[id + 1].generation
                              /\ r[id + 1].written => after[id + 1].written

\* What the registry does when it accepts an object as written.
LEMMA WrittenIsMarked ==
    ASSUME NEW r \in Registry, NEW id \in Nat, NEW position \in Nat,
           CanMarkAsWritten(r, id, position),
           NEW after, after = MarkObjectAsWritten(r, id, position)
    PROVE  Marks(after, r, id, position) /\ after[id + 1].written
<1>1. id \in ObjectIDs(r) /\ r[id + 1] \in ObjectWriteInformation
  <2>1. id \in ObjectIDs(r)
    BY LenProperties DEF CanMarkAsWritten, ObjectIDs, Registry
  <2>. QED  BY <2>1, EntryType
<1>2. [r[id + 1] EXCEPT !.dirty = TRUE, !.position = position, !.written = TRUE]
          \in ObjectWriteInformation
  BY <1>1 DEF ObjectWriteInformation
<1>3. PICK entry \in ObjectWriteInformation :
         /\ entry.position = position /\ entry.dirty /\ entry.written
         /\ entry.generation = r[id + 1].generation
         /\ Replaces(after, r, id, entry)
  <2>1. id + 1 \in DOMAIN r
    BY <1>1, LenProperties DEF Registry, ObjectIDs
  <2>. QED  BY <1>1, <1>2, <2>1 DEF MarkObjectAsWritten, Replaces, ObjectWriteInformation
<1>4. /\ ObjectIDs(after) = ObjectIDs(r) /\ after[id + 1] = entry
      /\ \A other \in ObjectIDs(r) : other # id => after[other + 1] = r[other + 1]
  BY <1>1, <1>3, EntryReplaced
<1>. QED  BY <1>1, <1>3, <1>4 DEF Marks

\* And as updated.
LEMMA UpdatedIsMarked ==
    ASSUME NEW r \in Registry, NEW id \in Nat, NEW position \in Nat,
           CanMarkAsUpdated(r, id, position),
           NEW after, after = MarkObjectAsUpdated(r, id, position)
    PROVE  Marks(after, r, id, position)
<1>1. id \in ObjectIDs(r) /\ r[id + 1] \in ObjectWriteInformation
  <2>1. id \in ObjectIDs(r)
    BY LenProperties DEF CanMarkAsUpdated, ObjectIDs, Registry
  <2>. QED  BY <2>1, EntryType
<1>2. [r[id + 1] EXCEPT !.dirty = TRUE, !.position = position, !.type = "Used"]
          \in ObjectWriteInformation
  BY <1>1 DEF ObjectWriteInformation, ReferenceTypes
<1>3. PICK entry \in ObjectWriteInformation :
         /\ entry.position = position /\ entry.dirty /\ entry.written = r[id + 1].written
         /\ entry.generation = r[id + 1].generation
         /\ Replaces(after, r, id, entry)
  <2>1. id + 1 \in DOMAIN r
    BY <1>1, LenProperties DEF Registry, ObjectIDs
  <2>. QED  BY <1>1, <1>2, <2>1 DEF MarkObjectAsUpdated, Replaces, ObjectWriteInformation
<1>4. /\ ObjectIDs(after) = ObjectIDs(r) /\ after[id + 1] = entry
      /\ \A other \in ObjectIDs(r) : other # id => after[other + 1] = r[other + 1]
  BY <1>1, <1>3, EntryReplaced
<1>. QED  BY <1>1, <1>3, <1>4 DEF Marks

\* A new object that is not written is added at the end.
LEMMA AllocatedLast ==
    ASSUME NEW r \in Registry, NEW after, after = AllocateNewObjectID(r)
    PROVE  /\ after \in Registry /\ Len(r) \in Nat /\ Len(after) = Len(r) + 1
           /\ ObjectIDs(after) = ObjectIDs(r) \cup {Len(r)} /\ Len(r) \notin ObjectIDs(r)
           /\ after[Len(r) + 1] = NewObject
           /\ \A id \in ObjectIDs(r) : after[id + 1] = r[id + 1]
<1>1. NewObject \in ObjectWriteInformation
  BY RegistryAssumption DEF NewObject, ObjectWriteInformation, ReferenceTypes
<1>2. /\ Len(after) = Len(r) + 1 /\ Len(r) \in Nat /\ after[Len(r) + 1] = NewObject
  BY <1>1, AppendProperties, LenProperties DEF AllocateNewObjectID, Registry
<1>3. ObjectIDs(after) = ObjectIDs(r) \cup {Len(r)} /\ Len(r) \notin ObjectIDs(r)
  BY <1>2 DEF ObjectIDs
<1>. QED  BY <1>2, <1>3, Allocated

\* A new object that is written at once.
LEMMA NewIsMarked ==
    ASSUME NEW r \in Registry, NEW position \in Nat, position <= MaxWritePosition,
           NEW after, after = MarkObjectAsWritten(AllocateNewObjectID(r), Len(r), position)
    PROVE  Marks(after, r, Len(r), position)
<1>1. PICK more : more = AllocateNewObjectID(r)
  OBVIOUS
<1>2. /\ more \in Registry /\ Len(r) \in Nat /\ Len(more) = Len(r) + 1
      /\ ObjectIDs(more) = ObjectIDs(r) \cup {Len(r)} /\ Len(r) \notin ObjectIDs(r)
      /\ more[Len(r) + 1] = NewObject
      /\ \A id \in ObjectIDs(r) : more[id + 1] = r[id + 1]
  BY <1>1, AllocatedLast
<1>3. CanMarkAsWritten(more, Len(r), position)
  BY <1>2 DEF CanMarkAsWritten, NewObject
<1>4. Marks(after, more, Len(r), position)
  BY <1>1, <1>2, <1>3, WrittenIsMarked
<1>. QED  BY <1>2, <1>4 DEF Marks
-----------------------------------------------------------------------------
(***************************************************************************)
(* Headers in the file.                                                    *)
(***************************************************************************)

\* Where the headers of an object are that no new token is one of.
LEMMA HeadersKept ==
    ASSUME TypeOK, NEW tokens \in Seq(Token), file' = file \o tokens,
           NEW id, NEW n \in Nat, \A k \in 1 .. Len(tokens) : ~IsHeaderOf(tokens[k], id)
    PROVE  HeadersSince(n, id)' = HeadersSince(n, id)
<1>1. /\ Len(file') = Len(file) + Len(tokens) /\ Len(file) \in Nat /\ Len(tokens) \in Nat
      /\ \A k \in 1 .. Len(file) : file'[k] = file[k]
      /\ \A k \in 1 .. Len(tokens) : file'[Len(file) + k] = tokens[k]
  BY FileGrows
<1>2. ASSUME NEW k \in n + 1 .. Len(file'), IsHeaderOf(file'[k], id)
      PROVE  k \in n + 1 .. Len(file) /\ IsHeaderOf(file[k], id)
  <2>1. CASE k <= Len(file)
    BY <1>1, <1>2, <2>1
  <2>2. CASE ~(k <= Len(file))
    <3>1. k - Len(file) \in 1 .. Len(tokens) /\ k = Len(file) + (k - Len(file))
      BY <1>1, <2>2
    <3>2. file'[k] = tokens[k - Len(file)]
      BY <1>1, <3>1
    <3>. QED  BY <1>2, <3>1, <3>2
  <2>. QED  BY <2>1, <2>2
<1>3. ASSUME NEW k \in n + 1 .. Len(file), IsHeaderOf(file[k], id)
      PROVE  k \in n + 1 .. Len(file') /\ IsHeaderOf(file'[k], id)
  BY <1>1, <1>3
<1>. QED  BY <1>2, <1>3 DEF HeadersSince

\* The one header that is written is the last, and follows all that was there.
LEMMA HeaderAdded ==
    ASSUME TypeOK, NEW tokens \in Seq(Token), file' = file \o tokens,
           NEW id, NEW m \in 1 .. Len(tokens), IsHeaderOf(tokens[m], id),
           \A k \in 1 .. Len(tokens) : tokens[k].kind = "obj" => k = m,
           NEW position, position = Len(file) + m - 1
    PROVE  /\ HeadersSince(position + 1, id)' = {}
           /\ \A n \in Nat : n <= Len(file) => HeadersSince(n, id)' # {}
<1>1. /\ Len(file') = Len(file) + Len(tokens) /\ Len(file) \in Nat /\ Len(tokens) \in Nat
      /\ \A k \in 1 .. Len(tokens) : file'[Len(file) + k] = tokens[k]
  BY FileGrows
<1>2. ASSUME NEW k \in position + 1 + 1 .. Len(file'), IsHeaderOf(file'[k], id)
      PROVE  FALSE
  <2>1. k - Len(file) \in 1 .. Len(tokens) /\ k - Len(file) # m
        /\ k = Len(file) + (k - Len(file))
    BY <1>1
  <2>2. file'[k] = tokens[k - Len(file)]
    BY <1>1, <2>1
  <2>. QED  BY <1>2, <2>1, <2>2 DEF IsHeaderOf
<1>3. ASSUME NEW n \in Nat, n <= Len(file)
      PROVE  HeadersSince(n, id)' # {}
  <2>1. Len(file) + m \in n + 1 .. Len(file') /\ file'[Len(file) + m] = tokens[m]
    BY <1>1, <1>3
  <2>. QED  BY <2>1 DEF HeadersSince
<1>. QED  BY <1>2, <1>3 DEF HeadersSince

\* What is known of the original's objects.
LEMMA OriginalsAreThere ==
    ASSUME TypeOK, NInv
    PROVE  /\ OriginalIDs \subseteq ObjectIDs(registry)
           /\ OriginalLength \in Nat /\ OriginalLength <= Len(file)
           /\ \A id \in ObjectIDs(registry) : registry[id + 1] \in ObjectWriteInformation
<1>1. /\ registry \in Registry /\ Len(registry) \in Nat /\ Len(original) \in Nat
      /\ Len(registry) > Len(original) /\ Len(file) \in Nat
  BY LenProperties DEF TypeOK, Registry
<1>2. OriginalIDs \subseteq ObjectIDs(registry)
  BY <1>1 DEF OriginalIDs, ObjectIDs
<1>3. OriginalLength \in Nat /\ OriginalLength <= Len(file)
  BY <1>1 DEF OriginalLength, NInv
<1>. QED  BY <1>1, <1>2, <1>3, EntryType

\* A step that writes the header of one object, and marks the object there.
LEMMA MarkStep ==
    ASSUME TypeOK, NInv, NEW tokens \in Seq(Token), file' = file \o tokens,
           NEW id, NEW m \in 1 .. Len(tokens), IsHeaderOf(tokens[m], id),
           \A k \in 1 .. Len(tokens) : tokens[k].kind = "obj" => k = m,
           NEW position, position = Len(file) + m - 1,
           Marks(registry', registry, id, position), UNCHANGED original
    PROVE  XrefFindsLastVersion' /\ UpdatesOK'
<1>1. /\ HeadersSince(position + 1, id)' = {}
      /\ \A n \in Nat : n <= Len(file) => HeadersSince(n, id)' # {}
  BY HeaderAdded
<1>2. ASSUME NEW other, other # id, NEW n \in Nat
      PROVE  HeadersSince(n, other)' = HeadersSince(n, other)
  <2>1. \A k \in 1 .. Len(tokens) : ~IsHeaderOf(tokens[k], other)
    BY <1>2 DEF IsHeaderOf
  <2>. QED  BY <2>1, HeadersKept
<1>3. ASSUME NEW other \in DirtyIDs(registry'),
             registry'[other + 1].type = "Used", registry'[other + 1].written
      PROVE  HeadersSince(registry[other + 1].position + 1, other)' = {}
  <2>1. CASE other = id
    BY <1>1, <2>1 DEF Marks
  <2>2. CASE other # id
    <3>1. other \in ObjectIDs(registry) /\ registry'[other + 1] = registry[other + 1]
      BY <2>2 DEF Marks, DirtyIDs
    <3>2. other \in DirtyIDs(registry) /\ registry[other + 1] \in ObjectWriteInformation
      BY <1>3, <3>1, OriginalsAreThere DEF DirtyIDs
    <3>3. PICK n : n = registry[other + 1].position + 1
      OBVIOUS
    <3>4. n \in Nat
      BY <3>2, <3>3 DEF ObjectWriteInformation, Undefined
    <3>5. HeadersSince(n, other) = {}
      BY <1>3, <3>1, <3>2, <3>3 DEF NInv, XrefFindsLastVersion
    <3>. QED  BY <1>2, <2>2, <3>1, <3>3, <3>4, <3>5
  <2>. QED  BY <2>1, <2>2
<1>4. ASSUME NEW other \in OriginalIDs
      PROVE  UpdateOK(other)'
  <2>1. PICK n \in Nat : n = OriginalLength /\ n <= Len(file)
    BY OriginalsAreThere
  <2>2. OriginalLength' = n
    BY <2>1 DEF OriginalLength
  <2>3. other \in ObjectIDs(registry) /\ UpdateOK(other)
    BY OriginalsAreThere DEF NInv, UpdatesOK
  <2>4. CASE other = id
    <3>1. registry'[other + 1].dirty /\ registry'[other + 1].generation = registry[other + 1].generation
      BY <2>3, <2>4 DEF Marks
    <3>2. HeadersSince(OriginalLength, other)' # {}
      BY <1>1, <2>1, <2>2, <2>4
    <3>. QED  BY <2>3, <3>1, <3>2 DEF UpdateOK
  <2>5. CASE other # id
    <3>1. registry'[other + 1] = registry[other + 1]
      <4>1. other \in ObjectIDs(registry')
        BY <2>3 DEF Marks
      <4>. QED  BY <2>5, <4>1 DEF Marks
    <3>2. HeadersSince(OriginalLength, other)' = HeadersSince(OriginalLength, other)
      BY <1>2, <2>1, <2>2, <2>5
    <3>. QED  BY <2>3, <3>1, <3>2 DEF UpdateOK
  <2>. QED  BY <2>4, <2>5
<1>. QED  BY <1>3, <1>4 DEF XrefFindsLastVersion, UpdatesOK, OriginalIDs

\* A registry has what another has, and perhaps objects that are not written.
Extends(after, r) ==
    /\ ObjectIDs(r) \subseteq ObjectIDs(after)
    /\ \A id \in ObjectIDs(r) : after[id + 1] = r[id + 1]
    /\ \A id \in ObjectIDs(after) \ ObjectIDs(r) : ~after[id + 1].written

\* A step that writes no header and marks nothing.
LEMMA UnmarkedStep ==
    ASSUME TypeOK, NInv, NEW tokens \in Seq(Token), file' = file \o tokens,
           \A k \in 1 .. Len(tokens) : tokens[k].kind # "obj",
           Extends(registry', registry), UNCHANGED original
    PROVE  XrefFindsLastVersion' /\ UpdatesOK'
<1>1. ASSUME NEW other, NEW n \in Nat
      PROVE  HeadersSince(n, other)' = HeadersSince(n, other)
  <2>1. \A k \in 1 .. Len(tokens) : ~IsHeaderOf(tokens[k], other)
    BY DEF IsHeaderOf
  <2>. QED  BY <2>1, HeadersKept
<1>2. ASSUME NEW other \in DirtyIDs(registry'),
             registry'[other + 1].type = "Used", registry'[other + 1].written
      PROVE  HeadersSince(registry[other + 1].position + 1, other)' = {}
  <2>1. other \in ObjectIDs(registry) /\ registry'[other + 1] = registry[other + 1]
    BY <1>2 DEF Extends, DirtyIDs
  <2>2. other \in DirtyIDs(registry) /\ registry[other + 1] \in ObjectWriteInformation
    BY <1>2, <2>1, OriginalsAreThere DEF DirtyIDs
  <2>3. PICK n : n = registry[other + 1].position + 1
    OBVIOUS
  <2>4. n \in Nat
    BY <2>2, <2>3 DEF ObjectWriteInformation, Undefined
  <2>5. HeadersSince(n, other) = {}
    BY <1>2, <2>1, <2>2, <2>3 DEF NInv, XrefFindsLastVersion
  <2>. QED  BY <1>1, <2>1, <2>3, <2>4, <2>5
<1>3. ASSUME NEW other \in OriginalIDs
      PROVE  UpdateOK(other)'
  <2>1. PICK n \in Nat : n = OriginalLength
    BY OriginalsAreThere
  <2>2. OriginalLength' = n
    BY <2>1 DEF OriginalLength
  <2>3. UpdateOK(other) /\ registry'[other + 1] = registry[other + 1]
    BY OriginalsAreThere DEF NInv, UpdatesOK, Extends
  <2>4. HeadersSince(OriginalLength, other)' = HeadersSince(OriginalLength, other)
    BY <1>1, <2>1, <2>2
  <2>. QED  BY <2>3, <2>4 DEF UpdateOK
<1>. QED  BY <1>2, <1>3 DEF XrefFindsLastVersion, UpdatesOK, OriginalIDs

\* What DeleteObject does to the entry.
LEMMA DeletedEntry ==
    ASSUME NEW r \in Registry, NEW id \in Nat, CanDelete(r, id),
           NEW after, after = DeleteObject(r, id)
    PROVE  /\ id \in ObjectIDs(r) /\ ObjectIDs(after) = ObjectIDs(r)
           /\ after[id + 1].dirty /\ after[id + 1].type = "Free"
           /\ after[id + 1].generation = r[id + 1].generation + 1
           /\ after[id + 1].written = r[id + 1].written
           /\ \A other \in ObjectIDs(r) : other # id => after[other + 1] = r[other + 1]
<1>1. id \in ObjectIDs(r) /\ r[id + 1] \in ObjectWriteInformation
  <2>1. id \in ObjectIDs(r)
    BY LenProperties DEF CanDelete, ObjectIDs, Registry
  <2>. QED  BY <2>1, EntryType
<1>2. r[id + 1].generation + 1 \in 0 .. MaxGeneration
  BY <1>1, RegistryAssumption DEF CanDelete, ObjectWriteInformation
<1>3. [r[id + 1] EXCEPT !.dirty = TRUE, !.generation = @ + 1, !.position = 0, !.type = "Free"]
          \in ObjectWriteInformation
  BY <1>1, <1>2 DEF ObjectWriteInformation, ReferenceTypes
<1>4. PICK entry \in ObjectWriteInformation :
         /\ entry.dirty /\ entry.type = "Free" /\ entry.written = r[id + 1].written
         /\ entry.generation = r[id + 1].generation + 1
         /\ Replaces(after, r, id, entry)
  <2>1. id + 1 \in DOMAIN r
    BY <1>1, LenProperties DEF Registry, ObjectIDs
  <2>. QED  BY <1>1, <1>3, <2>1 DEF DeleteObject, Replaces, ObjectWriteInformation
<1>. QED  BY <1>1, <1>4, EntryReplaced

\* Headers stay where they are when nothing is written.
LEMMA SameHeaders ==
    ASSUME UNCHANGED file, NEW n, NEW id
    PROVE  HeadersSince(n, id)' = HeadersSince(n, id)
BY DEF HeadersSince, IsHeaderOf

\* An object that is deleted is of a later generation than before.
LEMMA DeleteStep ==
    ASSUME TypeOK, NInv, NEW id \in Nat, registry' = DeleteObject(registry, id),
           UNCHANGED <<file, original>>
    PROVE  XrefFindsLastVersion' /\ UpdatesOK'
<1>1. registry \in Registry /\ \A other \in ObjectIDs(registry) :
                                  registry[other + 1] \in ObjectWriteInformation
  BY OriginalsAreThere DEF TypeOK, Registry
<1>2. \A other \in Listed(registry') :
         other \in Listed(registry) /\ registry'[other + 1] = registry[other + 1]
  BY <1>1, Deleted
<1>3. ASSUME NEW other \in Listed(registry')
      PROVE  HeadersSince(registry[other + 1].position + 1, other)' = {}
  <2>1. PICK n : n = registry[other + 1].position + 1
    OBVIOUS
  <2>2. HeadersSince(n, other) = {}
    BY <1>2, <2>1 DEF NInv, XrefFindsLastVersion, Listed
  <2>. QED  BY <1>2, <2>1, <2>2, SameHeaders
<1>4. ASSUME NEW other \in OriginalIDs
      PROVE  UpdateOK(other)'
  <2>1. PICK n : n = OriginalLength
    OBVIOUS
  <2>2. OriginalLength' = n
    BY <2>1 DEF OriginalLength
  <2>3. HeadersSince(OriginalLength, other)' = HeadersSince(OriginalLength, other)
    BY <2>1, <2>2, SameHeaders
  <2>4. other \in ObjectIDs(registry) /\ UpdateOK(other)
    BY OriginalsAreThere DEF NInv, UpdatesOK
  <2>5. CASE CanDelete(registry, id) /\ other = id
    <3>1. /\ registry'[id + 1].dirty
          /\ registry'[id + 1].generation = registry[id + 1].generation + 1
      BY <1>1, <2>5, DeletedEntry
    <3>2. PICK g, b : /\ g = registry[id + 1].generation
                      /\ b = ExistingItem(original[other]).generation
      OBVIOUS
    <3>3. g \in Nat /\ b \in Nat /\ g >= b
      <4>1. g \in Nat
        BY <1>1, <2>4, <2>5, <3>2, RegistryAssumption DEF ObjectWriteInformation
      <4>2. original[other] \in XrefEntryInput
        BY ElementOfSeq DEF TypeOK, OriginalIDs
      <4>3. b \in Nat
        BY <3>2, <4>2, RegistryAssumption DEF ExistingItem, XrefEntryInput
      <4>. QED  BY <2>4, <2>5, <3>2, <4>1, <4>3 DEF UpdateOK
    <3>4. g + 1 # b /\ g + 1 >= b
      BY <3>3
    <3>. QED  BY <2>5, <3>1, <3>2, <3>4 DEF UpdateOK
  <2>6. CASE ~CanDelete(registry, id) \/ other # id
    <3>1. registry'[other + 1] = registry[other + 1]
      <4>1. CASE CanDelete(registry, id)
        BY <1>1, <2>4, <2>6, <4>1, DeletedEntry
      <4>2. CASE ~CanDelete(registry, id)
        BY <4>2 DEF DeleteObject
      <4>. QED  BY <4>1, <4>2
    <3>. QED  BY <2>3, <2>4, <3>1 DEF UpdateOK
  <2>. QED  BY <2>5, <2>6
<1>. QED  BY <1>3, <1>4 DEF XrefFindsLastVersion, UpdatesOK, OriginalIDs, Listed

\* The state file keeps all of this.
LEMMA RestartStep ==
    ASSUME TypeOK, NInv, registry' = WriteAndReadState(registry), UNCHANGED <<file, original>>
    PROVE  XrefFindsLastVersion' /\ UpdatesOK'
<1>1. /\ \A id \in ObjectIDs(registry) : /\ registry[id + 1] \in ObjectWriteInformation
                                        /\ registry'[id + 1] = Saved(registry[id + 1])
      /\ Listed(registry') = Listed(registry) /\ Listed(registry) \subseteq ObjectIDs(registry)
  BY OriginalsAreThere, Restored DEF TypeOK, Registry, Listed, DirtyIDs
<1>2. ASSUME NEW other \in Listed(registry')
      PROVE  HeadersSince(registry[other + 1].position + 1, other)' = {}
  <2>1. PICK n : n = registry[other + 1].position + 1
    OBVIOUS
  <2>2. HeadersSince(n, other) = {}
    BY <1>1, <2>1 DEF NInv, XrefFindsLastVersion, Listed
  <2>3. registry'[other + 1].position = registry[other + 1].position
    BY <1>1, SavedEntry DEF Listed
  <2>. QED  BY <2>1, <2>2, <2>3, SameHeaders
<1>3. ASSUME NEW other \in OriginalIDs
      PROVE  UpdateOK(other)'
  <2>1. PICK n : n = OriginalLength
    OBVIOUS
  <2>2. OriginalLength' = n
    BY <2>1 DEF OriginalLength
  <2>3. HeadersSince(OriginalLength, other)' = HeadersSince(OriginalLength, other)
    BY <2>1, <2>2, SameHeaders
  <2>4. other \in ObjectIDs(registry) /\ UpdateOK(other)
    BY OriginalsAreThere DEF NInv, UpdatesOK
  <2>5. /\ registry'[other + 1].type = registry[other + 1].type
        /\ registry'[other + 1].written = registry[other + 1].written
        /\ registry'[other + 1].dirty = registry[other + 1].dirty
        /\ registry'[other + 1].generation = registry[other + 1].generation
        /\ registry[other + 1].written =>
              registry'[other + 1].position = registry[other + 1].position
    BY <1>1, <2>4, SavedEntry
  <2>. QED  BY <2>3, <2>4, <2>5 DEF UpdateOK
<1>. QED  BY <1>2, <1>3 DEF XrefFindsLastVersion, UpdatesOK, OriginalIDs, Listed

-----------------------------------------------------------------------------
(***************************************************************************)
(* The steps.                                                              *)
(***************************************************************************)

\* A length that is owed stays so until it is written, and is written for good.
LEMMA OwedStay ==
    ASSUME TypeOK, LengthsOwed, NEW tokens \in Seq(Token), file' = file \o tokens,
           \A m \in 1 .. Len(tokens) : tokens[m].kind = "stream" =>
              \E s \in streams' : s.extent = tokens[m].val,
           \A id : Written(registry, id) => Written(registry', id),
           \A s \in streams : \/ \E t \in streams' : t.extent = s.extent
                              \/ Written(registry', s.extent)
    PROVE  LengthsOwed'
<1>1. /\ Len(file') = Len(file) + Len(tokens) /\ Len(file) \in Nat /\ Len(tokens) \in Nat
      /\ \A k \in 1 .. Len(file) : file'[k] = file[k]
      /\ \A k \in 1 .. Len(tokens) : file'[Len(file) + k] = tokens[k]
  BY FileGrows
<1>2. ASSUME NEW k \in 1 .. Len(file'), file'[k].kind = "stream"
      PROVE  Written(registry', file'[k].val) \/ \E s \in streams' : s.extent = file'[k].val
  <2>1. CASE k <= Len(file)
    <3>1. k \in 1 .. Len(file) /\ file'[k] = file[k]
      BY <1>1, <2>1
    <3>. QED  BY <1>2, <3>1 DEF LengthsOwed
  <2>2. CASE ~(k <= Len(file))
    <3>1. k - Len(file) \in 1 .. Len(tokens) /\ k = Len(file) + (k - Len(file))
      BY <1>1, <2>2
    <3>2. file'[k] = tokens[k - Len(file)]
      BY <1>1, <3>1
    <3>. QED  BY <1>2, <3>1, <3>2
  <2>. QED  BY <2>1, <2>2
<1>. QED  BY <1>2 DEF LengthsOwed

\* Positions are small enough for the registry.
LEMMA Fits ==
    ASSUME PositionsFit, TypeOK, NInv, SmallEnough
    PROVE  Len(file) \in Nat /\ Len(file) + 3 <= MaxWritePosition
<1>1. Len(file) \in Nat /\ Len(original) \in Nat /\ MaxTokens \in Nat /\ MaxWritePosition \in Nat
  BY LenProperties, ContextAssumption, RegistryAssumption DEF TypeOK
<1>2. Len(original) + MaxTokens + 3 <= MaxWritePosition
  BY DEF PositionsFit, NInv
<1>3. Len(file) <= Len(original) + MaxTokens
  BY DEF SmallEnough
<1>. QED  BY <1>1, <1>2, <1>3

\* Only in a stream is a stream open.
LEMMA NoStream ==
    ASSUME TypeOK, NInv, open = <<>> \/ open[Len(open)] # "stream"
    PROVE  streams = {}
<1>1. ASSUME open = <<"obj", "stream">> PROVE FALSE
  <2>1. open # <<>> /\ open[Len(open)] = "stream"
    BY <1>1
  <2>. QED  BY <2>1
<1>. QED  BY <1>1 DEF NInv, OneStream

\* The three ways to start an object, which is marked where its header is.
LEMMA NestingHeader ==
    ASSUME TypeOK, NInv, NEW id \in Nat, open = <<>>, WriteObjectHeader(id),
           NEW position, position = Len(file), Marks(registry', registry, id, position)
    PROVE  NInv'
<1> DEFINE tokens == <<Tk("obj", id, 0)>>
<1>1. tokens \in Seq(Token) /\ Len(tokens) = 1
      /\ IsHeaderOf(tokens[1], id) /\ tokens[1].kind = "obj"
  BY TokenTypes DEF TokenKinds, Tk, IsHeaderOf
<1>2. file' = file \o tokens /\ UNCHANGED <<streams, original>>
  BY DEF WriteObjectHeader, Emit
<1> HIDE DEF tokens
<1>3. Len(file') = Len(file) + 1 /\ Len(file) \in Nat /\ Len(original) \in Nat
  BY <1>1, <1>2, FileGrows, LenProperties DEF TypeOK
<1>4. XrefFindsLastVersion' /\ UpdatesOK'
  <2>1. 1 \in 1 .. Len(tokens) /\ \A k \in 1 .. Len(tokens) : k = 1
    BY <1>1
  <2>2. position = Len(file) + 1 - 1
    BY <1>3
  <2>. QED  BY <1>1, <1>2, <2>1, <2>2, MarkStep
<1>5. streams = {} /\ OneStream'
  BY <1>2, NoStream DEF OneStream
<1>6. LengthsOwed'
  <2>1. \A m \in 1 .. Len(tokens) : tokens[m].kind # "stream"
    BY <1>1
  <2>2. \A x : Written(registry, x) => Written(registry', x)
    BY DEF Written, Marks
  <2>. QED  BY <1>1, <1>2, <1>5, <2>1, <2>2, OwedStay DEF NInv
<1>7. original' \in OriginalXrefs /\ Len(file') > Len(original')
  BY <1>2, <1>3 DEF NInv
<1>. QED  BY <1>4, <1>5, <1>6, <1>7 DEF NInv

\* The registry accepts what a client that nests its calls starts.
LEMMA NestingStarts ==
    ASSUME Disciplined, PositionsFit, TypeOK, NInv,
           \/ StartNewIndirectObject
           \/ \E id \in 0 .. GetObjectsCount(registry) :
                 StartNewIndirectObjectWithID(id) \/ StartModifiedIndirectObject(id)
    PROVE  NInv'
<1>1. registry \in Registry /\ Len(registry) \in Nat
  BY LenProperties DEF TypeOK, Registry
<1>2. PICK position : position = Len(file)
  OBVIOUS
<1>3. SmallEnough /\ open = <<>> /\ position \in Nat /\ position <= MaxWritePosition
  <2>1. SmallEnough /\ open = <<>>
    BY DEF StartNewIndirectObject, StartNewIndirectObjectWithID, StartModifiedIndirectObject,
           Nested
  <2>. QED  BY <1>2, <2>1, Fits, RegistryAssumption
<1>4. CASE StartNewIndirectObject
  <2>1. PICK id : id = Len(registry)
    OBVIOUS
  <2>2. registry' = MarkObjectAsWritten(AllocateNewObjectID(registry), id, position)
        /\ WriteObjectHeader(id) /\ id \in Nat
    BY <1>1, <1>2, <1>4, <2>1 DEF StartNewIndirectObject, GetObjectsCount, GetCurrentPosition
  <2>3. Marks(registry', registry, id, position)
    BY <1>1, <1>3, <2>1, <2>2, NewIsMarked
  <2>. QED  BY <1>2, <1>3, <2>2, <2>3, NestingHeader
<1>5. ASSUME NEW id \in 0 .. GetObjectsCount(registry), StartNewIndirectObjectWithID(id)
      PROVE  NInv'
  <2>1. id \in Nat /\ id < Len(registry) /\ ~registry[id + 1].written
    BY <1>1, <1>5 DEF StartNewIndirectObjectWithID, Nested, DirtyIDs, ObjectIDs, GetObjectsCount
  <2>2. registry' = MarkObjectAsWritten(registry, id, position) /\ WriteObjectHeader(id)
    BY <1>2, <1>5 DEF StartNewIndirectObjectWithID, GetCurrentPosition
  <2>3. Marks(registry', registry, id, position)
    BY <1>1, <1>3, <2>1, <2>2, WrittenIsMarked DEF CanMarkAsWritten
  <2>. QED  BY <1>2, <1>3, <2>1, <2>2, <2>3, NestingHeader
<1>6. ASSUME NEW id \in 0 .. GetObjectsCount(registry), StartModifiedIndirectObject(id)
      PROVE  NInv'
  <2>1. id \in Nat /\ id < Len(registry)
    BY <1>1, <1>6 DEF StartModifiedIndirectObject, Nested, ObjectIDs, GetObjectsCount
  <2>2. registry' = MarkObjectAsUpdated(registry, id, position) /\ WriteObjectHeader(id)
    BY <1>2, <1>6 DEF StartModifiedIndirectObject, GetCurrentPosition
  <2>3. Marks(registry', registry, id, position)
    BY <1>1, <1>3, <2>1, <2>2, UpdatedIsMarked DEF CanMarkAsUpdated
  <2>. QED  BY <1>2, <1>3, <2>1, <2>2, <2>3, NestingHeader
<1>. QED  BY <1>4, <1>5, <1>6

\* No stream is started, and none that is open ends.
StreamsKept == UNCHANGED <<streams, open>> \/ (streams = {} /\ streams' = {})

\* The steps that write a token or none, start no object and end none that has a length.
LEMMA NestingPlain ==
    ASSUME TypeOK, NInv, NEW tokens \in Seq(Token), file' = file \o tokens,
           \A k \in 1 .. Len(tokens) : tokens[k].kind \notin {"obj", "stream"},
           Extends(registry', registry), UNCHANGED original, StreamsKept
    PROVE  NInv'
<1>1. Len(file') >= Len(file) /\ Len(file) \in Nat /\ Len(file') \in Nat /\ Len(original) \in Nat
  BY FileGrows, LenProperties DEF TypeOK
<1>2. XrefFindsLastVersion' /\ UpdatesOK'
  BY UnmarkedStep
<1>3. LengthsOwed'
  <2>1. \A x : Written(registry, x) => Written(registry', x)
    BY DEF Written, Extends
  <2>2. \A s \in streams : \E t \in streams' : t.extent = s.extent
    BY DEF StreamsKept
  <2>. QED  BY <2>1, <2>2, OwedStay DEF NInv
<1>4. OneStream'
  <2>1. CASE streams' = {}
    BY <2>1 DEF OneStream
  <2>2. CASE UNCHANGED <<streams, open>> /\ streams # {}
    <3>1. PICK s \in streams :
             /\ open = <<"obj", "stream">> /\ streams = {s} /\ s.pending \in 0 .. 1
             /\ s.extent \in ObjectIDs(registry) /\ s.extent > Len(original)
             /\ ~registry[s.extent + 1].written
      BY <2>2 DEF NInv, OneStream
    <3>2. s.extent \in ObjectIDs(registry') /\ ~registry'[s.extent + 1].written
      BY <3>1 DEF Extends
    <3>. QED  BY <2>2, <3>1, <3>2 DEF OneStream
  <2>. QED  BY <2>1, <2>2 DEF StreamsKept
<1>5. original' \in OriginalXrefs /\ Len(file') > Len(original')
  BY <1>1 DEF NInv
<1>. QED  BY <1>2, <1>3, <1>4, <1>5 DEF NInv

\* A step that writes nothing writes no token.
LEMMA NoTokens ==
    ASSUME TypeOK, UNCHANGED file
    PROVE  \E tokens \in Seq(Token) : file' = file \o tokens /\ Len(tokens) = 0
<1>1. <<>> \in Seq(Token) /\ Len(<<>>) = 0
  OBVIOUS
<1>2. file \o <<>> = file
  BY ConcatEmptySeq DEF TypeOK
<1>. QED  BY <1>1, <1>2

\* A token, or none.
LEMMA NestingToken ==
    ASSUME TypeOK, NInv, UNCHANGED <<registry, original>>,
           StreamsKept,
           \/ UNCHANGED file
           \/ \E token \in Token : token.kind \notin {"obj", "stream"} /\ Emit(<<token>>)
    PROVE  NInv'
<1>1. Extends(registry', registry)
  BY DEF Extends
<1>2. CASE UNCHANGED file
  <2>1. PICK tokens \in Seq(Token) : file' = file \o tokens /\ Len(tokens) = 0
    BY <1>2, NoTokens
  <2>2. \A k \in 1 .. Len(tokens) : tokens[k].kind \notin {"obj", "stream"}
    BY <2>1
  <2>. QED  BY <1>1, <2>1, <2>2, NestingPlain
<1>3. ASSUME NEW token \in Token, token.kind \notin {"obj", "stream"}, Emit(<<token>>)
      PROVE  NInv'
  <2> DEFINE tokens == <<token>>
  <2>1. tokens \in Seq(Token) /\ file' = file \o tokens
        /\ \A k \in 1 .. Len(tokens) : tokens[k].kind \notin {"obj", "stream"}
    BY <1>3 DEF Emit
  <2> HIDE DEF tokens
  <2>. QED  BY <1>1, <2>1, NestingPlain
<1>. QED  BY <1>2, <1>3

\* The steps that start and end nothing but dictionaries and objects.
LEMMA NestingOrdinary ==
    ASSUME Disciplined, TypeOK, NInv,
           \/ EndIndirectObject \/ StartDictionary \/ EndDictionary
           \/ \E value \in BOOLEAN : SetCompressStreams(value)
           \/ \E i \in Nat, key \in ClientKeys : WriteKey(i, key)
           \/ \E i \in Nat, compressed \in BOOLEAN : StartStreamDuplicateKey(i, compressed)
           \/ WriteXrefTable \/ UNCHANGED vars
    PROVE  NInv'
<1>1. CASE EndIndirectObject \/ StartDictionary \/ EndDictionary
  <2>1. open[Len(open)] # "stream" /\ UNCHANGED <<registry, original, streams>>
    BY <1>1 DEF EndIndirectObject, StartDictionary, EndDictionary, Nested, InObject, Last
  <2>2. \E token \in Token : token.kind \notin {"obj", "stream"} /\ Emit(<<token>>)
    <3>1. /\ Tk("endobj", 0, 0) \in Token /\ Tk("<<", 0, 0) \in Token /\ Tk(">>", 0, 0) \in Token
          /\ Tk("endobj", 0, 0).kind = "endobj"
          /\ Tk("<<", 0, 0).kind = "<<" /\ Tk(">>", 0, 0).kind = ">>"
      BY TokenTypes, Fields DEF TokenKinds
    <3>2. \/ Emit(<<Tk("endobj", 0, 0)>>) \/ Emit(<<Tk("<<", 0, 0)>>) \/ Emit(<<Tk(">>", 0, 0)>>)
      BY <1>1 DEF EndIndirectObject, StartDictionary, EndDictionary
    <3>. QED  BY <3>1, <3>2
  <2>3. StreamsKept
    BY <2>1, NoStream DEF StreamsKept
  <2>. QED  BY <2>1, <2>2, <2>3, NestingToken
<1>2. CASE \/ \E value \in BOOLEAN : SetCompressStreams(value)
           \/ \E i \in Nat, key \in ClientKeys : WriteKey(i, key)
           \/ \E i \in Nat, compressed \in BOOLEAN : StartStreamDuplicateKey(i, compressed)
           \/ WriteXrefTable \/ UNCHANGED vars
  <2>1. UNCHANGED <<registry, original>> /\ StreamsKept /\ UNCHANGED file
    BY <1>2 DEF SetCompressStreams, WriteKey, StartStreamDuplicateKey, WriteXrefTable, vars,
                client, StreamsKept
  <2>. QED  BY <2>1, NestingToken
<1>. QED  BY <1>1, <1>2

\* An object that is allocated is not written.
LEMMA NestingAllocate ==
    ASSUME TypeOK, NInv, AllocateNewObject
    PROVE  NInv'
<1>1. /\ registry' = AllocateNewObjectID(registry)
      /\ StreamsKept /\ UNCHANGED original /\ UNCHANGED file
  BY DEF AllocateNewObject, client, StreamsKept
<1>2. Extends(registry', registry)
  BY <1>1, AllocatedLast DEF Extends, TypeOK, Registry, NewObject
<1>3. PICK tokens \in Seq(Token) : file' = file \o tokens /\ Len(tokens) = 0
  BY <1>1, NoTokens
<1>4. \A k \in 1 .. Len(tokens) : tokens[k].kind \notin {"obj", "stream"}
  BY <1>3
<1>. QED  BY <1>1, <1>2, <1>3, <1>4, NestingPlain

\* Deleting and restarting happen between objects.
LEMMA NestingBetween ==
    ASSUME Disciplined, TypeOK, NInv,
           ShutdownAndContinue \/ \E id \in Nat : DeleteAnObject(id)
    PROVE  NInv'
<1>1. open = <<>> /\ UNCHANGED <<file, original>>
  BY DEF ShutdownAndContinue, DeleteAnObject, Nested, client
<1>2. streams = {} /\ streams' = {}
  <2>1. streams = {}
    BY <1>1, NoStream
  <2>. QED  BY <2>1 DEF ShutdownAndContinue, DeleteAnObject
<1>3. XrefFindsLastVersion' /\ UpdatesOK'
  BY <1>1, RestartStep, DeleteStep DEF ShutdownAndContinue, DeleteAnObject
<1>4. registry \in Registry
  BY DEF TypeOK, Registry
<1>5. ASSUME NEW x, Written(registry, x) PROVE Written(registry', x)
  <2>1. CASE ShutdownAndContinue
    <3>1. registry' = WriteAndReadState(registry)
      BY <2>1 DEF ShutdownAndContinue
    <3>2. ObjectIDs(registry') = ObjectIDs(registry)
      BY <1>4, <3>1, Restored DEF ObjectIDs
    <3>3. x \in ObjectIDs(registry) /\ registry[x + 1] \in ObjectWriteInformation
          /\ registry[x + 1].written
      BY <1>4, <1>5, EntryType DEF Written
    <3>4. registry'[x + 1].written
      BY <1>4, <3>1, <3>3, Restored, SavedEntry
    <3>. QED  BY <3>2, <3>3, <3>4 DEF Written
  <2>2. ASSUME NEW id \in Nat, DeleteAnObject(id) PROVE Written(registry', x)
    <3>1. registry' = DeleteObject(registry, id)
      BY <2>2 DEF DeleteAnObject
    <3>2. CASE CanDelete(registry, id)
      BY <1>4, <1>5, <3>1, <3>2, DeletedEntry DEF Written
    <3>3. CASE ~CanDelete(registry, id)
      BY <1>5, <3>1, <3>3 DEF DeleteObject
    <3>. QED  BY <3>2, <3>3
  <2>. QED  BY <2>1, <2>2
<1>6. LengthsOwed'
  BY <1>1, <1>2, <1>5 DEF NInv, LengthsOwed
<1>7. OneStream' /\ original' \in OriginalXrefs /\ Len(file') > Len(original')
  BY <1>1, <1>2 DEF NInv, OneStream
<1>. QED  BY <1>3, <1>6, <1>7 DEF NInv

\* Data that is written, or held back.
LEMMA NestingStreamData ==
    ASSUME TypeOK, NInv, NEW s \in streams, WriteStreamData(s)
    PROVE  NInv'
<1>1. UNCHANGED <<registry, original>> /\ open' = open /\ s \in Stream
  BY DEF WriteStreamData, client, TypeOK
<1>2. CASE Emit(<<Tk("data", s.key, s.extent)>>) /\ UNCHANGED streams
  <2>1. Tk("data", s.key, s.extent) \in Token
        /\ Tk("data", s.key, s.extent).kind \notin {"obj", "stream"}
    BY <1>1, TokenTypes, Fields DEF TokenKinds, Stream
  <2>2. StreamsKept
    BY <1>1, <1>2 DEF StreamsKept
  <2>. QED  BY <1>1, <1>2, <2>1, <2>2, NestingToken
<1>3. CASE streams' = (streams \ {s}) \cup {[s EXCEPT !.pending = 1]} /\ UNCHANGED file
  <2>1. PICK t : t = [s EXCEPT !.pending = 1]
    OBVIOUS
  <2>2. t.extent = s.extent /\ t.pending = 1
    BY <1>1, <2>1 DEF Stream
  <2>3. /\ open = <<"obj", "stream">> /\ streams = {s}
        /\ s.extent \in ObjectIDs(registry) /\ s.extent > Len(original)
        /\ ~registry[s.extent + 1].written
    BY DEF NInv, OneStream
  <2>4. streams' = {t}
    BY <1>3, <2>1, <2>3
  <2>5. OneStream'
    BY <1>1, <2>2, <2>3, <2>4 DEF OneStream
  <2>6. PICK tokens \in Seq(Token) : file' = file \o tokens /\ Len(tokens) = 0
    BY <1>3, NoTokens
  <2>7. Extends(registry', registry) /\ \A k \in 1 .. Len(tokens) : tokens[k].kind # "obj"
    BY <1>1, <2>6 DEF Extends
  <2>8. XrefFindsLastVersion' /\ UpdatesOK'
    BY <1>1, <2>6, <2>7, UnmarkedStep
  <2>9. LengthsOwed'
    BY <1>1, <1>3, <2>2, <2>3, <2>4 DEF NInv, LengthsOwed, Written
  <2>10. original' \in OriginalXrefs /\ Len(file') > Len(original')
    BY <1>1, <1>3 DEF NInv
  <2>. QED  BY <2>5, <2>8, <2>9, <2>10 DEF NInv
<1>. QED  BY <1>2, <1>3 DEF WriteStreamData

\* The length object of a stream is the registry's last, and waits for the stream's end.
LEMMA NestingStartStream ==
    ASSUME Disciplined, TypeOK, NInv, NEW i \in Nat, NEW compressed \in BOOLEAN,
           StartStream(i, compressed)
    PROVE  NInv'
<1> DEFINE tokens == OwnOpening(i) \o <<Tk(">>", 0, 0), Tk("stream", StreamKey, Len(registry))>>
<1>1. /\ StreamKey \in Nat /\ registry \in Registry /\ Len(registry) \in Nat
      /\ Len(original) \in Nat /\ Len(registry) > Len(original)
  BY KeysTypes, LenProperties DEF TypeOK, Registry
<1>2. /\ tokens \in Seq(Token) /\ Len(tokens) \in 2 .. 3
      /\ tokens[Len(tokens)] = Tk("stream", StreamKey, Len(registry))
      /\ \A k \in 1 .. Len(tokens) : k # Len(tokens) => tokens[k].kind \in {"<<", ">>"}
  BY <1>1, StartTokens
<1>3. /\ registry' = AllocateNewObjectID(registry) /\ file' = file \o tokens
      /\ open' = <<"obj", "stream">> /\ original' = original
  BY DEF StartStream, GetObjectsCount, Emit
<1>4. streams = {}
  <2>1. open = <<"obj">> \/ open = <<"obj", "<<">>
    BY DEF StartStream, MayStartStream, Nested
  <2>2. open[Len(open)] # "stream"
    BY <2>1
  <2>. QED  BY <2>2, NoStream
<1>5. PICK t : streams' = {t} /\ t.extent = Len(registry) /\ t.pending = 0
  <2> DEFINE t == [extent |-> Len(registry), start |-> Len(file) + Len(tokens),
                   compressed |-> compressed, key |-> StreamKey, pending |-> 0]
  <2>1. streams' = {t}
    BY <1>4 DEF StartStream, GetObjectsCount
  <2>2. t.extent = Len(registry) /\ t.pending = 0
    OBVIOUS
  <2> HIDE DEF t
  <2>. QED  BY <2>1, <2>2
<1> HIDE DEF tokens
<1>6. /\ ObjectIDs(registry') = ObjectIDs(registry) \cup {Len(registry)}
      /\ Len(registry) \notin ObjectIDs(registry) /\ registry'[Len(registry) + 1] = NewObject
      /\ \A id \in ObjectIDs(registry) : registry'[id + 1] = registry[id + 1]
  BY <1>1, <1>3, AllocatedLast
<1>7. Extends(registry', registry)
  BY <1>6 DEF Extends, NewObject
<1>8. XrefFindsLastVersion' /\ UpdatesOK'
  <2>1. \A k \in 1 .. Len(tokens) : tokens[k].kind # "obj"
    BY <1>2, Fields
  <2>. QED  BY <1>2, <1>3, <1>7, <2>1, UnmarkedStep
<1>9. LengthsOwed'
  <2>1. \A k \in 1 .. Len(tokens) : tokens[k].kind = "stream" => tokens[k].val = Len(registry)
    BY <1>2, Fields
  <2>2. \A id : Written(registry, id) => Written(registry', id)
    BY <1>6 DEF Written
  <2>. QED  BY <1>2, <1>3, <1>4, <1>5, <2>1, <2>2, OwedStay DEF NInv
<1>10. OneStream'
  <2>1. Len(registry) \in ObjectIDs(registry') /\ ~registry'[Len(registry) + 1].written
    BY <1>6 DEF NewObject
  <2>. QED  BY <1>1, <1>3, <1>5, <2>1 DEF OneStream
<1>11. original' \in OriginalXrefs /\ Len(file') > Len(original')
  <2>1. Len(file') = Len(file) + Len(tokens) /\ Len(file) \in Nat
    BY <1>2, <1>3, FileGrows
  <2>. QED  BY <1>1, <1>2, <1>3, <2>1 DEF NInv
<1>. QED  BY <1>8, <1>9, <1>10, <1>11 DEF NInv

\* The length object is marked where its header follows the stream.
LEMMA NestingEndStream ==
    ASSUME Disciplined, PositionsFit, IInv, NInv, NEW s \in streams, EndPDFStream(s)
    PROVE  NInv'
<1>1. /\ open = <<"obj", "stream">> /\ streams = {s} /\ s.pending \in 0 .. 1
      /\ s.extent \in ObjectIDs(registry) /\ s.extent > Len(original)
      /\ ~registry[s.extent + 1].written
  BY DEF NInv, OneStream
<1>2. /\ TypeOK /\ s \in Stream /\ s.extent \in Nat /\ s.start \in Nat /\ s.start <= Len(file)
      /\ Len(file) \in Nat /\ registry \in Registry /\ Len(registry) \in Nat
      /\ Len(original) \in Nat /\ s.extent < Len(registry)
  BY <1>1, LenProperties DEF IInv, TypeOK, Stream, StreamsStarted, Registry, ObjectIDs
<1>3. PICK p \in 0 .. 1 : p = s.pending
  BY <1>1
<1>4. StreamLength(s) \in Nat
  BY <1>2, <1>3 DEF StreamLength
<1>5. PICK tokens : tokens = EndTokens(s)
  OBVIOUS
<1>6. /\ tokens \in Seq(Token) /\ Len(tokens) = p + 5
      /\ \A k \in 1 .. p : tokens[k] = Tk("data", s.key, s.extent)
      /\ tokens[p + 1] = Tk("endstream", 0, s.extent) /\ tokens[p + 2] = Tk("endobj", 0, 0)
      /\ tokens[p + 3] = Tk("obj", s.extent, 0)
      /\ tokens[p + 4] = Tk("length", s.extent, StreamLength(s))
      /\ tokens[p + 5] = Tk("endobj", 0, 0)
  BY <1>2, <1>3, <1>4, <1>5, EndTokensAre
<1>7. HeldData(s) \o <<Tk("endstream", 0, s.extent), Tk("endobj", 0, 0)>> \in Seq(Token)
      /\ Len(HeldData(s) \o <<Tk("endstream", 0, s.extent), Tk("endobj", 0, 0)>>) = p + 2
  <2>1. PICK two : two = <<Tk("endstream", 0, s.extent), Tk("endobj", 0, 0)>>
    OBVIOUS
  <2>2. two \in Seq(Token) /\ Len(two) = 2
    <3>1. Tk("endstream", 0, s.extent) \in Token /\ Tk("endobj", 0, 0) \in Token
      BY <1>2, TokenTypes DEF TokenKinds
    <3>. QED  BY <2>1, <3>1, Pairs
  <2>3. PICK held : held = HeldData(s) /\ held \in Seq(Token) /\ Len(held) = p
    BY <1>2, <1>3, HeldTypes
  <2>4. held \o two \in Seq(Token) /\ Len(held \o two) = p + 2
    <3>1. held \o two \in Seq(Token) /\ Len(held \o two) = Len(held) + Len(two)
      BY <2>2, <2>3, ConcatProperties
    <3>. QED  BY <2>2, <2>3, <3>1
  <2>. QED  BY <2>1, <2>3, <2>4
<1>8. file' = file \o tokens
  BY <1>5, <1>7 DEF EndPDFStream, Emit, EndTokens
<1>9. PICK position \in Nat : position = Len(file) + (p + 2) /\ position <= MaxWritePosition
  <2>1. SmallEnough
    BY DEF EndPDFStream
  <2>. QED  BY <1>2, <2>1, Fits, RegistryAssumption
<1>10. registry' = MarkObjectAsWritten(registry, s.extent, position)
  BY <1>7, <1>9 DEF EndPDFStream, ExtentWritten
<1>11. Marks(registry', registry, s.extent, position) /\ registry'[s.extent + 1].written
  BY <1>1, <1>2, <1>9, <1>10, WrittenIsMarked DEF CanMarkAsWritten
<1>12. original' = original /\ streams' = {}
  BY <1>1 DEF EndPDFStream
<1>13. ASSUME NEW k \in 1 .. Len(tokens)
       PROVE  tokens[k].kind # "stream" /\ (tokens[k].kind = "obj" => k = p + 3)
  <2>1. k \in 1 .. p \/ k = p + 1 \/ k = p + 2 \/ k = p + 3 \/ k = p + 4 \/ k = p + 5
    BY <1>3, <1>6
  <2>2. /\ \A n \in 1 .. p : tokens[n].kind = "data"
        /\ tokens[p + 1].kind = "endstream" /\ tokens[p + 2].kind = "endobj"
        /\ tokens[p + 4].kind = "length" /\ tokens[p + 5].kind = "endobj"
        /\ tokens[p + 3].kind = "obj"
    BY <1>6, Fields
  <2>. QED  BY <2>1, <2>2
<1>14. XrefFindsLastVersion' /\ UpdatesOK'
  <2>1. p + 3 \in 1 .. Len(tokens)
    <3>1. p + 3 \in 1 .. p + 5
      BY <1>3
    <3>. QED  BY <1>6, <3>1
  <2>2. position = Len(file) + (p + 3) - 1
    <3>1. PICK n \in Nat : n = Len(file)
      BY <1>2
    <3>2. n + (p + 2) = n + (p + 3) - 1
      BY <1>3
    <3>. QED  BY <1>9, <3>1, <3>2
  <2>3. IsHeaderOf(tokens[p + 3], s.extent)
    BY <1>6, Fields DEF IsHeaderOf
  <2>. QED  BY <1>2, <1>6, <1>8, <1>11, <1>12, <1>13, <2>1, <2>2, <2>3, MarkStep
<1>15. LengthsOwed'
  <2>1. \A id : Written(registry, id) => Written(registry', id)
    BY <1>11 DEF Written, Marks
  <2>2. Written(registry', s.extent)
    BY <1>11 DEF Written, Marks
  <2>. QED  BY <1>1, <1>2, <1>6, <1>8, <1>13, <2>1, <2>2, OwedStay DEF NInv
<1>16. OneStream'
  BY <1>12 DEF OneStream
<1>17. original' \in OriginalXrefs /\ Len(file') > Len(original')
  <2>1. Len(file') = Len(file) + Len(tokens)
    BY <1>2, <1>6, <1>8, FileGrows
  <2>. QED  BY <1>2, <1>3, <1>6, <1>12, <2>1 DEF NInv
<1>. QED  BY <1>14, <1>15, <1>16, <1>17 DEF NInv

-----------------------------------------------------------------------------
(***************************************************************************)
(* The theorems.                                                           *)
(***************************************************************************)

\* An object of a modified file is clean, and written if it is in use.
LEMMA ExistingItems ==
    ASSUME NEW entry \in XrefEntryInput
    PROVE  /\ ExistingItem(entry) \in ObjectWriteInformation
           /\ ~ExistingItem(entry).dirty /\ ExistingItem(entry).generation \in Nat
           /\ ExistingItem(entry).generation >= ExistingItem(entry).generation
           /\ ExistingItem(entry).type = "Used" => ExistingItem(entry).written
<1>1. ExistingItem(entry) \in ObjectWriteInformation
  BY RegistryAssumption DEF ExistingItem, XrefEntryInput, ObjectWriteInformation, ReferenceTypes
<1>2. PICK g \in Nat : g = ExistingItem(entry).generation
  BY <1>1, RegistryAssumption DEF ObjectWriteInformation
<1>3. ~ExistingItem(entry).dirty
  BY DEF ExistingItem
<1>4. ExistingItem(entry).type = "Used" => ExistingItem(entry).written
  BY DEF ExistingItem
<1>. QED  BY <1>1, <1>2, <1>3, <1>4

\* The entries of a modified file follow the free head.
LEMMA InitialRegistry ==
    ASSUME Init
    PROVE  /\ Len(registry) = Len(original) + 1 /\ registry[1] = InitialFreeObject
           /\ \A id \in OriginalIDs : registry[id + 1] = ExistingItem(original[id])
<1> DEFINE items == [i \in 1 .. Len(original) |-> ExistingItem(original[i])]
<1>1. original \in Seq(XrefEntryInput) /\ Len(original) \in Nat
  BY ContextAssumption, LenProperties DEF Init
<1>2. /\ items \in Seq(ObjectWriteInformation) /\ Len(items) = Len(original)
      /\ \A id \in OriginalIDs : items[id] = ExistingItem(original[id])
  <2>1. \A k \in 1 .. Len(original) : ExistingItem(original[k]) \in ObjectWriteInformation
    BY <1>1, ElementOfSeq, ExistingItems
  <2>. QED  BY <1>1, <2>1 DEF OriginalIDs
<1>3. registry = EmptyRegistry \o items
  BY DEF Init, SetupXrefFromModifiedFile
<1>4. PICK first : first = EmptyRegistry
  OBVIOUS
<1>5. /\ first \in Seq(ObjectWriteInformation) /\ Len(first) = 1
      /\ first[1] = InitialFreeObject
  BY <1>4, RegistryAssumption
     DEF EmptyRegistry, InitialFreeObject, ObjectWriteInformation, ReferenceTypes
<1> HIDE DEF items
<1>6. /\ Len(registry) = Len(first) + Len(items)
      /\ \A k \in 1 .. Len(first) + Len(items) :
            registry[k] = IF k <= Len(first) THEN first[k] ELSE items[k - Len(first)]
  <2>1. registry = first \o items
    BY <1>3, <1>4
  <2>2. PICK its \in Seq(ObjectWriteInformation) : its = items
    BY <1>2
  <2>3. /\ Len(first \o its) = Len(first) + Len(its)
        /\ \A k \in 1 .. Len(first) + Len(its) :
              (first \o its)[k] = IF k <= Len(first) THEN first[k] ELSE its[k - Len(first)]
    BY <1>5, ConcatProperties
  <2>. QED  BY <2>1, <2>2, <2>3
<1>7. ASSUME NEW id \in 1 .. Len(original) PROVE registry[id + 1] = items[id]
  <2>1. id + 1 \in 1 .. 1 + Len(original) /\ ~(id + 1 <= 1) /\ id + 1 - 1 = id
    BY <1>1
  <2>2. Len(first) + Len(items) = 1 + Len(original)
    BY <1>2, <1>5
  <2>3. \A k \in 1 .. 1 + Len(original) : ~(k <= 1) => registry[k] = items[k - 1]
    BY <1>5, <1>6, <2>2
  <2>. QED  BY <2>1, <2>3
<1>. QED  BY <1>1, <1>2, <1>5, <1>6, <1>7 DEF OriginalIDs

\* In the beginning the registry says what the modified file does.
LEMMA NestingInit == Init => NInv
<1>. SUFFICES ASSUME Init PROVE NInv
  OBVIOUS
<1>1. /\ TypeOK /\ original \in OriginalXrefs /\ streams = {} /\ Len(original) \in Nat
      /\ original \in Seq(XrefEntryInput)
  BY InitHolds, LenProperties, ContextAssumption DEF Init, IInv
<1>2. Len(file) = 1 + Len(original)
  <2> DEFINE rest == [i \in 1 .. Len(original) |-> OriginalToken(original[i], i)]
             first == <<Tk("header", 0, 0)>>
  <2>1. first \in Seq({first[1]}) /\ Len(first) = 1
    OBVIOUS
  <2>2. rest \in Seq({rest[i] : i \in 1 .. Len(original)}) /\ Len(rest) = Len(original)
    BY <1>1
  <2>3. file = first \o rest
    BY DEF Init
  <2>4. PICK S, T : first \in Seq(S) /\ rest \in Seq(T)
    BY <2>1, <2>2
  <2> HIDE DEF first, rest
  <2>5. first \in Seq(S \cup T) /\ rest \in Seq(S \cup T)
    BY <2>4
  <2>6. Len(first \o rest) = Len(first) + Len(rest)
    BY <2>5, ConcatProperties
  <2>. QED  BY <2>1, <2>2, <2>3, <2>6
<1>3. /\ Len(registry) = Len(original) + 1 /\ registry[1] = InitialFreeObject
      /\ \A id \in OriginalIDs : /\ registry[id + 1] = ExistingItem(original[id])
                                 /\ original[id] \in XrefEntryInput
  <2>1. \A id \in OriginalIDs : original[id] \in XrefEntryInput
    BY <1>1, ElementOfSeq DEF OriginalIDs
  <2>. QED  BY <2>1, InitialRegistry
<1>4. UpdatesOK
  <2>1. \A id \in OriginalIDs : HeadersSince(OriginalLength, id) = {}
    BY <1>1, <1>2 DEF HeadersSince, OriginalLength
  <2>2. ASSUME NEW id \in OriginalIDs
        PROVE  /\ ~registry[id + 1].dirty
               /\ registry[id + 1].generation >= registry[id + 1].generation
               /\ registry[id + 1].type = "Used" => registry[id + 1].written
    BY <1>3, ExistingItems
  <2>. QED  BY <1>3, <2>1, <2>2 DEF UpdatesOK, UpdateOK
<1>5. XrefFindsLastVersion
  <2>1. Listed(registry) = {}
    <3>1. \A id \in ObjectIDs(registry) : id = 0 \/ id \in OriginalIDs
      BY <1>1, <1>3 DEF ObjectIDs, OriginalIDs
    <3>2. \A id \in OriginalIDs : ~registry[id + 1].dirty
      BY <1>3, ExistingItems
    <3>3. 0 + 1 = 1 /\ registry[1].type = "Free"
      BY <1>3 DEF InitialFreeObject
    <3>. QED  BY <3>1, <3>2, <3>3 DEF Listed, DirtyIDs
  <2>. QED  BY <2>1 DEF XrefFindsLastVersion, Listed
<1>6. LengthsOwed
  BY OriginalTokens DEF LengthsOwed
<1>. QED  BY <1>1, <1>2, <1>4, <1>5, <1>6 DEF NInv, OneStream

LEMMA NestingNext == Disciplined /\ PositionsFit /\ IInv /\ NInv /\ [Next]_vars => NInv'
<1>. SUFFICES ASSUME Disciplined, PositionsFit, IInv, NInv, [Next]_vars PROVE NInv'
  OBVIOUS
<1>1. TypeOK /\ GetObjectsCount(registry) \in Nat /\ Len(dictionaryStack) \in Nat
  BY LenProperties DEF IInv, TypeOK, GetObjectsCount
<1>2. CASE \/ StartNewIndirectObject
           \/ \E id \in 0 .. GetObjectsCount(registry) :
                 StartNewIndirectObjectWithID(id) \/ StartModifiedIndirectObject(id)
  BY <1>1, <1>2, NestingStarts
<1>3. CASE \/ EndIndirectObject \/ StartDictionary \/ EndDictionary
           \/ \E value \in BOOLEAN : SetCompressStreams(value)
           \/ \E i \in 1 .. Len(dictionaryStack), key \in ClientKeys : WriteKey(i, key)
           \/ \E i \in 0 .. Len(dictionaryStack), compressed \in BOOLEAN :
                 StartStreamDuplicateKey(i, compressed)
           \/ WriteXrefTable \/ UNCHANGED vars
  <2>1. \/ EndIndirectObject \/ StartDictionary \/ EndDictionary
        \/ \E value \in BOOLEAN : SetCompressStreams(value)
        \/ \E i \in Nat, key \in ClientKeys : WriteKey(i, key)
        \/ \E i \in Nat, compressed \in BOOLEAN : StartStreamDuplicateKey(i, compressed)
        \/ WriteXrefTable \/ UNCHANGED vars
    BY <1>1, <1>3
  <2>. QED  BY <1>1, <2>1, NestingOrdinary
<1>4. CASE AllocateNewObject
  BY <1>1, <1>4, NestingAllocate
<1>5. CASE ShutdownAndContinue \/ \E id \in 0 .. GetObjectsCount(registry) : DeleteAnObject(id)
  BY <1>1, <1>5, NestingBetween
<1>6. CASE \E i \in 0 .. Len(dictionaryStack), compressed \in BOOLEAN : StartStream(i, compressed)
  BY <1>1, <1>6, NestingStartStream
<1>7. ASSUME NEW i \in 0 .. Len(dictionaryStack), NEW compressed \in BOOLEAN,
             StartStreamBadNesting(i, compressed)
      PROVE  FALSE
  <2>1. i = Len(dictionaryStack) /\ i \in 1 .. Len(dictionaryStack) - 1
    BY <1>7 DEF StartStreamBadNesting, MayStartStream, Nested
  <2>. QED  BY <1>1, <2>1
<1>8. CASE \E s \in streams : WriteStreamData(s)
  BY <1>1, <1>8, NestingStreamData
<1>9. CASE \E s \in streams : EndPDFStream(s)
  BY <1>9, NestingEndStream
<1>. QED  BY <1>2, <1>3, <1>4, <1>5, <1>6, <1>7, <1>8, <1>9 DEF Next

LEMMA NestingHolds ==
    ASSUME Disciplined, PositionsFit
    PROVE  Spec => [](TypeOK /\ NInv)
<1>1. IInv => TypeOK
  BY DEF IInv
<1>2. IInv /\ NInv /\ [Next]_vars => NInv'
  BY NestingNext
<1>. QED  BY <1>1, <1>2, NestingInit, Invariance, PTL DEF Spec

\* Of a client that nests its calls, whatever it writes, modifies, deletes and writes
\* again, over restarts too, a reader finds the last version of each object: no header
\* of it follows the one its entry points at.
THEOREM LastVersionCorrect ==
    ASSUME Disciplined, PositionsFit
    PROVE  Spec => []XrefFindsLastVersion
<1>1. NInv => XrefFindsLastVersion
  BY DEF NInv
<1>. QED  BY <1>1, NestingHolds, PTL

\* Such a client's update of a file lists exactly those of the file's objects that it
\* wrote again or deleted, and says of the others what the file said.
THEOREM UpdateCorrect ==
    ASSUME Disciplined, PositionsFit
    PROVE  Spec => []UpdateListsWhatChanged
<1>1. NInv => UpdateListsWhatChanged
  BY DEF NInv, UpdatesOK, UpdateOK, UpdateListsWhatChanged
<1>. QED  BY <1>1, NestingHolds, PTL

\* Between its objects such a client owes no length: that of each stream it wrote, which
\* had an ID before it had a value, is written, so that the xref table can be.
THEOREM NoLengthMissingCorrect ==
    ASSUME Disciplined, PositionsFit
    PROVE  Spec => []NoLengthIsMissing
<1>1. TypeOK /\ NInv => NoLengthIsMissing
  <2>. SUFFICES ASSUME TypeOK, NInv, open = <<>>,
                       NEW k \in 1 .. Len(file), file[k].kind = "stream"
                PROVE  file[k].val \notin Missing
    BY DEF NoLengthIsMissing
  <2>1. Written(registry, file[k].val)
    BY NoStream DEF NInv, LengthsOwed
  <2>. QED  BY <2>1 DEF Written, Missing
<1>. QED  BY <1>1, NestingHolds, PTL
=============================================================================
