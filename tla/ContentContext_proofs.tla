------------------------- MODULE ContentContext_proofs -------------------------
(***************************************************************************)
(* Text is shown in the font that was chosen for it, and names keep their  *)
(* meaning, whatever the fonts, objects and bounds are.  The invariant     *)
(* says that what the library remembers of the font it placed last is what *)
(* a reader has in effect, on every level of the stack of states, and that *)
(* the counters of the resources are ahead of the names given out.         *)
(***************************************************************************)
EXTENDS ContentContext, SequenceTheorems, FiniteSetTheorems, NaturalsInduction,
        WellFoundedInduction, TLAPS

IsResources(d) ==
    /\ d = [maps |-> d.maps, counts |-> d.counts]
    /\ d.counts \in [Kinds -> Nat]
    /\ d.maps = [c \in Categories |-> d.maps[c]]

\* A name given out has the prefix of a kind of its map and a number that the
\* kind's counter has reached.
NamesAreCounted(d) ==
    \A c \in Categories : \A i \in DOMAIN d.maps[c] :
        /\ i # NoID
        /\ d.maps[c][i] \in Kinds \X Nat
        /\ MapOf(d.maps[c][i][1]) = c
        /\ d.maps[c][i][2] <= d.counts[d.maps[c][i][1]]

ResourcesOK(d) == IsResources(d) /\ NamesAreCounted(d) /\ NamesAreDistinct(d)

Keeps(d, e) ==
    \A c \in Categories : \A i \in DOMAIN d.maps[c] :
        i \in DOMAIN e.maps[c] /\ e.maps[c][i] = d.maps[c][i]

Given(d, category, id, name) ==
    id \in DOMAIN d.maps[category] /\ d.maps[category][id] = name

IsContent(c) ==
    c = [stack |-> c.stack, level |-> c.level, read |-> c.read,
         resources |-> c.resources, uses |-> c.uses]

ReadStates == [name : Names, size : Nat]

\* The reader's states are the ones the library remembers.
StacksOK(c) ==
    /\ c.stack \in Seq(States)
    /\ c.read \in Seq(ReadStates)
    /\ Len(c.read) = Len(c.stack)
    /\ Len(c.stack) > 0
    /\ \A k \in 1..Len(c.stack) :
        c.read[k] = [name |-> c.stack[k].placedName, size |-> c.stack[k].placedSize]

UsesOK(c) ==
    \A u \in c.uses :
        u.category \in Categories /\ Given(c.resources, u.category, u.id, u.name)

ContentOK(c) ==
    IsContent(c) /\ StacksOK(c) /\ ResourcesOK(c.resources) /\ UsesOK(c)

\* The font that is placed is the object's, in the size that was chosen.
ShowsFont(c, id) ==
    /\ Given(c.resources, "Font", id, Top(c.stack).placedName)
    /\ Top(c.stack).placedSize = Top(c.stack).size

IInv ==
    /\ ContentOK(content)
    /\ last.font # NoID => ShowsFont(content, last.font)

--------------------------------------------------------------------------------
(* The names.                                                               *)

\* The map of a kind is a category, and prefixes tell the kinds apart.
LEMMA KindsHaveMaps == \A kind \in Kinds : MapOf(kind) \in Categories
  BY DEF Categories

\* Where a kind is looked up is a category too.
LEMMA KindsAreLookedUp ==
  /\ \A kind \in Kinds : LookedUpIn(kind) \in Categories
  /\ \A kind \in Kinds \ {"ExtGState"} : LookedUpIn(kind) = MapOf(kind)
<1>1. "XObject" \in Kinds /\ MapOf("XObject") = "XObject"
  BY DEF Kinds, XObjectKinds, MapOf
<1>2. "XObject" \in Categories
  BY <1>1 DEF Categories
<1>3. QED
  BY <1>2, KindsHaveMaps DEF LookedUpIn

\* The next name of a kind is none that its map has.
LEMMA NextNameIsNew ==
  ASSUME NEW d, ResourcesOK(d), NEW kind \in Kinds
  PROVE  /\ NextName(d, kind) \in Kinds \X Nat
         /\ \A i \in DOMAIN d.maps[MapOf(kind)] :
                d.maps[MapOf(kind)][i] # NextName(d, kind)
<1>1. d.counts[kind] \in Nat
  BY DEF ResourcesOK, IsResources
<1>2. NextName(d, kind) \in Kinds \X Nat
  BY <1>1 DEF NextName
<1>3. ASSUME NEW i \in DOMAIN d.maps[MapOf(kind)],
             d.maps[MapOf(kind)][i] = NextName(d, kind)
      PROVE FALSE
  <2>1. d.maps[MapOf(kind)][i][2] <= d.counts[d.maps[MapOf(kind)][i][1]]
    BY KindsHaveMaps DEF ResourcesOK, NamesAreCounted
  <2>2. d.maps[MapOf(kind)][i][1] = kind /\ d.maps[MapOf(kind)][i][2] = d.counts[kind] + 1
    BY <1>3 DEF NextName
  <2>3. QED
    BY <1>1, <2>1, <2>2
<1>4. QED
  BY <1>2, <1>3

\* Inserting an object under the next name keeps the names distinct and counted.
LEMMA InsertingIsOK ==
  ASSUME NEW d, ResourcesOK(d), NEW kind \in Kinds, NEW id \in Nat, id # NoID,
         id \notin DOMAIN d.maps[MapOf(kind)],
         NEW e,
         e = [maps |-> [d.maps EXCEPT ![MapOf(kind)] =
                  [i \in DOMAIN d.maps[MapOf(kind)] \cup {id} |->
                      IF i = id THEN NextName(d, kind) ELSE d.maps[MapOf(kind)][i]]],
              counts |-> [d.counts EXCEPT ![kind] = d.counts[kind] + 1]]
  PROVE  ResourcesOK(e) /\ Keeps(d, e) /\ Given(e, MapOf(kind), id, NextName(d, kind))
<1> DEFINE m == MapOf(kind)
           f == [i \in DOMAIN d.maps[m] \cup {id} |->
                    IF i = id THEN NextName(d, kind) ELSE d.maps[m][i]]
<1>0. m \in Categories
  BY KindsHaveMaps
<1>1. IsResources(d) /\ NamesAreCounted(d) /\ NamesAreDistinct(d)
  BY DEF ResourcesOK
<1>2. e.maps = [d.maps EXCEPT ![m] = f] /\ e.counts = [d.counts EXCEPT ![kind] = @ + 1]
      /\ e = [maps |-> e.maps, counts |-> e.counts]
  OBVIOUS
<1>3. e.maps = [c \in Categories |-> IF c = m THEN f ELSE d.maps[c]]
  BY <1>1, <1>2 DEF IsResources
<1>4. /\ e.counts \in [Kinds -> Nat]
      /\ \A k \in Kinds : d.counts[k] <= e.counts[k]
      /\ e.counts[kind] = d.counts[kind] + 1
  BY <1>1, <1>2 DEF IsResources
<1> HIDE DEF m, f
<1>5. \A c \in Categories : e.maps[c] = IF c = m THEN f ELSE d.maps[c]
  BY <1>3
<1>6. /\ DOMAIN f = DOMAIN d.maps[m] \cup {id}
      /\ f[id] = NextName(d, kind)
      /\ \A i \in DOMAIN d.maps[m] : f[i] = d.maps[m][i]
  BY DEF f, m
<1>7. IsResources(e)
  <2>1. e.maps = [c \in Categories |-> e.maps[c]]
    BY <1>3
  <2>2. QED
    BY <1>2, <1>4, <2>1 DEF IsResources
<1>8. NamesAreCounted(e)
  <2> SUFFICES ASSUME NEW c \in Categories, NEW i \in DOMAIN e.maps[c]
               PROVE  /\ i # NoID
                      /\ e.maps[c][i] \in Kinds \X Nat
                      /\ MapOf(e.maps[c][i][1]) = c
                      /\ e.maps[c][i][2] <= e.counts[e.maps[c][i][1]]
    BY DEF NamesAreCounted
  <2>1. CASE c = m /\ i = id
    <3>1. e.maps[c][i] = NextName(d, kind)
      BY <2>1, <1>5, <1>6
    <3>2. d.counts[kind] \in Nat
      BY <1>1 DEF IsResources
    <3>3. QED
      BY <2>1, <3>1, <3>2, <1>4 DEF NextName, m
  <2>2. CASE ~(c = m /\ i = id)
    <3>1. i \in DOMAIN d.maps[c] /\ e.maps[c][i] = d.maps[c][i]
      BY <2>2, <1>5, <1>6
    <3>2. /\ i # NoID
          /\ d.maps[c][i] \in Kinds \X Nat
          /\ MapOf(d.maps[c][i][1]) = c
          /\ d.maps[c][i][2] <= d.counts[d.maps[c][i][1]]
      BY <3>1, <1>1 DEF NamesAreCounted
    <3>3. d.counts[d.maps[c][i][1]] <= e.counts[d.maps[c][i][1]]
      BY <3>2, <1>4
    <3>4. PICK k \in Kinds, n \in Nat : d.maps[c][i] = <<k, n>>
      BY <3>2
    <3>5. d.counts[k] \in Nat /\ e.counts[k] \in Nat
      BY <1>1, <1>4 DEF IsResources
    <3>6. n <= d.counts[k] /\ d.counts[k] <= e.counts[k]
      BY <3>2, <3>3, <3>4
    <3>7. QED
      BY <3>1, <3>2, <3>4, <3>5, <3>6
  <2>3. QED
    BY <2>1, <2>2
<1>9. NamesAreDistinct(e)
  <2> SUFFICES ASSUME NEW c \in Categories, NEW i \in DOMAIN e.maps[c],
                      NEW j \in DOMAIN e.maps[c], e.maps[c][i] = e.maps[c][j]
               PROVE  i = j
    BY DEF NamesAreDistinct
  <2>1. CASE c # m
    <3>1. e.maps[c] = d.maps[c]
      BY <2>1, <1>5
    <3>2. QED
      BY <3>1, <1>1 DEF NamesAreDistinct
  <2>2. CASE c = m
    <3>1. \A x \in DOMAIN d.maps[m] : f[x] # NextName(d, kind)
      BY <1>6, NextNameIsNew DEF m
    <3>2. \A x, y \in DOMAIN d.maps[m] : f[x] = f[y] => x = y
      BY <1>0, <1>1, <1>6 DEF NamesAreDistinct
    <3>3. f[i] = f[j] /\ i \in DOMAIN f /\ j \in DOMAIN f
      BY <2>2, <1>5
    <3>4. QED
      BY <3>1, <3>2, <3>3, <1>6
  <2>3. QED
    BY <2>1, <2>2
<1>10. Keeps(d, e)
  BY <1>5, <1>6 DEF Keeps
<1>11. Given(e, MapOf(kind), id, NextName(d, kind))
  BY <1>0, <1>5, <1>6 DEF Given, m
<1>12. QED
  BY <1>7, <1>8, <1>9, <1>10, <1>11 DEF ResourcesOK

\* Counting up alone does too.
LEMMA CountingIsOK ==
  ASSUME NEW d, ResourcesOK(d), NEW kind \in Kinds,
         NEW e, e = [maps |-> d.maps, counts |-> [d.counts EXCEPT ![kind] = d.counts[kind] + 1]]
  PROVE  ResourcesOK(e) /\ Keeps(d, e)
<1>1. IsResources(d) /\ NamesAreCounted(d) /\ NamesAreDistinct(d)
  BY DEF ResourcesOK
<1>2. /\ e = [maps |-> e.maps, counts |-> e.counts]
      /\ e.maps = d.maps
      /\ e.counts \in [Kinds -> Nat]
      /\ \A k \in Kinds : d.counts[k] \in Nat /\ e.counts[k] \in Nat
      /\ \A k \in Kinds : d.counts[k] <= e.counts[k]
  BY <1>1 DEF IsResources
<1> SUFFICES ASSUME NEW c \in Categories, NEW i \in DOMAIN d.maps[c]
             PROVE  d.maps[c][i][2] <= e.counts[d.maps[c][i][1]]
  BY <1>1, <1>2 DEF ResourcesOK, IsResources, NamesAreCounted, NamesAreDistinct, Keeps
<1>3. PICK k \in Kinds, n \in Nat : d.maps[c][i] = <<k, n>>
  BY <1>1 DEF NamesAreCounted
<1>4. n <= d.counts[k]
  BY <1>1, <1>3 DEF NamesAreCounted
<1>5. QED
  BY <1>2, <1>3, <1>4

\* Whatever is named, names that were given before stay.
LEMMA AddMappingIsOK ==
  ASSUME NEW d, ResourcesOK(d), NEW kind \in Kinds, NEW id \in Nat
  PROVE  ResourcesOK(AddMapping(d, kind, id)) /\ Keeps(d, AddMapping(d, kind, id))
<1>1. CASE IsFound(d, kind, id)
  BY <1>1 DEF AddMapping, Keeps
<1>2. CASE ~IsFound(d, kind, id) /\ IsInserted(d, kind, id)
  <2>1. id # NoID /\ id \notin DOMAIN d.maps[MapOf(kind)]
    BY <1>2 DEF IsInserted
  <2>2. AddMapping(d, kind, id) =
          [maps |-> [d.maps EXCEPT ![MapOf(kind)] =
               [i \in DOMAIN d.maps[MapOf(kind)] \cup {id} |->
                   IF i = id THEN NextName(d, kind) ELSE d.maps[MapOf(kind)][i]]],
           counts |-> [d.counts EXCEPT ![kind] = d.counts[kind] + 1]]
    BY <1>2 DEF AddMapping
  <2>3. QED
    BY <2>1, <2>2, InsertingIsOK
<1>3. CASE ~IsFound(d, kind, id) /\ ~IsInserted(d, kind, id)
  <2>1. AddMapping(d, kind, id) =
          [maps |-> d.maps, counts |-> [d.counts EXCEPT ![kind] = d.counts[kind] + 1]]
    BY <1>3 DEF AddMapping
  <2>2. QED
    BY <2>1, CountingIsOK
<1>4. QED
  BY <1>1, <1>2, <1>3

\* An object that is looked up where it is inserted has the name that is returned.
LEMMA NameIsGiven ==
  ASSUME NEW d, ResourcesOK(d), NEW kind \in Kinds \ {"ExtGState"},
         NEW id \in Nat, id # NoID
  PROVE  Given(AddMapping(d, kind, id), MapOf(kind), id, NameFor(d, kind, id))
<1>0. LookedUpIn(kind) = MapOf(kind)
  BY KindsAreLookedUp
<1>1. CASE IsFound(d, kind, id)
  BY <1>0, <1>1 DEF AddMapping, NameFor, Given, IsFound
<1>2. CASE ~IsFound(d, kind, id)
  <2>1. IsInserted(d, kind, id) /\ id \notin DOMAIN d.maps[MapOf(kind)]
    BY <1>0, <1>2 DEF IsFound, IsInserted
  <2>2. AddMapping(d, kind, id) =
          [maps |-> [d.maps EXCEPT ![MapOf(kind)] =
               [i \in DOMAIN d.maps[MapOf(kind)] \cup {id} |->
                   IF i = id THEN NextName(d, kind) ELSE d.maps[MapOf(kind)][i]]],
           counts |-> [d.counts EXCEPT ![kind] = d.counts[kind] + 1]]
    BY <1>2, <2>1 DEF AddMapping
  <2>3. NameFor(d, kind, id) = NextName(d, kind)
    BY <1>2, <2>1 DEF NameFor
  <2>4. QED
    BY <2>1, <2>2, <2>3, InsertingIsOK
<1>3. QED
  BY <1>1, <1>2

\* A name is a name.
LEMMA NameForType ==
  ASSUME NEW d, ResourcesOK(d), NEW kind \in Kinds, NEW id
  PROVE  NameFor(d, kind, id) \in Names
<1>1. NextName(d, kind) \in Kinds \X Nat
  BY NextNameIsNew
<1>2. \A c \in Categories : \A i \in DOMAIN d.maps[c] : d.maps[c][i] \in Kinds \X Nat
  BY DEF ResourcesOK, NamesAreCounted
<1>3. LookedUpIn(kind) \in Categories /\ MapOf(kind) \in Categories
  BY KindsAreLookedUp, KindsHaveMaps
<1>4. NameFor(d, kind, id) \in Kinds \X Nat
  BY <1>1, <1>2, <1>3 DEF NameFor, IsFound, IsInserted
<1>5. QED
  BY <1>4 DEF Names

\* A new dictionary has no names.
LEMMA EmptyResourcesOK == ResourcesOK(EmptyResources)
<1>1. EmptyResources.maps = [c \in Categories |-> <<>>]
      /\ EmptyResources.counts = [k \in Kinds |-> 0]
      /\ EmptyResources = [maps |-> EmptyResources.maps, counts |-> EmptyResources.counts]
  BY DEF EmptyResources
<1>2. \A c \in Categories : DOMAIN EmptyResources.maps[c] = {}
  BY <1>1
<1>3. EmptyResources.maps = [c \in Categories |-> EmptyResources.maps[c]]
  BY <1>1
<1>4. QED
  BY <1>1, <1>2, <1>3 DEF ResourcesOK, IsResources, NamesAreCounted, NamesAreDistinct

--------------------------------------------------------------------------------
(* The content.                                                             *)

\* Writing an operator touches nothing that is remembered.
LEMMA WroteIsOK ==
  ASSUME NEW c, ContentOK(c), NEW ops
  PROVE  /\ ContentOK(Wrote(c, ops))
         /\ Wrote(c, ops).stack = c.stack
         /\ Wrote(c, ops).resources = c.resources
         /\ \A id : ShowsFont(c, id) => ShowsFont(Wrote(c, ops), id)
<1> DEFINE w == Wrote(c, ops)
<1>1. IsContent(w) /\ w.stack = c.stack /\ w.read = c.read
      /\ w.resources = c.resources /\ w.uses = c.uses
  BY DEF ContentOK, IsContent, Wrote
<1> HIDE DEF w
<1>2. StacksOK(w) /\ UsesOK(w) /\ ResourcesOK(w.resources)
  BY <1>1 DEF ContentOK, StacksOK, UsesOK
<1>3. \A id : ShowsFont(c, id) => ShowsFont(w, id)
  BY <1>1 DEF ShowsFont
<1>4. QED
  BY <1>1, <1>2, <1>3 DEF ContentOK, w

\* Content with other stacks.
LEMMA StacksSuffice ==
  ASSUME NEW c, ContentOK(c), NEW e, IsContent(e), StacksOK(e),
         e.resources = c.resources, e.uses = c.uses
  PROVE  ContentOK(e)
  BY DEF ContentOK, UsesOK

\* What the top of the stacks is.
LEMMA TopsAgree ==
  ASSUME NEW c, ContentOK(c)
  PROVE  /\ Top(c.stack) \in States
         /\ Top(c.read) = [name |-> Top(c.stack).placedName,
                           size |-> Top(c.stack).placedSize]
         /\ Top(c.read).name = Top(c.stack).placedName
         /\ Top(c.read).size = Top(c.stack).placedSize
<1>1. /\ Top(c.stack) \in States
      /\ Top(c.read) = [name |-> Top(c.stack).placedName,
                        size |-> Top(c.stack).placedSize]
  BY DEF ContentOK, StacksOK, Top
<1>2. QED
  BY <1>1

\* q copies the states on both sides.
LEMMA PushedIsOK ==
  ASSUME NEW c, ContentOK(c)
  PROVE  ContentOK(Pushed(c))
<1> DEFINE w == Wrote(c, <<"q">>)
           p == Pushed(c)
<1>1. ContentOK(w)
  BY WroteIsOK
<1>0. p = [w EXCEPT !.stack = Append(w.stack, Top(w.stack)),
                    !.read = Append(w.read, Top(w.read))]
  BY DEF Pushed
<1> HIDE DEF w, p
<1>2. /\ IsContent(p)
      /\ p.stack = Append(w.stack, Top(w.stack))
      /\ p.read = Append(w.read, Top(w.read))
      /\ p.resources = w.resources /\ p.uses = w.uses
  BY <1>0, <1>1 DEF ContentOK, IsContent
<1>3. Top(w.stack) \in States /\ Top(w.read) \in ReadStates
      /\ Top(w.read) = [name |-> Top(w.stack).placedName, size |-> Top(w.stack).placedSize]
  BY <1>1, TopsAgree DEF States, ReadStates
<1>4. /\ w.stack \in Seq(States) /\ w.read \in Seq(ReadStates)
      /\ Len(w.read) = Len(w.stack) /\ Len(w.stack) \in Nat
      /\ \A k \in 1..Len(w.stack) :
            w.read[k] = [name |-> w.stack[k].placedName, size |-> w.stack[k].placedSize]
  BY <1>1 DEF ContentOK, StacksOK
<1>5. /\ p.stack \in Seq(States) /\ p.read \in Seq(ReadStates)
      /\ Len(p.stack) = Len(w.stack) + 1 /\ Len(p.read) = Len(w.stack) + 1
      /\ p.stack[Len(w.stack) + 1] = Top(w.stack)
      /\ p.read[Len(w.stack) + 1] = Top(w.read)
      /\ \A k \in 1..Len(w.stack) : p.stack[k] = w.stack[k] /\ p.read[k] = w.read[k]
  BY <1>2, <1>3, <1>4, AppendProperties
<1>6. ASSUME NEW k \in 1..Len(p.stack)
      PROVE  p.read[k] = [name |-> p.stack[k].placedName, size |-> p.stack[k].placedSize]
  <2>1. CASE k = Len(w.stack) + 1
    BY <2>1, <1>3, <1>5
  <2>2. CASE k # Len(w.stack) + 1
    <3>1. k \in 1..Len(w.stack)
      BY <2>2, <1>4, <1>5
    <3>2. QED
      BY <3>1, <1>4, <1>5
  <2>3. QED
    BY <2>1, <2>2
<1>7. StacksOK(p)
  BY <1>4, <1>5, <1>6 DEF StacksOK
<1>8. QED
  BY <1>1, <1>2, <1>7, StacksSuffice DEF p

\* Q restores them on both sides, and on neither at the bottom.
LEMMA PoppedIsOK ==
  ASSUME NEW c, ContentOK(c)
  PROVE  ContentOK(Popped(c))
<1> DEFINE w == Wrote(c, <<"Q">>)
           p == Popped(c)
<1>1. ContentOK(w) /\ w.stack = c.stack
  BY WroteIsOK
<1>2. CASE Len(c.stack) = 1
  BY <1>1, <1>2 DEF Popped
<1>3. CASE Len(c.stack) # 1
  <2>1. /\ IsContent(p)
        /\ p.stack = SubSeq(w.stack, 1, Len(w.stack) - 1)
        /\ p.read = SubSeq(w.read, 1, Len(w.read) - 1)
        /\ p.resources = w.resources /\ p.uses = w.uses
    BY <1>1, <1>3 DEF ContentOK, IsContent, Popped
  <2> HIDE DEF w, p
  <2>2. w.stack \in Seq(States) /\ w.read \in Seq(ReadStates)
        /\ Len(w.read) = Len(w.stack) /\ Len(w.stack) \in Nat /\ Len(w.stack) > 1
    <3>1. w.stack \in Seq(States) /\ w.read \in Seq(ReadStates)
          /\ Len(w.read) = Len(w.stack) /\ Len(w.stack) > 0
      BY <1>1 DEF ContentOK, StacksOK
    <3>2. Len(w.stack) # 1
      BY <1>1, <1>3
    <3>3. Len(w.stack) \in Nat
      BY <3>1
    <3>4. \A n \in Nat : n > 0 /\ n # 1 => n > 1
      OBVIOUS
    <3>5. Len(w.stack) > 1
      BY <3>1, <3>2, <3>3, <3>4, Zenon
    <3>6. QED
      BY <3>1, <3>3, <3>5, Zenon
  <2>3. /\ p.stack \in Seq(States) /\ p.read \in Seq(ReadStates)
        /\ Len(p.stack) = Len(w.stack) - 1 /\ Len(p.read) = Len(w.stack) - 1
        /\ \A k \in 1..Len(w.stack) - 1 : p.stack[k] = w.stack[k] /\ p.read[k] = w.read[k]
    <3> DEFINE n == Len(w.stack) - 1
    <3>1. n \in Nat /\ n > 0
      BY <2>2
    <3>2. /\ \A k \in 1..n : w.stack[k] \in States
          /\ \A k \in 1..n : w.read[k] \in ReadStates
      <4>1. \A k \in 1..n : k \in 1..Len(w.stack) /\ k \in 1..Len(w.read)
        BY <2>2
      <4>2. QED
        BY <2>2, <4>1, ElementOfSeq
    <3> HIDE DEF n
    <3>3. /\ SubSeq(w.stack, 1, n) \in Seq(States) /\ Len(SubSeq(w.stack, 1, n)) = n
          /\ \A k \in 1..n : SubSeq(w.stack, 1, n)[k] = w.stack[k]
      BY <3>1, <3>2, SubSeqProperties
    <3>4. /\ SubSeq(w.read, 1, n) \in Seq(ReadStates) /\ Len(SubSeq(w.read, 1, n)) = n
          /\ \A k \in 1..n : SubSeq(w.read, 1, n)[k] = w.read[k]
      BY <3>1, <3>2, SubSeqProperties
    <3>5. QED
      BY <2>1, <2>2, <3>3, <3>4 DEF n
  <2>4. StacksOK(p)
    BY <1>1, <2>2, <2>3 DEF ContentOK, StacksOK
  <2>5. QED
    BY <1>1, <2>1, <2>4, StacksSuffice DEF p
<1>4. QED
  BY <1>2, <1>3

\* Tf is remembered as it is read.
LEMMA PlacedIsOK ==
  ASSUME NEW c, ContentOK(c), NEW name \in Names, NEW size \in Nat
  PROVE  /\ ContentOK(Placed(c, name, size))
         /\ Placed(c, name, size).resources = c.resources
         /\ Top(Placed(c, name, size).stack).placedName = name
         /\ Top(Placed(c, name, size).stack).placedSize = size
         /\ Top(Placed(c, name, size).stack).size = Top(c.stack).size
<1> DEFINE w == Wrote(c, <<"Tf">>)
           p == Placed(c, name, size)
           s == [Top(w.stack) EXCEPT !.placedName = name, !.placedSize = size]
           r == [name |-> name, size |-> size]
<1>1. ContentOK(w) /\ w.stack = c.stack /\ w.resources = c.resources
  BY WroteIsOK
<1>0. p = [w EXCEPT !.stack = [w.stack EXCEPT ![Len(w.stack)] = s],
                    !.read = [w.read EXCEPT ![Len(w.read)] = r]]
  BY DEF Placed, WithTop
<1> HIDE DEF w, p
<1>3. Top(w.stack) \in States
  BY <1>1, TopsAgree
<1>4. /\ s \in States /\ r \in ReadStates
      /\ r = [name |-> s.placedName, size |-> s.placedSize]
      /\ s.placedName = name /\ s.placedSize = size /\ s.size = Top(c.stack).size
  BY <1>1, <1>3 DEF States, ReadStates
<1> HIDE DEF s, r
<1>2. /\ IsContent(p)
      /\ p.stack = [w.stack EXCEPT ![Len(w.stack)] = s]
      /\ p.read = [w.read EXCEPT ![Len(w.read)] = r]
      /\ p.resources = w.resources /\ p.uses = w.uses
  BY <1>0, <1>1 DEF ContentOK, IsContent
<1>5. /\ w.stack \in Seq(States) /\ w.read \in Seq(ReadStates)
      /\ Len(w.read) = Len(w.stack) /\ Len(w.stack) \in Nat /\ Len(w.stack) > 0
  BY <1>1 DEF ContentOK, StacksOK
<1>6. /\ p.stack \in Seq(States) /\ p.read \in Seq(ReadStates)
      /\ Len(p.stack) = Len(w.stack) /\ Len(p.read) = Len(w.stack)
      /\ p.stack[Len(w.stack)] = s /\ p.read[Len(w.stack)] = r
      /\ \A k \in 1..Len(w.stack) - 1 : p.stack[k] = w.stack[k] /\ p.read[k] = w.read[k]
  BY <1>2, <1>4, <1>5, ExceptSeq
<1>7. StacksOK(p)
  <2>1. \A k \in 1..Len(w.stack) :
          w.read[k] = [name |-> w.stack[k].placedName, size |-> w.stack[k].placedSize]
    BY <1>1 DEF ContentOK, StacksOK
  <2>2. ASSUME NEW k \in 1..Len(w.stack)
        PROVE  p.read[k] = [name |-> p.stack[k].placedName, size |-> p.stack[k].placedSize]
    <3>1. CASE k = Len(w.stack)
      BY <3>1, <1>4, <1>6
    <3>2. CASE k # Len(w.stack)
      <4>1. k \in 1..Len(w.stack) - 1
        BY <3>2, <1>5
      <4>2. QED
        BY <4>1, <2>1, <1>6
    <3>3. QED
      BY <3>1, <3>2
  <2>3. QED
    BY <1>5, <1>6, <2>2 DEF StacksOK
<1>8. Top(p.stack) = s
  BY <1>6 DEF Top
<1>9. QED
  BY <1>1, <1>2, <1>4, <1>7, <1>8, StacksSuffice DEF p

\* Choosing a font writes nothing.
LEMMA ChosenIsOK ==
  ASSUME NEW c, ContentOK(c), NEW font \in Fonts \cup {NoFont}, NEW size \in Nat
  PROVE  ContentOK(Chosen(c, font, size))
<1> DEFINE p == Chosen(c, font, size)
           s == [Top(c.stack) EXCEPT !.font = font, !.size = size]
<1>1. /\ IsContent(p)
      /\ p.stack = [c.stack EXCEPT ![Len(c.stack)] = s]
      /\ p.read = c.read /\ p.resources = c.resources /\ p.uses = c.uses
  BY DEF ContentOK, IsContent, Chosen, WithTop
<1>2. s \in States /\ s.placedName = Top(c.stack).placedName
      /\ s.placedSize = Top(c.stack).placedSize
  BY TopsAgree DEF States
<1> HIDE DEF p, s
<1>3. c.stack \in Seq(States) /\ Len(c.stack) \in Nat /\ Len(c.stack) > 0
  BY DEF ContentOK, StacksOK
<1>4. /\ p.stack \in Seq(States) /\ Len(p.stack) = Len(c.stack)
      /\ p.stack[Len(c.stack)] = s
      /\ \A k \in 1..Len(c.stack) - 1 : p.stack[k] = c.stack[k]
  BY <1>1, <1>2, <1>3
<1>5. \A k \in 1..Len(c.stack) : p.stack[k].placedName = c.stack[k].placedName
                              /\ p.stack[k].placedSize = c.stack[k].placedSize
  <2> TAKE k \in 1..Len(c.stack)
  <2>1. CASE k = Len(c.stack)
    BY <2>1, <1>2, <1>4 DEF Top
  <2>2. CASE k # Len(c.stack)
    <3>1. k \in 1..Len(c.stack) - 1
      BY <2>2, <1>3
    <3>2. QED
      BY <3>1, <1>4
  <2>3. QED
    BY <2>1, <2>2
<1>6. StacksOK(p)
  BY <1>1, <1>4, <1>5 DEF ContentOK, StacksOK
<1>7. QED
  BY <1>1, <1>6, StacksSuffice DEF p

\* A use is recorded with the name that the resources give the object.
LEMMA NamedIsOK ==
  ASSUME NEW c, ContentOK(c), NEW kind \in {"Font", "Form", "Image"},
         NEW id \in Nat, id # NoID
  PROVE  /\ ContentOK(Named(c, kind, id))
         /\ Named(c, kind, id).stack = c.stack
         /\ Given(Named(c, kind, id).resources, MapOf(kind), id,
                  NameFor(c.resources, kind, id))
<1> DEFINE p == Named(c, kind, id)
           d == c.resources
           name == NameFor(d, kind, id)
<1>1. kind \in Kinds \ {"ExtGState"}
  BY DEF Kinds, XObjectKinds, OtherKinds
<1>0. c = [stack |-> c.stack, level |-> c.level, read |-> c.read,
           resources |-> c.resources, uses |-> c.uses]
  BY DEF ContentOK, IsContent
<1>2. /\ IsContent(p) /\ p.stack = c.stack /\ p.read = c.read
      /\ p.resources = AddMapping(d, kind, id)
      /\ p.uses = c.uses \cup {Use(c, kind, id)}
  <2> DEFINE r == AddMapping(d, kind, id)
             u == c.uses \cup {Use(c, kind, id)}
  <2>1. p = [c EXCEPT !.resources = r, !.uses = u]
    BY Zenon DEF Named
  <2> HIDE DEF p, r, u
  <2>2. p = [stack |-> c.stack, level |-> c.level, read |-> c.read,
             resources |-> r, uses |-> u]
    BY <1>0, <2>1
  <2>3. IsContent(p) /\ p.stack = c.stack /\ p.read = c.read
        /\ p.resources = r /\ p.uses = u
    BY <2>2 DEF IsContent
  <2>4. QED
    BY <2>3 DEF r, u
<1>3. ResourcesOK(p.resources) /\ Keeps(d, p.resources)
  BY <1>1, <1>2, AddMappingIsOK DEF ContentOK
<1>4. Given(p.resources, MapOf(kind), id, name)
  BY <1>1, <1>2, NameIsGiven DEF ContentOK
<1>5. Use(c, kind, id) = [category |-> MapOf(kind), name |-> name, id |-> id]
  BY DEF Use
<1>6. MapOf(kind) \in Categories
  BY <1>1, KindsHaveMaps
<1> HIDE DEF p, d, name
<1>7. UsesOK(p)
  <2>1. ASSUME NEW u \in c.uses
        PROVE  u.category \in Categories /\ Given(p.resources, u.category, u.id, u.name)
    BY <1>3 DEF ContentOK, UsesOK, Keeps, Given, d
  <2>2. LET u == Use(c, kind, id)
        IN  u.category \in Categories /\ Given(p.resources, u.category, u.id, u.name)
    BY <1>4, <1>5, <1>6
  <2>3. QED
    BY <1>2, <2>1, <2>2 DEF UsesOK
<1>8. StacksOK(p)
  BY <1>2 DEF ContentOK, StacksOK
<1>9. QED
  BY <1>2, <1>3, <1>4, <1>7, <1>8 DEF ContentOK, p, d, name

\* Whether the font had to be placed or was there already, it is the one.
LEMMA PreparedIsOK ==
  ASSUME NEW c, ContentOK(c), NEW id \in Nat, id # NoID
  PROVE  ContentOK(Prepared(c, id)) /\ ShowsFont(Prepared(c, id), id)
<1> DEFINE name == NameFor(c.resources, "Font", id)
           named == Named(c, "Font", id)
           size == Top(c.stack).size
<1>1. ContentOK(named) /\ named.stack = c.stack
      /\ Given(named.resources, "Font", id, name)
  <2>1. MapOf("Font") = "Font"
    BY DEF MapOf, XObjectKinds
  <2>2. QED
    BY <2>1, NamedIsOK
<1>2. name \in Names
  <2>1. "Font" \in Kinds
    BY DEF Kinds, OtherKinds
  <2>2. QED
    BY <2>1, NameForType DEF ContentOK
<1>3. Top(c.stack) \in States
  BY TopsAgree
<1>4. CASE NeedsPlacing(Top(c.stack), name)
  <2>1. Prepared(c, id) = Placed(named, name, size)
    BY <1>4 DEF Prepared
  <2>2. size \in Nat
    BY <1>3 DEF States
  <2> HIDE DEF named, name, size
  <2>3. /\ ContentOK(Placed(named, name, size))
        /\ Placed(named, name, size).resources = named.resources
        /\ Top(Placed(named, name, size).stack).placedName = name
        /\ Top(Placed(named, name, size).stack).placedSize = size
        /\ Top(Placed(named, name, size).stack).size = Top(named.stack).size
    BY <1>1, <1>2, <2>2, PlacedIsOK
  <2>4. Top(named.stack).size = size
    BY <1>1 DEF size
  <2>5. QED
    BY <1>1, <2>1, <2>3, <2>4 DEF ShowsFont
<1>5. CASE ~NeedsPlacing(Top(c.stack), name)
  <2>1. Prepared(c, id) = named
    BY <1>5 DEF Prepared
  <2>2. Top(c.stack).placedName = name /\ Top(c.stack).placedSize = size
    BY <1>5 DEF NeedsPlacing
  <2> HIDE DEF named, name
  <2>3. QED
    BY <1>1, <2>1, <2>2 DEF ShowsFont
<1>6. QED
  BY <1>4, <1>5

\* The object a text is shown with is one.
LEMMA ShownIDIsOne ==
  ASSUME NEW c, ContentOK(c), NEW representation \in Encoded, IsShown(c, representation)
  PROVE  ShownID(c, representation) \in Nat /\ ShownID(c, representation) # NoID
<1> USE ContentAssumption
<1>1. Top(c.stack).font \in Fonts
  BY TopsAgree DEF States, IsShown
<1>2. representation \in Representations
  BY DEF Encoded, IsShown
<1>3. ShownID(c, representation) \in Nat \ {NoID}
  BY <1>1, <1>2 DEF ShownID
<1>4. QED
  BY <1>3

\* Showing text.
LEMMA ShownIsOK ==
  ASSUME NEW c, ContentOK(c), NEW op, NEW representation \in Encoded
  PROVE  /\ ContentOK(Shown(c, op, representation))
         /\ IsShown(c, representation) =>
                ShowsFont(Shown(c, op, representation), ShownID(c, representation))
<1>1. CASE IsShown(c, representation)
  <2> DEFINE id == ShownID(c, representation)
             p == Prepared(c, id)
  <2>1. id \in Nat /\ id # NoID
    BY <1>1, ShownIDIsOne
  <2> DEFINE word == Keyword(op, representation \in Wide)
  <2>2. Shown(c, op, representation) = Wrote(p, <<word>>)
    BY <1>1 DEF Shown
  <2> HIDE DEF id
  <2>3. ContentOK(p) /\ ShowsFont(p, id)
    BY <2>1, PreparedIsOK
  <2> HIDE DEF p, word
  <2>4. ContentOK(Wrote(p, <<word>>)) /\ ShowsFont(Wrote(p, <<word>>), id)
    BY <2>3, WroteIsOK
  <2>5. QED
    BY <2>2, <2>4 DEF id
<1>2. CASE ~IsShown(c, representation)
  BY <1>2 DEF Shown
<1>3. QED
  BY <1>1, <1>2

\* The client's own names.
LEMMA ClientNamingIsOK ==
  ASSUME NEW c, ContentOK(c), NEW kind \in Kinds, NEW id \in Nat
  PROVE  ContentOK([c EXCEPT !.resources = AddMapping(c.resources, kind, id)])
<1> DEFINE p == [c EXCEPT !.resources = AddMapping(c.resources, kind, id)]
<1>1. /\ IsContent(p) /\ p.stack = c.stack /\ p.read = c.read /\ p.uses = c.uses
      /\ p.resources = AddMapping(c.resources, kind, id)
  BY DEF ContentOK, IsContent
<1> HIDE DEF p
<1>2. ResourcesOK(p.resources) /\ Keeps(c.resources, p.resources)
  BY <1>1, AddMappingIsOK DEF ContentOK
<1>3. UsesOK(p)
  BY <1>1, <1>2 DEF ContentOK, UsesOK, Keeps, Given
<1>4. StacksOK(p)
  BY <1>1 DEF ContentOK, StacksOK
<1>5. QED
  BY <1>1, <1>2, <1>3, <1>4 DEF ContentOK, p

\* A new content stream.
LEMMA NewContentOK == ContentOK(NewContent)
<1>1. GraphicState \in States /\ GraphicState.placedName = Unset /\ GraphicState.placedSize = 0
  BY DEF GraphicState, States, Names
<1>2. [name |-> Unset, size |-> 0] \in ReadStates
  BY DEF ReadStates, Names
<1>3. StacksOK(NewContent)
  BY <1>1, <1>2 DEF StacksOK, NewContent
<1>4. QED
  BY <1>3, EmptyResourcesOK DEF ContentOK, IsContent, UsesOK, NewContent

--------------------------------------------------------------------------------
(* The steps.                                                               *)

\* A call that shows no text.
LEMMA BecomesIsOK ==
  ASSUME NEW c, ContentOK(c), Becomes(c)
  PROVE  IInv'
  BY DEF Becomes, Quiet, IInv

\* A call that throws.
LEMMA ThrowsIsOK ==
  ASSUME IInv, Throws
  PROVE  IInv'
  BY DEF Throws, Quiet, IInv

\* A call that shows text.
LEMMA ShowsIsOK ==
  ASSUME IInv, NEW op, NEW representation \in Encoded,
         Shows(content, op, representation)
  PROVE  IInv'
<1> DEFINE c == Shown(content, op, representation)
<1>1. ContentOK(c) /\ (IsShown(content, representation) =>
                          ShowsFont(c, ShownID(content, representation)))
  BY ShownIsOK DEF IInv
<1>2. content' = c /\ last'.font = IF IsShown(content, representation)
                                  THEN ShownID(content, representation) ELSE NoID
  BY DEF Shows, Quiet
<1> HIDE DEF c
<1>3. QED
  BY <1>1, <1>2 DEF IInv

\* A command.
LEMMA CommandIsOK ==
  ASSUME IInv, NEW command, NEW accepted, NEW c, ContentOK(c), NEW font,
         font # NoID => ShowsFont(c, font), Command(command, accepted, c, font)
  PROVE  IInv'
<1>1. CASE hasContext /\ accepted
  <2>1. content' = c /\ last'.font = font
    BY <1>1 DEF Command
  <2>2. QED
    BY <2>1 DEF IInv
<1>2. CASE ~(hasContext /\ accepted)
  BY <1>2, ThrowsIsOK DEF Command
<1>3. QED
  BY <1>1, <1>2

\* An operator that only writes itself.
LEMMA OperatorIsOK ==
  ASSUME IInv, NEW op, NEW accepted, Operator(op, accepted)
  PROVE  IInv'
<1>1. ContentOK(Wrote(content, <<op>>))
  BY WroteIsOK DEF IInv
<1>2. QED
  BY <1>1, BecomesIsOK, ThrowsIsOK DEF Operator

\* The operators.
LEMMA OperatorsKeepIInv == IInv /\ Operators => IInv'
<1> SUFFICES ASSUME IInv, Operators PROVE IInv'
  OBVIOUS
<1>0. ContentOK(content)
  BY DEF IInv
<1>1. CASE SaveState
  BY <1>0, <1>1, PushedIsOK, BecomesIsOK, ThrowsIsOK DEF SaveState
<1>2. CASE RestoreState
  BY <1>0, <1>2, PoppedIsOK, BecomesIsOK, ThrowsIsOK DEF RestoreState
<1>3. CASE \E op, accepted : Operator(op, accepted)
  BY <1>3, OperatorIsOK
<1>4. QED
  BY <1>1, <1>2, <1>3
     DEF Operators, PaintOperator, Clip, TextObjectOperator, PointOperator,
         CloseOrRectangle, Transform, LineOperator, StateOperator,
         ColorSpaceOperator, ComponentsOperator, DeviceColorOperator,
         TextStateOperator, PositionOperator, WriteFreeCode

\* Choosing fonts and showing text.
LEMMA TextsKeepIInv == IInv /\ Texts => IInv'
<1> SUFFICES ASSUME IInv, Texts PROVE IInv'
  OBVIOUS
<1>0. ContentOK(content)
  BY DEF IInv
<1> USE ContentAssumption
<1>1. ASSUME NEW size \in Sizes, NEW name \in ClientNames, SetFontByName(name, size)
      PROVE  IInv'
  <2>1. name \in Names /\ size \in Nat
    BY DEF Names
  <2>2. ContentOK(Placed(content, name, size))
    BY <1>0, <2>1, PlacedIsOK
  <2>3. QED
    BY <1>1, <2>2, BecomesIsOK, ThrowsIsOK DEF SetFontByName
<1>2. ASSUME NEW size \in Sizes, NEW font \in Fonts, SetFontObject(font, size)
      PROVE  IInv'
  <2>1. ContentOK(Chosen(content, font, size))
    BY <1>0, ChosenIsOK
  <2>2. QED
    BY <1>2, <2>1, BecomesIsOK, ThrowsIsOK DEF SetFontObject
<1>3. ASSUME NEW op, NEW args, ShowText(op, args)
      PROVE  IInv'
  <2>1. \A word : ContentOK(Wrote(content, <<word>>))
    BY <1>0, WroteIsOK
  <2>2. QED
    BY <1>3, <2>1, BecomesIsOK, ThrowsIsOK, ShowsIsOK DEF ShowText
<1>4. ASSUME NEW args, ShowStrings(args)
      PROVE  IInv'
  <2>1. ContentOK(Wrote(content, <<"TJ">>))
    BY <1>0, WroteIsOK
  <2>2. QED
    BY <1>4, <2>1, BecomesIsOK, ThrowsIsOK, ShowsIsOK DEF ShowStrings
<1>5. QED
  BY <1>1, <1>2, <1>3, <1>4 DEF Texts

\* Drawing, naming and placing objects.
LEMMA CommandsKeepIInv == IInv /\ Commands => IInv'
<1> SUFFICES ASSUME IInv, Commands PROVE IInv'
  OBVIOUS
<1>0. ContentOK(content)
  BY DEF IInv
<1> USE ContentAssumption
<1>1. ASSUME NEW kind, NEW id \in Forms \cup Images, DoXObject(kind, id)
      PROVE  IInv'
  <2>1. id \in Nat /\ id # NoID
    OBVIOUS
  <2>2. CASE hasContext /\ kind = "string"
    <3>1. ContentOK(Wrote(content, <<"Do">>))
      BY <1>0, WroteIsOK
    <3>2. QED
      BY <1>1, <2>2, <3>1, BecomesIsOK DEF DoXObject
  <2>3. CASE hasContext /\ kind \in {"Form", "Image"}
    <3>1. ContentOK(Named(content, kind, id))
      BY <1>0, <2>1, <2>3, NamedIsOK
    <3>2. ContentOK(Wrote(Named(content, kind, id), <<"Do">>))
      BY <3>1, WroteIsOK
    <3>3. QED
      BY <1>1, <2>3, <3>2, BecomesIsOK DEF DoXObject
  <2>4. QED
    BY <1>1, <2>2, <2>3, ThrowsIsOK DEF DoXObject
<1>2. ASSUME NEW outline, NEW options, NEW accepted, Outlines(accepted, outline, options)
      PROVE  IInv'
  <2>1. ContentOK(Outlined(outline, options))
    BY <1>0, WroteIsOK DEF Outlined
  <2>2. QED
    BY <1>2, <2>1, CommandIsOK DEF Outlines
<1>3. ASSUME NEW n, NEW options \in Options, NEW representation \in Encoded,
             WriteText(n, options, representation)
      PROVE  IInv'
  <2> DEFINE o == IF n = 3 THEN OptionsIn(options) ELSE NoOptions
             c2 == SetFont(Wrote(content, <<"BT">> \o SetColor(o, FALSE)), o)
             c3 == Begun(o)
             c4 == Shown(c3, "Tj", representation)
             c5 == Wrote(c4, <<"ET">>)
             c6 == Underlined(c5, o)
             font == IF IsShown(c3, representation) THEN ShownID(c3, representation)
                     ELSE NoID
  <2>1. o.font \in Fonts \cup {NoFont} /\ o.size \in Nat
    <3>1. NoOptions.font = NoFont /\ NoOptions.size = 0
      BY DEF NoOptions
    <3>2. options # <<>> => options[1] \in DrawingOptions
      BY DEF Options
    <3>3. QED
      BY <3>1, <3>2 DEF OptionsIn
  <2>2. Command("drawing", n + Len(options) >= 3, c6, font)
    BY <1>3 DEF WriteText
  <2> HIDE DEF o
  <2>3. ContentOK(c2)
    <3> DEFINE c1 == Wrote(content, <<"BT">> \o SetColor(o, FALSE))
               size == IF o.size = 0 THEN 1 ELSE o.size
    <3>1. ContentOK(c1)
      BY <1>0, WroteIsOK
    <3>2. size \in Nat
      BY <2>1
    <3> HIDE DEF c1, size
    <3>3. ContentOK(Chosen(c1, o.font, size))
      BY <2>1, <3>1, <3>2, ChosenIsOK
    <3>4. QED
      BY <3>1, <3>3 DEF SetFont, c1, size
  <2>4. ContentOK(c3)
    <3>1. c3 = Wrote(c2, <<"Tm">>)
      BY DEF Begun
    <3> HIDE DEF c2, c3
    <3>2. QED
      BY <2>3, <3>1, WroteIsOK
  <2> HIDE DEF c2, c3
  <2>5. ContentOK(c4) /\ (font # NoID => ShowsFont(c4, font))
    BY <2>4, ShownIsOK
  <2> HIDE DEF c4, font
  <2>6. ContentOK(c5) /\ (font # NoID => ShowsFont(c5, font))
    BY <2>5, WroteIsOK
  <2> HIDE DEF c5
  <2>7. ContentOK(c6) /\ (font # NoID => ShowsFont(c6, font))
    BY <2>6, WroteIsOK DEF Underlined
  <2> HIDE DEF c6
  <2>8. QED
    BY <2>2, <2>7, CommandIsOK
<1>4. ASSUME NEW args, NEW id \in Images, DrawImage(args, id)
      PROVE  IInv'
  <2> DEFINE c1 == Wrote(Pushed(content), <<"cm">>)
             c2 == Named(c1, "Form", id)
             c3 == Wrote(c2, <<"Do">>)
  <2>1. id \in Nat /\ id # NoID
    OBVIOUS
  <2>2. ContentOK(c1)
    <3>1. ContentOK(Pushed(content))
      BY <1>0, PushedIsOK
    <3>2. QED
      BY <3>1, WroteIsOK
  <2> HIDE DEF c1
  <2>3. ContentOK(c2)
    BY <2>1, <2>2, NamedIsOK
  <2> HIDE DEF c2
  <2>4. ContentOK(c3)
    BY <2>3, WroteIsOK
  <2> HIDE DEF c3
  <2>5. ContentOK(Popped(c3))
    BY <2>4, PoppedIsOK
  <2>6. Command("drawing",
                args \in {<<"number", "number", "string">>,
                          <<"number", "number", "string", "object">>},
                Popped(c3), NoID)
    BY <1>4 DEF DrawImage, c1, c2, c3
  <2>7. QED
    BY <2>5, <2>6, CommandIsOK
<1>5. ASSUME NEW mapping \in ClientMappings, NEW args,
             AddClientMapping(mapping[1], mapping[2], args)
      PROVE  IInv'
  <2>1. mapping[1] \in Kinds /\ mapping[2] \in Nat
    OBVIOUS
  <2> DEFINE c == [content EXCEPT !.resources =
                     AddMapping(content.resources, mapping[1], mapping[2])]
  <2>2. ContentOK(c)
    BY <1>0, <2>1, ClientNamingIsOK
  <2>3. Becomes(c) \/ Throws
    BY <1>5 DEF AddClientMapping
  <2> HIDE DEF c
  <2>4. QED
    BY <2>2, <2>3, BecomesIsOK, ThrowsIsOK
<1>6. QED
  BY <1>1, <1>2, <1>3, <1>4, <1>5
     DEF Commands, DrawPath, DrawCircle, DrawSquare, DrawRectangle

--------------------------------------------------------------------------------
(* The theorems.                                                            *)

\* The invariant is inductive.
THEOREM Invariance == Spec => []IInv
<1>1. Init => IInv
  BY NewContentOK DEF Init, IInv, Quiet
<1>2. IInv /\ [Next]_vars => IInv'
  <2> SUFFICES ASSUME IInv, [Next]_vars PROVE IInv'
    OBVIOUS
  <2>1. CASE UNCHANGED vars
    BY <2>1 DEF vars, IInv
  <2>2. QED
    BY <2>1, OperatorsKeepIInv, TextsKeepIInv, CommandsKeepIInv DEF Next
<1>3. QED
  BY <1>1, <1>2, PTL DEF Spec

\* A name that is given to an object means that object alone.
LEMMA GivenIsMeant ==
  ASSUME ContentOK(content), NEW c \in Categories, NEW id, NEW name,
         Given(content.resources, c, id, name)
  PROVE  Meanings(c, name) = {id}
  BY DEF ContentOK, ResourcesOK, NamesAreDistinct, Given, Meanings

\* Names keep their meaning, whatever is named afterwards.
THEOREM NamesCorrect == Spec => []NamesKeepTheirMeaning
<1>1. IInv => NamesKeepTheirMeaning
  BY GivenIsMeant DEF IInv, ContentOK, UsesOK, NamesKeepTheirMeaning
<1>2. QED
  BY <1>1, Invariance, PTL

\* Text is shown in the font and the size that were chosen, for any fonts,
\* sizes, objects, options and depth of the stack.
THEOREM FontCorrect == Spec => []FontInEffect
<1>1. ASSUME IInv, last.font # NoID
      PROVE  /\ Top(content.read).size = Top(content.stack).size
             /\ Meanings("Font", Top(content.read).name) = {last.font}
  <2>1. ShowsFont(content, last.font) /\ ContentOK(content)
    BY <1>1 DEF IInv
  <2>2. Top(content.read).name = Top(content.stack).placedName
        /\ Top(content.read).size = Top(content.stack).placedSize
    BY <2>1, TopsAgree
  <2>3. "Font" \in Categories
    <3>1. "Font" \in Kinds /\ MapOf("Font") = "Font"
      BY DEF Kinds, OtherKinds, XObjectKinds, MapOf
    <3>2. QED
      BY <3>1 DEF Categories
  <2>4. Meanings("Font", Top(content.stack).placedName) = {last.font}
    BY <2>1, <2>3, GivenIsMeant DEF ShowsFont
  <2>5. QED
    BY <2>1, <2>2, <2>4 DEF ShowsFont
<1>2. IInv => FontInEffect
  BY <1>1 DEF FontInEffect
<1>3. QED
  BY <1>2, Invariance, PTL

--------------------------------------------------------------------------------
(* What a reader makes of several operators.                                *)

\* Induction over 0 .. n.
LEMMA PrefixInduction ==
  ASSUME NEW n \in Nat, NEW S, 0 \in S, \A k \in 1..n : k - 1 \in S => k \in S
  PROVE  \A k \in 0..n : k \in S
<1>1. DEFINE T == {k \in 0..n : k \notin S}
<1>2. SUFFICES ASSUME T # {} PROVE FALSE
  OBVIOUS
<1>3. DEFINE R == {ss \in Nat \X Nat : ss[1] < ss[2]}
<1>4. IsWellFoundedOn(R, Nat)
  BY NatLessThanWellFounded DEF OpToRel
<1>5. PICK x \in T : \A y \in T : ~(y < x)
  <2>1. T \subseteq Nat
    OBVIOUS
  <2> HIDE DEF T, R
  <2>2. PICK x \in T : \A y \in T : <<y, x>> \notin R
    BY <1>2, <1>4, <2>1, WFMin
  <2>3. QED
    BY <2>1, <2>2 DEF R
<1>6. x \in 1..n /\ x - 1 \in 0..n
  OBVIOUS
<1>7. x - 1 \notin T
  BY <1>5, <1>6
<1>8. QED
  BY <1>6, <1>7

AllOperators ==
  UNION {PathStarts, PathParts, Clippings, Paintings, PageOperators, StateOperators,
         ColorOperators, TextStateOperators, PositionOperators, ShowOperators,
         {"BT", "ET", NoOperator}}

\* g[k] is where the reader is after the first k operators.
IsAfter(g, level, ops, n) ==
  g = [k \in 0..n |-> IF k = 0 THEN level ELSE Read(g[k - 1], ops[k])]

LEMMA AfterExists ==
  ASSUME NEW level, NEW ops, NEW n \in Nat
  PROVE  \E g : IsAfter(g, level, ops, n)
<1> DEFINE S == {m \in 0..n : \E g : IsAfter(g, level, ops, m)}
<1>1. 0 \in S
  <2>1. IsAfter([k \in 0..0 |-> level], level, ops, 0)
    BY DEF IsAfter
  <2>2. QED
    BY <2>1
<1>2. ASSUME NEW m \in 1..n, m - 1 \in S
      PROVE  m \in S
  <2>1. PICK h : IsAfter(h, level, ops, m - 1)
    BY <1>2
  <2> DEFINE g == [k \in 0..m |-> IF k = m THEN Read(h[m - 1], ops[m]) ELSE h[k]]
  <2>2. /\ \A k \in 0..m : k # m => k \in 0..m - 1 /\ (k # 0 => k - 1 \in 0..m - 1)
        /\ m \in 0..m /\ m # 0 /\ m - 1 \in 0..m - 1 /\ m - 1 \in 0..m
        /\ \A k \in 0..m : k # 0 => k - 1 \in 0..m /\ k - 1 # m
    BY <1>2
  <2>3. \A k \in 0..m - 1 : h[k] = IF k = 0 THEN level ELSE Read(h[k - 1], ops[k])
    BY <2>1 DEF IsAfter
  <2>4. (\A k \in 0..m : k # m => g[k] = h[k]) /\ g[m] = Read(h[m - 1], ops[m])
    BY <2>2
  <2>5. g = [k \in 0..m |-> g[k]]
    OBVIOUS
  <2> HIDE DEF g
  <2>6. ASSUME NEW k \in 0..m
        PROVE  g[k] = IF k = 0 THEN level ELSE Read(g[k - 1], ops[k])
    <3>1. CASE k = m
      BY <2>2, <2>4, <3>1
    <3>2. CASE k # m
      <4>1. k \in 0..m - 1 /\ g[k] = h[k] /\ (k # 0 => g[k - 1] = h[k - 1])
        BY <2>2, <2>4, <3>2
      <4>2. QED
        BY <2>3, <4>1
    <3>3. QED
      BY <3>1, <3>2
  <2>7. IsAfter(g, level, ops, m)
    BY <2>5, <2>6 DEF IsAfter
  <2>8. QED
    BY <2>7
<1>3. n \in S
  <2> HIDE DEF S
  <2>1. QED
    BY <1>1, <1>2, PrefixInduction
<1>4. QED
  BY <1>3

\* The reader's levels one after another, and where they end.
Reads(g, level, ops, end) ==
  /\ g[0] = level
  /\ \A k \in 1..Len(ops) : g[k] = Read(g[k - 1], ops[k])
  /\ end = g[Len(ops)]

LEMMA ReadAllReads ==
  ASSUME NEW level, NEW ops \in Seq(AllOperators)
  PROVE  \E g : Reads(g, level, ops, ReadAll(level, ops))
<1>1. Len(ops) \in Nat
  BY LenProperties
<1>2. PICK h : IsAfter(h, level, ops, Len(ops))
  BY <1>1, AfterExists
<1> DEFINE g == CHOOSE x : IsAfter(x, level, ops, Len(ops))
<1>3. IsAfter(g, level, ops, Len(ops))
  BY <1>2
<1>4. ReadAll(level, ops) = g[Len(ops)]
  BY DEF ReadAll, IsAfter
<1> HIDE DEF g
<1>5. \A k \in 0..Len(ops) : g[k] = IF k = 0 THEN level ELSE Read(g[k - 1], ops[k])
  BY <1>3 DEF IsAfter
<1>6. 0 \in 0..Len(ops) /\ \A k \in 1..Len(ops) : k \in 0..Len(ops) /\ k # 0
  BY <1>1
<1>7. Reads(g, level, ops, ReadAll(level, ops))
  BY <1>4, <1>5, <1>6 DEF Reads
<1>8. QED
  BY <1>7

\* They end somewhere, and nothing else.
LEMMA ReadsEnds ==
  ASSUME NEW level, NEW ops \in Seq(AllOperators), NEW g, NEW end, Reads(g, level, ops, end)
  PROVE  ReadAll(level, ops) = end
<1>1. PICK h : Reads(h, level, ops, ReadAll(level, ops))
  BY ReadAllReads
<1> DEFINE S == {k \in Nat : g[k] = h[k]}
<1>2. 0 \in S
  BY <1>1 DEF Reads
<1>3. ASSUME NEW k \in 1..Len(ops), k - 1 \in S
      PROVE  k \in S
  BY <1>1, <1>3, LenProperties DEF Reads
<1>4. Len(ops) \in Nat
  BY LenProperties
<1>5. Len(ops) \in S
  <2> HIDE DEF S
  <2>1. \A k \in 0..Len(ops) : k \in S
    BY <1>2, <1>3, <1>4, PrefixInduction
  <2>2. QED
    BY <1>4, <2>1
<1>6. QED
  BY <1>1, <1>5 DEF Reads

\* An operator leads to a level.
LEMMA ReadTyped ==
  ASSUME NEW level \in Levels, NEW op
  PROVE  Read(level, op) \in Levels
BY DEF Read, Levels

\* And so do several.
LEMMA ReadAllTyped ==
  ASSUME NEW level \in Levels, NEW ops \in Seq(AllOperators)
  PROVE  ReadAll(level, ops) \in Levels
<1>1. PICK g : Reads(g, level, ops, ReadAll(level, ops))
  BY ReadAllReads
<1> DEFINE S == {k \in Nat : g[k] \in Levels}
<1>2. 0 \in S
  BY <1>1 DEF Reads
<1>3. ASSUME NEW k \in 1..Len(ops), k - 1 \in S
      PROVE  k \in S
  <2>1. g[k] = Read(g[k - 1], ops[k]) /\ g[k - 1] \in Levels
    BY <1>1, <1>3 DEF Reads
  <2>2. QED
    BY <2>1, ReadTyped
<1>4. Len(ops) \in Nat
  BY LenProperties
<1>5. Len(ops) \in S
  <2> HIDE DEF S
  <2>1. \A k \in 0..Len(ops) : k \in S
    BY <1>2, <1>3, <1>4, PrefixInduction
  <2>2. QED
    BY <1>4, <2>1
<1>6. QED
  BY <1>1, <1>5 DEF Reads

\* Operators that leave the reader where it is.
LEMMA ReadStays ==
  ASSUME NEW level, NEW ops \in Seq(AllOperators),
         \A k \in 1..Len(ops) : Read(level, ops[k]) = level
  PROVE  ReadAll(level, ops) = level
<1> DEFINE g == [k \in 0..Len(ops) |-> level]
<1>1. Len(ops) \in Nat
  BY LenProperties
<1>2. Reads(g, level, ops, level)
  BY <1>1 DEF Reads
<1>3. QED
  BY <1>2, ReadsEnds

\* Short sequences.
LEMMA OneOf ==
  ASSUME NEW S, NEW a \in S, NEW one, one = <<a>>
  PROVE  one \in Seq(S) /\ Len(one) = 1 /\ one[1] = a
OBVIOUS

\* One operator.
LEMMA ReadOne ==
  ASSUME NEW level, NEW op \in AllOperators
  PROVE  <<op>> \in Seq(AllOperators) /\ ReadAll(level, <<op>>) = Read(level, op)
<1> DEFINE g == [k \in 0..1 |-> IF k = 0 THEN level ELSE Read(level, op)]
<1>1. <<op>> \in Seq(AllOperators) /\ Len(<<op>>) = 1 /\ <<op>>[1] = op
  <2>1. PICK one : one = <<op>>
    OBVIOUS
  <2>2. one \in Seq(AllOperators) /\ Len(one) = 1 /\ one[1] = op
    BY <2>1, OneOf
  <2>3. QED
    BY <2>1, <2>2
<1>2. Reads(g, level, <<op>>, Read(level, op))
  <2>1. g[0] = level /\ g[1] = Read(level, op)
    OBVIOUS
  <2> HIDE DEF g
  <2>2. \A k \in 1..1 : k = 1 /\ k - 1 = 0
    OBVIOUS
  <2>3. QED
    BY <1>1, <2>1, <2>2 DEF Reads
<1>3. QED
  BY <1>1, <1>2, ReadsEnds

\* Some operators and then others.
LEMMA ReadSplit ==
  ASSUME NEW level, NEW s \in Seq(AllOperators), NEW t \in Seq(AllOperators)
  PROVE  s \o t \in Seq(AllOperators) /\ ReadAll(level, s \o t) = ReadAll(ReadAll(level, s), t)
<1>1. PICK g : Reads(g, level, s, ReadAll(level, s))
  BY ReadAllReads
<1>2. PICK h : Reads(h, ReadAll(level, s), t, ReadAll(ReadAll(level, s), t))
  BY ReadAllReads
<1>3. PICK m \in Nat : m = Len(s)
  BY LenProperties
<1>4. PICK n \in Nat : n = Len(t)
  BY LenProperties
<1>5. /\ s \o t \in Seq(AllOperators) /\ Len(s \o t) = m + n
      /\ \A k \in 1..m + n : (s \o t)[k] = IF k <= m THEN s[k] ELSE t[k - m]
  BY <1>3, <1>4
<1> DEFINE f == [k \in 0..m + n |-> IF k <= m THEN g[k] ELSE h[k - m]]
<1>6. f[0] = level /\ f[m + n] = ReadAll(ReadAll(level, s), t)
  <2>1. n = 0 => ReadAll(ReadAll(level, s), t) = g[m]
    BY <1>1, <1>2, <1>3, <1>4 DEF Reads
  <2>2. n # 0 => m + n > m /\ (m + n) - m = n
    OBVIOUS
  <2>3. 0 \in 0..m + n /\ 0 <= m /\ m + n \in 0..m + n
    OBVIOUS
  <2>4. QED
    BY <1>1, <1>2, <1>4, <2>1, <2>2, <2>3 DEF Reads
<1>7. ASSUME NEW k \in 1..m + n
      PROVE  f[k] = Read(f[k - 1], (s \o t)[k])
  <2>0. k \in 0..m + n /\ k - 1 \in 0..m + n
    OBVIOUS
  <2>1. CASE k <= m
    <3>1. k \in 1..Len(s) /\ k - 1 <= m
      BY <1>3, <2>1
    <3>2. QED
      BY <1>1, <1>5, <2>0, <2>1, <3>1 DEF Reads
  <2>2. CASE k > m /\ k - 1 <= m
    <3>1. k = m + 1 /\ k - 1 = m /\ k - m = 1 /\ 1 \in 1..Len(t) /\ ~(k <= m) /\ 1 - 1 = 0
      BY <1>4, <2>2
    <3>2. h[1] = Read(h[0], t[1]) /\ h[0] = g[m]
      BY <1>1, <1>2, <1>3, <3>1 DEF Reads
    <3>3. QED
      BY <1>5, <2>0, <3>1, <3>2
  <2>3. CASE k - 1 > m
    <3>1. k - m \in 1..Len(t) /\ (k - 1) - m = (k - m) - 1 /\ ~(k <= m) /\ ~(k - 1 <= m)
      BY <1>4, <2>3
    <3>2. h[k - m] = Read(h[(k - m) - 1], t[k - m])
      BY <1>2, <3>1 DEF Reads
    <3>3. QED
      BY <1>5, <2>0, <3>1, <3>2
  <2>4. k <= m \/ (k > m /\ k - 1 <= m) \/ k - 1 > m
    OBVIOUS
  <2>5. QED
    BY <2>1, <2>2, <2>3, <2>4
<1> HIDE DEF f
<1>8. Reads(f, level, s \o t, ReadAll(ReadAll(level, s), t))
  BY <1>5, <1>6, <1>7 DEF Reads
<1>9. QED
  BY <1>5, <1>8, ReadsEnds

\* Operators that leave the reader on a level.
Neutral(ops, level) ==
  ops \in Seq(AllOperators) /\ \A k \in 1..Len(ops) : Read(level, ops[k]) = level

LEMMA NeutralNone ==
  ASSUME NEW level
  PROVE  Neutral(<<>>, level)
<1>1. PICK none : none = <<>>
  OBVIOUS
<1>2. none \in Seq(AllOperators) /\ Len(none) = 0
  BY <1>1, EmptySeq
<1>3. QED
  BY <1>1, <1>2 DEF Neutral

LEMMA NeutralOne ==
  ASSUME NEW level, NEW op \in AllOperators, Read(level, op) = level
  PROVE  Neutral(<<op>>, level)
<1>1. PICK one : one = <<op>>
  OBVIOUS
<1>2. one \in Seq(AllOperators) /\ Len(one) = 1 /\ one[1] = op
  BY <1>1, OneOf
<1>3. QED
  BY <1>1, <1>2 DEF Neutral

LEMMA NeutralConcat ==
  ASSUME NEW level, NEW s, Neutral(s, level), NEW t, Neutral(t, level)
  PROVE  Neutral(s \o t, level)
<1>1. s \in Seq(AllOperators) /\ t \in Seq(AllOperators) /\ Len(s) \in Nat /\ Len(t) \in Nat
  BY LenProperties DEF Neutral
<1>2. /\ s \o t \in Seq(AllOperators) /\ Len(s \o t) = Len(s) + Len(t)
      /\ \A k \in 1..Len(s) + Len(t) :
            (s \o t)[k] = IF k <= Len(s) THEN s[k] ELSE t[k - Len(s)]
  BY <1>1, ConcatProperties
<1>3. ASSUME NEW k \in 1..Len(s) + Len(t)
      PROVE  Read(level, (s \o t)[k]) = level
  <2>1. CASE k <= Len(s)
    <3>1. k \in 1..Len(s)
      BY <1>1, <2>1
    <3>2. QED
      BY <1>2, <2>1, <3>1 DEF Neutral
  <2>2. CASE ~(k <= Len(s))
    <3>1. k - Len(s) \in 1..Len(t)
      BY <1>1, <2>2
    <3>2. QED
      BY <1>2, <2>2, <3>1 DEF Neutral
  <2>3. QED
    BY <2>1, <2>2
<1>4. QED
  BY <1>2, <1>3 DEF Neutral

\* Colours may be set on a page and in a text.
LEMMA ColorsAreNeutral ==
  ASSUME NEW o, NEW isStroke, NEW level \in {"page", "text"}
  PROVE  Neutral(SetColor(o, isStroke), level)
<1>1. \A op \in ColorOperators : op \in AllOperators /\ Read(level, op) = level
  <2>1. SUFFICES ASSUME NEW op \in ColorOperators
                 PROVE  op \in AllOperators /\ Read(level, op) = level
    OBVIOUS
  <2>2. op \in AllOperators
    BY DEF AllOperators
  <2>3. op \in AnywhereButPaths
    BY DEF AnywhereButPaths
  <2>4. /\ op \notin PathStarts \cup PathParts \cup Clippings \cup Paintings
        /\ op \notin PageOperators \cup PositionOperators \cup ShowOperators \cup {"BT", "ET"}
    BY DEF ColorOperators, PathStarts, PathParts, Clippings, Paintings, PageOperators,
           PositionOperators, ShowOperators
  <2>5. QED
    BY <2>2, <2>3, <2>4 DEF Read
<1>2. {"RG", "rg", "K", "k", "G", "g"} \subseteq ColorOperators
  BY DEF ColorOperators
<1>3. SetColor(o, isStroke) = <<>>
      \/ \E op \in {"RG", "rg", "K", "k", "G", "g"} : SetColor(o, isStroke) = <<op>>
  BY DEF SetColor
<1>4. QED
  BY <1>1, <1>2, <1>3, NeutralNone, NeutralOne

\* What sets a command up leaves the reader on the page.
LEMMA SetupIsNeutral ==
  ASSUME NEW o
  PROVE  Neutral(SetupColorAndLineWidth(o), "page")
<1> DEFINE isStroke == o.type \in {Absent, "stroke"}
           rest == IF isStroke /\ o.width THEN <<"w">> ELSE <<>>
<1>1. Neutral(SetColor(o, isStroke), "page")
  BY ColorsAreNeutral
<1>2. Read("page", "w") = "page"
  BY DEF Read, PathStarts, PathParts, Clippings, Paintings, PageOperators,
         AnywhereButPaths, StateOperators
<1>3. Neutral(<<"w">>, "page")
  <2>1. "w" \in AllOperators
    BY DEF AllOperators, StateOperators
  <2>2. QED
    BY <1>2, <2>1, NeutralOne
<1>4. Neutral(rest, "page")
  BY <1>3, NeutralNone
<1>5. SetupColorAndLineWidth(o) = SetColor(o, isStroke) \o rest
  BY DEF SetupColorAndLineWidth
<1> HIDE DEF rest, isStroke
<1>6. QED
  BY <1>1, <1>4, <1>5, NeutralConcat

LEMMA NeutralReads ==
  ASSUME NEW level, NEW ops, Neutral(ops, level)
  PROVE  ops \in Seq(AllOperators) /\ ReadAll(level, ops) = level
BY ReadStays DEF Neutral

--------------------------------------------------------------------------------
(* What the operations leave alone.                                         *)

\* The states of the levels below.
Kept(c, e) ==
  /\ Len(e.stack) = Len(c.stack)
  /\ \A k \in 1..Len(c.stack) - 1 : e.stack[k] = c.stack[k] /\ e.read[k] = c.read[k]

NamesIn(c) ==
  \A category \in Categories : DOMAIN c.resources.maps[category] \subseteq IDs

Goes(c, e) == ContentOK(e) /\ Kept(c, e) /\ (NamesIn(c) => NamesIn(e))

LEMMA GoesNowhere ==
  ASSUME NEW c, ContentOK(c)
  PROVE  Goes(c, c)
BY DEF Goes, Kept

LEMMA GoesOn ==
  ASSUME NEW c, NEW e, Goes(c, e), NEW f, Goes(e, f)
  PROVE  Goes(c, f)
BY DEF Goes, Kept

LEMMA WroteGoes ==
  ASSUME NEW c, ContentOK(c), NEW ops
  PROVE  /\ Goes(c, Wrote(c, ops))
         /\ Wrote(c, ops).level = ReadAll(c.level, ops)
<1> DEFINE w == Wrote(c, ops)
<1>1. /\ w.stack = c.stack /\ w.read = c.read /\ w.resources = c.resources
      /\ w.level = ReadAll(c.level, ops)
  BY DEF ContentOK, IsContent, Wrote
<1>2. ContentOK(w)
  BY WroteIsOK
<1> HIDE DEF w
<1>3. QED
  BY <1>1, <1>2 DEF Goes, Kept, NamesIn, w

\* A change of the top of the stacks.
LEMMA TopGoes ==
  ASSUME NEW c, ContentOK(c), NEW e, ContentOK(e), e.resources = c.resources,
         NEW s, NEW r, e.stack = WithTop(c.stack, s),
         e.read = WithTop(c.read, r) \/ e.read = c.read
  PROVE  Goes(c, e)
<1>1. /\ c.stack \in Seq(States) /\ Len(c.stack) \in Nat /\ Len(c.stack) > 0
      /\ c.read \in Seq(ReadStates) /\ Len(c.read) = Len(c.stack)
  BY LenProperties DEF ContentOK, StacksOK
<1>2. /\ Len(e.stack) = Len(c.stack)
      /\ \A k \in 1..Len(c.stack) - 1 : e.stack[k] = c.stack[k]
  BY <1>1, ExceptSeq DEF WithTop
<1>3. \A k \in 1..Len(c.stack) - 1 : e.read[k] = c.read[k]
  BY <1>1, ExceptSeq DEF WithTop
<1>4. QED
  BY <1>2, <1>3 DEF Goes, Kept, NamesIn

LEMMA PlacedGoes ==
  ASSUME NEW c, ContentOK(c), NEW name \in Names, NEW size \in Nat
  PROVE  /\ Goes(c, Placed(c, name, size))
         /\ Placed(c, name, size).level = ReadAll(c.level, <<"Tf">>)
<1> DEFINE w == Wrote(c, <<"Tf">>)
           p == Placed(c, name, size)
           s == [Top(w.stack) EXCEPT !.placedName = name, !.placedSize = size]
           r == [name |-> name, size |-> size]
<1>1. ContentOK(w) /\ Goes(c, w) /\ w.level = ReadAll(c.level, <<"Tf">>)
  BY WroteGoes, WroteIsOK
<1>2. p = [w EXCEPT !.stack = WithTop(w.stack, s), !.read = WithTop(w.read, r)]
  BY DEF Placed
<1>3. ContentOK(p)
  BY PlacedIsOK
<1> HIDE DEF w, p, s, r
<1>4. /\ p.stack = WithTop(w.stack, s) /\ p.read = WithTop(w.read, r)
      /\ p.resources = w.resources /\ p.level = w.level
  BY <1>1, <1>2 DEF ContentOK, IsContent
<1>5. Goes(w, p)
  BY <1>1, <1>3, <1>4, TopGoes
<1>6. QED
  BY <1>1, <1>4, <1>5, GoesOn DEF p

LEMMA ChosenGoes ==
  ASSUME NEW c, ContentOK(c), NEW font \in Fonts \cup {NoFont}, NEW size \in Nat
  PROVE  /\ Goes(c, Chosen(c, font, size))
         /\ Chosen(c, font, size).level = c.level
<1> DEFINE p == Chosen(c, font, size)
           s == [Top(c.stack) EXCEPT !.font = font, !.size = size]
<1>1. p = [c EXCEPT !.stack = WithTop(c.stack, s)]
  BY DEF Chosen
<1>2. ContentOK(p)
  BY ChosenIsOK
<1> HIDE DEF p, s
<1>3. /\ p.stack = WithTop(c.stack, s) /\ p.read = c.read
      /\ p.resources = c.resources /\ p.level = c.level
  BY <1>1 DEF ContentOK, IsContent
<1>4. QED
  BY <1>2, <1>3, TopGoes DEF p

\* Only the object that is named joins the resources.
LEMMA MappingAdds ==
  ASSUME NEW d, ResourcesOK(d), NEW kind \in Kinds, NEW id,
         NEW category \in Categories
  PROVE  DOMAIN AddMapping(d, kind, id).maps[category]
             \subseteq DOMAIN d.maps[category] \cup {id}
<1> DEFINE m == MapOf(kind)
           f == [i \in DOMAIN d.maps[m] \cup {id} |->
                    IF i = id THEN NextName(d, kind) ELSE d.maps[m][i]]
<1>1. d.maps = [c \in Categories |-> d.maps[c]]
  BY DEF ResourcesOK, IsResources
<1>2. AddMapping(d, kind, id).maps = d.maps
      \/ AddMapping(d, kind, id).maps = [d.maps EXCEPT ![m] = f]
  BY DEF AddMapping
<1>3. DOMAIN f = DOMAIN d.maps[m] \cup {id}
  OBVIOUS
<1> HIDE DEF f, m
<1>4. QED
  BY <1>1, <1>2, <1>3

LEMMA NamedGoes ==
  ASSUME NEW c, ContentOK(c), NEW kind \in {"Font", "Form", "Image"},
         NEW id \in Nat, id # NoID, id \in IDs
  PROVE  Goes(c, Named(c, kind, id)) /\ Named(c, kind, id).level = c.level
<1> DEFINE p == Named(c, kind, id)
<1>1. kind \in Kinds
  BY DEF Kinds, XObjectKinds, OtherKinds
<1>2. /\ p.stack = c.stack /\ p.read = c.read /\ p.level = c.level
      /\ p.resources = AddMapping(c.resources, kind, id)
  BY DEF Named, ContentOK, IsContent
<1>3. ContentOK(p)
  BY NamedIsOK
<1> HIDE DEF p
<1>4. NamesIn(c) => NamesIn(p)
  BY <1>1, <1>2, MappingAdds DEF NamesIn, ContentOK
<1>5. QED
  BY <1>2, <1>3, <1>4 DEF Goes, Kept, p
LEMMA PreparedGoes ==
  ASSUME NEW c, ContentOK(c), NEW id \in Nat, id # NoID, id \in IDs
  PROVE  /\ Goes(c, Prepared(c, id))
         /\ c.level \in Levels => Prepared(c, id).level \in Levels
         /\ c.level = "text" => Prepared(c, id).level = "text"
<1> DEFINE name == NameFor(c.resources, "Font", id)
           named == Named(c, "Font", id)
           size == Top(c.stack).size
           p == Placed(named, name, size)
<1>1. ContentOK(named) /\ Goes(c, named) /\ named.level = c.level
  BY NamedIsOK, NamedGoes
<1>2. name \in Names /\ size \in Nat
  <2>1. "Font" \in Kinds
    BY DEF Kinds, OtherKinds
  <2>2. Top(c.stack) \in States
    BY TopsAgree
  <2>3. QED
    BY <2>1, <2>2, NameForType DEF ContentOK, States
<1>3. "Tf" \in AllOperators /\ Read("text", "Tf") = "text"
  BY DEF AllOperators, TextStateOperators, Read, PathStarts, PathParts, Clippings,
         Paintings, PageOperators, AnywhereButPaths, PositionOperators, ShowOperators
<1>4. Prepared(c, id) = p \/ Prepared(c, id) = named
  BY DEF Prepared
<1> HIDE DEF name, named, size, p
<1>5. Goes(named, p) /\ p.level = ReadAll(named.level, <<"Tf">>)
  BY <1>1, <1>2, PlacedGoes DEF p
<1>6. <<"Tf">> \in Seq(AllOperators) /\ ReadAll(named.level, <<"Tf">>) = Read(named.level, "Tf")
  BY <1>3, ReadOne
<1>7. named.level \in Levels => Read(named.level, "Tf") \in Levels
  BY ReadTyped
<1>8. Goes(c, p)
  BY <1>1, <1>5, GoesOn
<1>9. QED
  BY <1>1, <1>3, <1>4, <1>5, <1>6, <1>7, <1>8

\* The objects that texts are shown with are listed.
LEMMA ShownIDIsListed ==
  ASSUME NEW c, ContentOK(c), NEW representation \in Encoded, IsShown(c, representation)
  PROVE  ShownID(c, representation) \in IDs
<1> USE ContentAssumption
<1>1. Top(c.stack).font \in Fonts
  BY TopsAgree DEF States, IsShown
<1>2. representation \in Representations
  BY DEF Encoded, IsShown
<1>3. QED
  BY <1>1, <1>2 DEF ShownID, IDs

LEMMA ShownGoes ==
  ASSUME NEW c, ContentOK(c), NEW op \in AllOperators, NEW representation \in Encoded
  PROVE  /\ Goes(c, Shown(c, op, representation))
         /\ c.level \in Levels => Shown(c, op, representation).level \in Levels
         /\ c.level = "text" /\ op = "Tj" =>
                Shown(c, op, representation).level = "text"
<1>1. CASE IsShown(c, representation)
  <2> DEFINE id == ShownID(c, representation)
             p == Prepared(c, id)
  <2>1. id \in Nat /\ id # NoID /\ id \in IDs
    BY <1>1, ShownIDIsOne, ShownIDIsListed
  <2> DEFINE word == Keyword(op, representation \in Wide)
  <2>2. /\ Shown(c, op, representation) = Wrote(p, <<word>>)
        /\ word \in AllOperators
        /\ op = "Tj" => word = "Tj"
    BY <1>1 DEF Shown, Keyword, AllOperators
  <2> HIDE DEF id, word
  <2>3. ContentOK(p) /\ Goes(c, p)
        /\ (c.level \in Levels => p.level \in Levels)
        /\ (c.level = "text" => p.level = "text")
    BY <2>1, PreparedIsOK, PreparedGoes
  <2> HIDE DEF p
  <2>4. Goes(p, Wrote(p, <<word>>)) /\ Wrote(p, <<word>>).level = ReadAll(p.level, <<word>>)
    BY <2>3, WroteGoes
  <2>5. ReadAll(p.level, <<word>>) = Read(p.level, word)
        /\ (p.level \in Levels => Read(p.level, word) \in Levels)
    BY <2>2, ReadOne, ReadTyped
  <2>6. Read("text", "Tj") = "text"
    BY DEF ShowOperators, Read, PathStarts, PathParts, Clippings, Paintings,
           PageOperators, AnywhereButPaths, StateOperators, ColorOperators,
           TextStateOperators, PositionOperators
  <2>7. Goes(c, Wrote(p, <<word>>))
    BY <2>3, <2>4, GoesOn
  <2>8. QED
    BY <2>2, <2>3, <2>4, <2>5, <2>6, <2>7
<1>2. CASE ~IsShown(c, representation)
  BY <1>2, GoesNowhere DEF Shown
<1>3. QED
  BY <1>1, <1>2

--------------------------------------------------------------------------------
(* The steps again: types, and that drawing commands are whole.             *)

TInv ==
  /\ hasContext \in BOOLEAN
  /\ Len(content.stack) <= MaxDepth + 1
  /\ content.level \in Levels
  /\ NamesIn(content)
  /\ last.command \in {"operator", "drawing", "open"}

\* Where a command may leave the content.
EndsRight(command, level) ==
  /\ command \in {"drawing", "open"}
  /\ command = "drawing" => level = "page"
  /\ command = "open" => level \in {"path", "clip"}

IsWhole ==
  last'.command # "operator" =>
      EndsRight(last'.command, content'.level) /\ Kept(content, content')

Right == TInv' /\ IsWhole

LEMMA ThrowsIsRight ==
  ASSUME IInv, TInv, Throws
  PROVE  Right
BY DEF Throws, Quiet, TInv, Right, IsWhole, NamesIn

\* A call that leaves what is below alone.
LEMMA BecomesIsRight ==
  ASSUME IInv, TInv, NEW c, Goes(content, c), c.level \in Levels, content' = c,
         last'.command = "operator", UNCHANGED hasContext
  PROVE  Right
<1>1. /\ Len(c.stack) = Len(content.stack)
      /\ NamesIn(c)
  BY DEF Goes, Kept, TInv
<1>2. NamesIn(content)'
  BY <1>1 DEF NamesIn
<1>3. QED
  BY <1>1, <1>2 DEF TInv, Right, IsWhole

LEMMA OperatorIsRight ==
  ASSUME IInv, TInv, NEW op \in AllOperators, NEW accepted, Operator(op, accepted)
  PROVE  Right
<1> DEFINE c == Wrote(content, <<op>>)
<1>1. Goes(content, c) /\ c.level = ReadAll(content.level, <<op>>)
  BY WroteGoes DEF IInv
<1>2. c.level \in Levels
  BY <1>1, ReadOne, ReadTyped DEF TInv
<1>3. Becomes(c) \/ Throws
  BY DEF Operator
<1> HIDE DEF c
<1>4. ASSUME Becomes(c)
      PROVE  Right
  <2>1. content' = c /\ last'.command = "operator" /\ UNCHANGED hasContext
    BY <1>4 DEF Becomes, Quiet
  <2>2. QED
    BY <1>1, <1>2, <2>1, BecomesIsRight
<1>5. QED
  BY <1>3, <1>4, ThrowsIsRight

LEMMA ShowsIsRight ==
  ASSUME IInv, TInv, NEW op \in AllOperators, NEW representation \in Encoded,
         Shows(content, op, representation)
  PROVE  Right
<1> DEFINE c == Shown(content, op, representation)
<1>1. Goes(content, c) /\ c.level \in Levels
  BY ShownGoes DEF IInv, TInv
<1>2. content' = c /\ last'.command = "operator" /\ UNCHANGED hasContext
  BY DEF Shows, Quiet
<1> HIDE DEF c
<1>3. QED
  BY <1>1, <1>2, BecomesIsRight

LEMMA CommandIsRight ==
  ASSUME IInv, TInv, NEW command, NEW accepted, NEW c, NEW font,
         Command(command, accepted, c, font),
         Goes(content, c), content.level = "page" => c.level \in Levels,
         content.level = "page" => EndsRight(command, c.level)
  PROVE  Right
<1>1. CASE hasContext /\ accepted
  <2>1. /\ content.level = "page" /\ content' = c /\ UNCHANGED hasContext
        /\ last' = [command |-> command, font |-> font]
    BY <1>1 DEF Command
  <2>2. /\ Len(c.stack) = Len(content.stack) /\ NamesIn(c) /\ Kept(content, c)
    BY DEF Goes, Kept, TInv
  <2>3. NamesIn(content)' /\ Kept(content, content')
    BY <2>1, <2>2 DEF NamesIn, Kept
  <2>4. last'.command = command /\ EndsRight(command, c.level)
    BY <2>1
  <2>5. last'.command \in {"operator", "drawing", "open"}
    BY <2>4 DEF EndsRight
  <2>6. QED
    BY <2>1, <2>2, <2>3, <2>4, <2>5 DEF TInv, Right, IsWhole
<1>2. CASE ~(hasContext /\ accepted)
  BY <1>2, ThrowsIsRight DEF Command
<1>3. QED
  BY <1>1, <1>2
LEMMA OperatorsAreRight == IInv /\ TInv /\ Operators => Right
<1> SUFFICES ASSUME IInv, TInv, Operators PROVE Right
  OBVIOUS
<1>0. ContentOK(content)
  BY DEF IInv
<1>1. CASE SaveState
  <2>1. CASE hasContext
    <3> DEFINE w == Wrote(content, <<"q">>)
               p == Pushed(content)
    <3>1. /\ content' = p /\ last'.command = "operator" /\ UNCHANGED hasContext
          /\ Len(content.stack) <= MaxDepth
      BY <1>1, <2>1 DEF SaveState, Becomes, Quiet
    <3>2. ContentOK(w) /\ Goes(content, w) /\ w.level = ReadAll(content.level, <<"q">>)
      BY <1>0, WroteGoes, WroteIsOK
    <3>3. p = [w EXCEPT !.stack = Append(w.stack, Top(w.stack)),
                        !.read = Append(w.read, Top(w.read))]
      BY DEF Pushed
    <3> HIDE DEF w, p
    <3>4. /\ p.stack = Append(w.stack, Top(w.stack)) /\ p.level = w.level
          /\ p.resources = w.resources
      BY <3>2, <3>3 DEF ContentOK, IsContent
    <3>5. Len(w.stack) = Len(content.stack) /\ NamesIn(w)
      BY <3>2 DEF Goes, Kept, TInv
    <3>6. w.stack \in Seq(States) /\ Len(w.stack) \in Nat /\ Top(w.stack) \in States
      BY <3>2, LenProperties, TopsAgree DEF ContentOK, StacksOK
    <3>7. Len(p.stack) = Len(content.stack) + 1 /\ Len(content.stack) \in Nat
      BY <3>4, <3>5, <3>6, AppendProperties
    <3>8. Len(p.stack) <= MaxDepth + 1
      BY <3>1, <3>7, ContentAssumption
    <3>9. w.level \in Levels
      <4>1. "q" \in AllOperators
        BY DEF AllOperators, PageOperators
      <4>2. QED
        BY <3>2, <4>1, ReadOne, ReadTyped DEF TInv
    <3>10. NamesIn(content)'
      BY <3>1, <3>4, <3>5 DEF NamesIn
    <3>11. QED
      BY <3>1, <3>4, <3>8, <3>9, <3>10 DEF TInv, Right, IsWhole
  <2>2. QED
    BY <1>1, <2>1, ThrowsIsRight DEF SaveState
<1>2. CASE RestoreState
  <2>1. CASE hasContext
    <3> DEFINE w == Wrote(content, <<"Q">>)
               p == Popped(content)
    <3>1. content' = p /\ last'.command = "operator" /\ UNCHANGED hasContext
      BY <1>2, <2>1 DEF RestoreState, Becomes, Quiet
    <3>2. ContentOK(w) /\ Goes(content, w) /\ w.level = ReadAll(content.level, <<"Q">>)
          /\ w.stack = content.stack
      BY <1>0, WroteGoes, WroteIsOK
    <3>3. \/ p = w
          \/ /\ Len(content.stack) # 1
             /\ p = [w EXCEPT !.stack = SubSeq(w.stack, 1, Len(w.stack) - 1),
                              !.read = SubSeq(w.read, 1, Len(w.read) - 1)]
      BY DEF Popped
    <3> HIDE DEF w, p
    <3>4. /\ p.level = w.level /\ p.resources = w.resources
          /\ \/ p.stack = w.stack
             \/ Len(content.stack) # 1 /\ p.stack = SubSeq(w.stack, 1, Len(w.stack) - 1)
      BY <3>2, <3>3 DEF ContentOK, IsContent
    <3>5. w.stack \in Seq(States) /\ Len(w.stack) \in Nat /\ Len(w.stack) > 0
      BY <3>2, LenProperties DEF ContentOK, StacksOK
    <3>6. Len(p.stack) <= Len(w.stack)
      BY <3>4, <3>5, SubSeqProperties
    <3>7. Len(p.stack) \in Nat
      <4>1. ContentOK(p)
        BY <1>0, PoppedIsOK DEF p
      <4>2. QED
        BY <4>1, LenProperties DEF ContentOK, StacksOK
    <3>8. Len(p.stack) <= MaxDepth + 1
      BY <3>2, <3>5, <3>6, <3>7, ContentAssumption DEF TInv
    <3>9. w.level \in Levels
      <4>1. "Q" \in AllOperators
        BY DEF AllOperators, PageOperators
      <4>2. QED
        BY <3>2, <4>1, ReadOne, ReadTyped DEF TInv
    <3>10. NamesIn(w)
      BY <3>2 DEF Goes, TInv
    <3>11. NamesIn(content)'
      BY <3>1, <3>4, <3>10 DEF NamesIn
    <3>12. QED
      BY <3>1, <3>4, <3>8, <3>9, <3>11 DEF TInv, Right, IsWhole
  <2>2. QED
    BY <1>2, <2>1, ThrowsIsRight DEF RestoreState
<1>3. /\ PathStarts \cup PathParts \subseteq AllOperators
      /\ Paintings \cup Clippings \subseteq AllOperators
      /\ {"BT", "ET", "cm", "w"} \subseteq AllOperators
      /\ StateOperators \cup ColorOperators \subseteq AllOperators
      /\ TextStateOperators \cup PositionOperators \subseteq AllOperators
  BY DEF AllOperators, PageOperators, StateOperators
<1>4. ASSUME NEW op \in AllOperators, NEW args,
             \/ PointOperator(op, args) \/ CloseOrRectangle(op, args)
             \/ LineOperator(op, args) \/ StateOperator(op, args)
             \/ ColorSpaceOperator(op, args) \/ ComponentsOperator(op, args)
             \/ DeviceColorOperator(op, args)
             \/ TextStateOperator(op, args) \/ PositionOperator(op, args)
             \/ PaintOperator(op) \/ Clip(op) \/ TextObjectOperator(op)
      PROVE  Right
  BY <1>4, OperatorIsRight
     DEF PaintOperator, Clip, TextObjectOperator, PointOperator,
         CloseOrRectangle, LineOperator, StateOperator,
         ColorSpaceOperator, ComponentsOperator, DeviceColorOperator,
         TextStateOperator, PositionOperator
<1>5. ASSUME NEW args, Transform(args) \/ WriteFreeCode(args)
      PROVE  Right
  BY <1>3, <1>5, OperatorIsRight DEF Transform, WriteFreeCode
<1>6. QED
  BY <1>1, <1>2, <1>3, <1>4, <1>5 DEF Operators

LEMMA TextsAreRight == IInv /\ TInv /\ Texts => Right
<1> SUFFICES ASSUME IInv, TInv, Texts PROVE Right
  OBVIOUS
<1>0. ContentOK(content) /\ content.level \in Levels
  BY DEF IInv, TInv
<1> USE ContentAssumption
<1>1. ASSUME NEW size \in Sizes, NEW name \in ClientNames, SetFontByName(name, size)
      PROVE  Right
  <2> DEFINE c == Placed(content, name, size)
  <2>1. name \in Names /\ size \in Nat
    BY DEF Names
  <2>2. Goes(content, c) /\ c.level = ReadAll(content.level, <<"Tf">>)
    BY <1>0, <2>1, PlacedGoes
  <2>3. "Tf" \in AllOperators
    BY DEF AllOperators, TextStateOperators
  <2>4. c.level \in Levels
    BY <1>0, <2>2, <2>3, ReadOne, ReadTyped
  <2>5. Becomes(c) \/ Throws
    BY <1>1 DEF SetFontByName
  <2> HIDE DEF c
  <2>6. QED
    BY <2>2, <2>4, <2>5, BecomesIsRight, ThrowsIsRight DEF Becomes, Quiet
<1>2. ASSUME NEW size \in Sizes, NEW font \in Fonts, SetFontObject(font, size)
      PROVE  Right
  <2> DEFINE c == Chosen(content, font, size)
  <2>1. Goes(content, c) /\ c.level = content.level
    BY <1>0, ChosenGoes
  <2>2. Becomes(c) \/ Throws
    BY <1>2 DEF SetFontObject
  <2> HIDE DEF c
  <2>3. QED
    BY <1>0, <2>1, <2>2, BecomesIsRight, ThrowsIsRight DEF Becomes, Quiet
<1>3. ASSUME NEW op \in AllOperators, Becomes(Wrote(content, <<op>>))
      PROVE  Right
  <2> DEFINE c == Wrote(content, <<op>>)
  <2>1. Goes(content, c) /\ c.level = ReadAll(content.level, <<op>>)
    BY <1>0, WroteGoes
  <2>2. c.level \in Levels
    BY <1>0, <2>1, ReadOne, ReadTyped
  <2>3. Becomes(c)
    BY <1>3
  <2> HIDE DEF c
  <2>4. QED
    BY <2>1, <2>2, <2>3, BecomesIsRight DEF Becomes, Quiet
<1>4. ASSUME NEW op \in ShowOperators, NEW args, ShowText(op, args)
      PROVE  Right
  <2>1. op \in AllOperators
    BY DEF AllOperators
  <2>2. \/ \E representation \in Encoded : Shows(content, op, representation)
        \/ \E word \in {op, NoOperator} : Becomes(Wrote(content, <<word>>))
        \/ Throws
    BY <1>4 DEF ShowText, Keyword
  <2>3. NoOperator \in AllOperators
    BY DEF AllOperators
  <2>4. QED
    BY <1>3, <2>1, <2>2, <2>3, ThrowsIsRight, ShowsIsRight
<1>5. ASSUME NEW args, ShowStrings(args)
      PROVE  Right
  <2>1. "TJ" \in AllOperators
    BY DEF AllOperators, ShowOperators
  <2>2. \/ \E representation \in Encoded : Shows(content, "TJ", representation)
        \/ Becomes(Wrote(content, <<"TJ">>))
        \/ Throws
    BY <1>5 DEF ShowStrings
  <2>3. QED
    BY <1>3, <2>1, <2>2, ThrowsIsRight, ShowsIsRight
<1>6. QED
  BY <1>1, <1>2, <1>4, <1>5 DEF Texts
\* A path may end with two operators, and a circle is four curves.
LEMMA OneAndOne ==
  ASSUME NEW S, NEW a \in S, NEW b \in S
  PROVE  <<a>> \o <<b>> = <<a, b>>
<1>1. PICK one : one = <<a>>
  OBVIOUS
<1>2. PICK other : other = <<b>>
  OBVIOUS
<1>3. PICK two : two = <<a, b>>
  OBVIOUS
<1>4. /\ one \in Seq(S) /\ Len(one) = 1 /\ one[1] = a
      /\ other \in Seq(S) /\ Len(other) = 1 /\ other[1] = b
  BY <1>1, <1>2, OneOf
<1>5. two \in Seq(S) /\ Len(two) = 2 /\ two[1] = a /\ two[2] = b
  BY <1>3
<1>6. /\ one \o other \in Seq(S) /\ Len(one \o other) = 2
      /\ (one \o other)[1] = a /\ (one \o other)[2] = b
  <2>1. /\ one \o other \in Seq(S) /\ Len(one \o other) = Len(one) + Len(other)
        /\ \A k \in 1..Len(one) + Len(other) :
              (one \o other)[k] = IF k <= Len(one) THEN one[k] ELSE other[k - Len(one)]
    BY <1>4, ConcatProperties
  <2>2. QED
    BY <1>4, <2>1
<1>7. one \o other = two
  <2>1. \A k \in 1..2 : (one \o other)[k] = two[k]
    <3>1. \A k \in 1..2 : k = 1 \/ k = 2
      OBVIOUS
    <3>2. QED
      BY <1>5, <1>6, <3>1
  <2>2. QED
    BY <1>5, <1>6, <2>1, SeqEqual
<1>8. QED
  BY <1>1, <1>2, <1>3, <1>7

LEMMA FourOf ==
  ASSUME NEW S, NEW a \in S, NEW four, four = <<a, a, a, a>>
  PROVE  four \in Seq(S) /\ Len(four) = 4 /\ \A k \in 1..4 : four[k] = a
OBVIOUS

LEMMA FourAre ==
  ASSUME NEW S, NEW a \in S, NEW b \in S, NEW c \in S, NEW d \in S,
         NEW four, four = <<a, b, c, d>>
  PROVE  /\ four \in Seq(S) /\ Len(four) = 4
         /\ four[1] = a /\ four[2] = b /\ four[3] = c /\ four[4] = d
OBVIOUS

\* A circle is a point and four curves.
LEMMA OneAndFour ==
  ASSUME NEW S, NEW a \in S, NEW b \in S
  PROVE  <<a>> \o <<b, b, b, b>> = <<a, b, b, b, b>>
<1>1. PICK one : one = <<a>>
  OBVIOUS
<1>2. PICK four : four = <<b, b, b, b>>
  OBVIOUS
<1>3. PICK five : five = <<a, b, b, b, b>>
  OBVIOUS
<1>4. one \in Seq(S) /\ Len(one) = 1 /\ one[1] = a
  BY <1>1, OneOf
<1>5. four \in Seq(S) /\ Len(four) = 4 /\ \A k \in 1..4 : four[k] = b
  BY <1>2, FourOf
<1>6. five \in Seq(S) /\ Len(five) = 5 /\ five[1] = a /\ five[2] = b /\ five[3] = b
      /\ five[4] = b /\ five[5] = b
  BY <1>3
<1>7. /\ one \o four \in Seq(S) /\ Len(one \o four) = 5
      /\ \A k \in 1..5 : (one \o four)[k] = IF k <= 1 THEN one[k] ELSE four[k - 1]
  <2>1. /\ one \o four \in Seq(S) /\ Len(one \o four) = Len(one) + Len(four)
        /\ \A k \in 1..Len(one) + Len(four) :
              (one \o four)[k] = IF k <= Len(one) THEN one[k] ELSE four[k - Len(one)]
    BY <1>4, <1>5, ConcatProperties
  <2>2. Len(one) = 1 /\ Len(four) = 4 /\ 1 + 4 = 5
    BY <1>4, <1>5
  <2>3. QED
    BY <2>1, <2>2
<1>8. ASSUME NEW k \in 1..5
      PROVE  (one \o four)[k] = five[k]
  <2>1. k = 1 \/ k = 2 \/ k = 3 \/ k = 4 \/ k = 5
    OBVIOUS
  <2>2. k # 1 => k - 1 \in 1..4 /\ ~(k <= 1)
    OBVIOUS
  <2>3. QED
    BY <1>4, <1>5, <1>6, <1>7, <2>1, <2>2
<1>9. one \o four = five
  BY <1>6, <1>7, <1>8, SeqEqual
<1>10. QED
  BY <1>1, <1>2, <1>3, <1>9

\* How a path is finished.
LEMMA FinishPathReads ==
  ASSUME NEW o
  PROVE  /\ FinishPath(o) \in Seq(AllOperators)
         /\ EndsRight(IF Paints(o) THEN "drawing" ELSE "open",
                      ReadAll("path", FinishPath(o)))
<1>1. {"s", "S", "f", "h", "W"} \subseteq AllOperators
  BY DEF AllOperators, Paintings, PathParts, Clippings
<1>2. ASSUME NEW op \in {"s", "S", "f"}
      PROVE  Read("path", op) = "page"
  BY DEF Read, PathStarts, PathParts, Clippings, Paintings, PageOperators,
         AnywhereButPaths, StateOperators, ColorOperators, TextStateOperators,
         PositionOperators, ShowOperators
<1>3. ASSUME NEW op \in {"s", "S", "f"}, FinishPath(o) = <<op>>
      PROVE  FinishPath(o) \in Seq(AllOperators) /\ ReadAll("path", FinishPath(o)) = "page"
  BY <1>1, <1>2, <1>3, ReadOne
<1>4. o.type \in {Absent, "stroke", "fill"} =>
          \E op \in {"s", "S", "f"} : FinishPath(o) = <<op>>
  BY DEF FinishPath, Absent
<1>5. o.type \notin {Absent, "stroke", "fill"} =>
          FinishPath(o) = <<>> \/ FinishPath(o) = <<"W">> \/ FinishPath(o) = <<"h", "W">>
  BY DEF FinishPath
<1>6. <<>> \in Seq(AllOperators) /\ ReadAll("path", <<>>) = "path"
  BY EmptySeq, NeutralNone, NeutralReads
<1>7. /\ <<"W">> \in Seq(AllOperators) /\ <<"h">> \in Seq(AllOperators)
      /\ ReadAll("path", <<"W">>) = "clip" /\ ReadAll("path", <<"h">>) = "path"
  <2>1. Read("path", "W") = "clip" /\ Read("path", "h") = "path"
    BY DEF Read, PathStarts, PathParts, Clippings, Paintings, PageOperators,
           AnywhereButPaths, StateOperators, ColorOperators, TextStateOperators,
           PositionOperators, ShowOperators
  <2>2. QED
    BY <1>1, <2>1, ReadOne
<1>8. <<"h", "W">> \in Seq(AllOperators) /\ ReadAll("path", <<"h", "W">>) = "clip"
  <2>1. <<"h">> \o <<"W">> = <<"h", "W">>
    BY <1>1, OneAndOne
  <2>2. PICK one \in Seq(AllOperators) : one = <<"h">> /\ ReadAll("path", one) = "path"
    BY <1>7
  <2>3. PICK other \in Seq(AllOperators) : other = <<"W">> /\ ReadAll("path", other) = "clip"
    BY <1>7
  <2>4. /\ one \o other \in Seq(AllOperators)
        /\ ReadAll("path", one \o other) = ReadAll(ReadAll("path", one), other)
    BY ReadSplit
  <2>5. QED
    BY <2>1, <2>2, <2>3, <2>4
<1>9. CASE Paints(o)
  BY <1>3, <1>4, <1>9 DEF EndsRight, Paints
<1>10. CASE ~Paints(o)
  BY <1>5, <1>6, <1>7, <1>8, <1>10 DEF EndsRight, Paints
<1>11. QED
  BY <1>9, <1>10

\* A path is drawn, and painted or left open.
LEMMA DrawingIsRight ==
  ASSUME IInv, TInv, NEW options \in Options, NEW accepted, NEW first \in PathStarts,
         NEW rest, Neutral(rest, "path"),
         Outlines(accepted, <<first>> \o rest, options)
  PROVE  Right
<1> DEFINE o == OptionsIn(options)
           setup == SetupColorAndLineWidth(o)
           outline == <<first>> \o rest
           all == setup \o outline \o FinishPath(o)
           c == Wrote(content, all)
           command == IF Paints(o) THEN "drawing" ELSE "open"
<1>1. Neutral(setup, "page")
  BY SetupIsNeutral
<1>2. setup \in Seq(AllOperators) /\ ReadAll("page", setup) = "page"
  BY <1>1, NeutralReads
<1>3. <<first>> \in Seq(AllOperators) /\ ReadAll("page", <<first>>) = "path"
  <2>1. first \in AllOperators
    BY DEF AllOperators
  <2>2. Read("page", first) = "path"
    BY DEF Read, PathStarts, PathParts, Clippings, Paintings, PageOperators,
           AnywhereButPaths, StateOperators, ColorOperators, TextStateOperators,
           PositionOperators, ShowOperators
  <2>3. QED
    BY <2>1, <2>2, ReadOne
<1>4. rest \in Seq(AllOperators) /\ ReadAll("path", rest) = "path"
  BY NeutralReads
<1>5. outline \in Seq(AllOperators) /\ ReadAll("page", outline) = "path"
  <2>1. PICK one \in Seq(AllOperators) : one = <<first>> /\ ReadAll("page", one) = "path"
    BY <1>3
  <2>2. one \o rest \in Seq(AllOperators)
        /\ ReadAll("page", one \o rest) = ReadAll(ReadAll("page", one), rest)
    BY <1>4, ReadSplit
  <2>3. QED
    BY <1>4, <2>1, <2>2
<1>6. FinishPath(o) \in Seq(AllOperators)
      /\ EndsRight(command, ReadAll("path", FinishPath(o)))
  BY FinishPathReads
<1>7. Goes(content, c) /\ c.level = ReadAll(content.level, all)
  BY WroteGoes DEF IInv
<1>8. Command(command, accepted, c, NoID)
  BY DEF Outlines, Outlined
<1> HIDE DEF o, setup, outline, c, command
<1>9. setup \o outline \in Seq(AllOperators) /\ ReadAll("page", setup \o outline) = "path"
  <2>1. setup \o outline \in Seq(AllOperators)
        /\ ReadAll("page", setup \o outline) = ReadAll(ReadAll("page", setup), outline)
    BY <1>2, <1>5, ReadSplit
  <2>2. QED
    BY <1>2, <1>5, <2>1
<1>10. all \in Seq(AllOperators)
       /\ ReadAll("page", all) = ReadAll("path", FinishPath(o))
  <2> DEFINE begun == setup \o outline
  <2>1. begun \in Seq(AllOperators) /\ ReadAll("page", begun) = "path"
    BY <1>9
  <2>2. all = begun \o FinishPath(o)
    OBVIOUS
  <2> HIDE DEF begun, all
  <2>3. /\ begun \o FinishPath(o) \in Seq(AllOperators)
        /\ ReadAll("page", begun \o FinishPath(o))
             = ReadAll(ReadAll("page", begun), FinishPath(o))
    BY <1>6, <2>1, ReadSplit
  <2>4. QED
    BY <2>1, <2>2, <2>3
<1> HIDE DEF all
<1>11. "page" \in Levels
  BY DEF Levels
<1>12. content.level = "page" => c.level \in Levels
  BY <1>7, <1>10, <1>11, ReadAllTyped
<1>13. content.level = "page" => EndsRight(command, c.level)
  BY <1>6, <1>7, <1>10
<1>14. QED
  BY <1>7, <1>8, <1>12, <1>13, CommandIsRight

LEMMA PathPartIs ==
  \A op \in {"l", "c"} : op \in AllOperators /\ Read("path", op) = "path"
<1>1. \A op \in {"l", "c"} : op \in AllOperators
  BY DEF AllOperators, PathParts
<1>2. ASSUME NEW op \in {"l", "c"}
      PROVE  Read("path", op) = "path"
  BY DEF Read, PathStarts, PathParts, Clippings, Paintings, PageOperators,
         AnywhereButPaths, StateOperators, ColorOperators, TextStateOperators,
         PositionOperators, ShowOperators
<1>3. QED
  BY <1>1, <1>2

LEMMA PathPartIsNeutral ==
  ASSUME NEW op \in {"l", "c"}, NEW n \in Nat
  PROVE  Neutral([k \in 1..n |-> op], "path")
<1>1. op \in AllOperators /\ Read("path", op) = "path"
  BY PathPartIs
<1>3. PICK ops : ops = [k \in 1..n |-> op]
  OBVIOUS
<1> HIDE DEF AllOperators
<1>4. ops \in Seq(AllOperators) /\ Len(ops) = n /\ \A k \in 1..n : ops[k] = op
  BY <1>1, <1>3, IsASeq
<1>5. QED
  BY <1>1, <1>3, <1>4 DEF Neutral

LEMMA OutlinesAre ==
  ASSUME IInv, TInv, NEW n \in 2..4, NEW options \in Options,
         \/ DrawPath(n, options) \/ DrawCircle(n, options)
         \/ DrawSquare(n, options) \/ DrawRectangle(n, options)
  PROVE  Right
<1>1. "m" \in PathStarts /\ "re" \in PathStarts
  BY DEF PathStarts
<1>2. CASE DrawPath(n, options)
  <2> DEFINE length == n + Len(options)
             lines == Lines(n, length)
  <2>1. lines \in Nat
    <3>1. IsFiniteSet(1..n)
      BY FS_Interval
    <3>2. IsFiniteSet({k \in 1..n : 2 * k < n /\ 2 * k < length - 1})
      BY <3>1, FS_Subset
    <3>3. QED
      BY <3>2, FS_CardinalityType DEF Lines
  <2>2. Outlines(length >= 2, <<"m">> \o [k \in 1..lines |-> "l"], options)
    BY <1>2 DEF DrawPath
  <2> HIDE DEF lines, length
  <2>3. Neutral([k \in 1..lines |-> "l"], "path")
    BY <2>1, PathPartIsNeutral
  <2>4. QED
    BY <1>1, <2>2, <2>3, DrawingIsRight
<1>3. CASE DrawCircle(n, options)
  <2>1. PICK curves : curves = <<"c", "c", "c", "c">>
    OBVIOUS
  <2>2. <<"m">> \o <<"c", "c", "c", "c">> = <<"m", "c", "c", "c", "c">>
    <3>1. "m" \in AllOperators /\ "c" \in AllOperators
      BY <1>1, PathPartIs DEF AllOperators
    <3>2. QED
      BY <3>1, OneAndFour
  <2>3. Outlines(n + Len(options) >= 3, <<"m">> \o <<"c", "c", "c", "c">>, options)
    BY <1>3, <2>2 DEF DrawCircle
  <2>4. Outlines(n + Len(options) >= 3, <<"m">> \o curves, options)
    BY <2>1, <2>3
  <2>5. Neutral(curves, "path")
    BY <2>1, FourOf, PathPartIs DEF Neutral
  <2>6. QED
    BY <1>1, <2>4, <2>5, DrawingIsRight
<1>4. ASSUME NEW accepted, Outlines(accepted, <<"re">>, options)
      PROVE  Right
  <2>1. <<"re">> \o <<>> = <<"re">>
    <3>1. "re" \in AllOperators
      BY <1>1 DEF AllOperators
    <3>2. <<"re">> \in Seq(AllOperators)
      BY <3>1, ReadOne
    <3>3. QED
      BY <3>2, ConcatEmptySeq
  <2>2. Neutral(<<>>, "path")
    BY NeutralNone
  <2>3. Outlines(accepted, <<"re">> \o <<>>, options)
    BY <1>4, <2>1
  <2>4. QED
    BY <1>1, <2>2, <2>3, DrawingIsRight
<1>5. QED
  BY <1>2, <1>3, <1>4 DEF DrawSquare, DrawRectangle
\* The four operators that underline.
LEMMA UnderliningReads ==
  /\ <<"w", "m", "l", "S">> \in Seq(AllOperators)
  /\ ReadAll("page", <<"w", "m", "l", "S">>) = "page"
<1>1. PICK four : four = <<"w", "m", "l", "S">>
  OBVIOUS
<1>2. {"w", "m", "l", "S"} \subseteq AllOperators
  BY DEF AllOperators, StateOperators, PathStarts, PathParts, Paintings
<1>3. /\ Read("page", "w") = "page" /\ Read("page", "m") = "path"
      /\ Read("path", "l") = "path" /\ Read("path", "S") = "page"
  BY DEF Read, PathStarts, PathParts, Clippings, Paintings, PageOperators,
         AnywhereButPaths, StateOperators, ColorOperators, TextStateOperators,
         PositionOperators, ShowOperators
<1>4. /\ four \in Seq(AllOperators) /\ Len(four) = 4
      /\ four[1] = "w" /\ four[2] = "m" /\ four[3] = "l" /\ four[4] = "S"
  <2>1. "w" \in AllOperators /\ "m" \in AllOperators
        /\ "l" \in AllOperators /\ "S" \in AllOperators
    BY <1>2
  <2>2. QED
    BY <1>1, <2>1, FourAre
<1> DEFINE g == [k \in 0..4 |-> IF k \in {2, 3} THEN "path" ELSE "page"]
<1>5. g[0] = "page" /\ g[1] = "page" /\ g[2] = "path" /\ g[3] = "path" /\ g[4] = "page"
  OBVIOUS
<1> HIDE DEF g
<1>6. ASSUME NEW k \in 1..4
      PROVE  g[k] = Read(g[k - 1], four[k])
  <2>1. k = 1 \/ k = 2 \/ k = 3 \/ k = 4
    OBVIOUS
  <2>2. 1 - 1 = 0 /\ 2 - 1 = 1 /\ 3 - 1 = 2 /\ 4 - 1 = 3
    OBVIOUS
  <2>3. QED
    BY <1>3, <1>4, <1>5, <2>1, <2>2
<1>7. Reads(g, "page", four, "page")
  BY <1>4, <1>5, <1>6 DEF Reads
<1>8. QED
  BY <1>1, <1>4, <1>7, ReadsEnds

\* A text is written, underlined or not.
LEMMA WriteTextIsRight ==
  ASSUME IInv, TInv, NEW n \in 2..4, NEW options \in Options,
         NEW representation \in Encoded, WriteText(n, options, representation)
  PROVE  Right
<1> DEFINE o == IF n = 3 THEN OptionsIn(options) ELSE NoOptions
           colors == SetColor(o, FALSE)
           first == <<"BT">> \o colors
           c1 == Wrote(content, first)
           c2 == SetFont(c1, o)
           c3 == Begun(o)
           c4 == Shown(c3, "Tj", representation)
           c5 == Wrote(c4, <<"ET">>)
           under == SetColor(o, TRUE) \o <<"w", "m", "l", "S">>
           c6 == Underlined(c5, o)
           font == IF IsShown(c3, representation) THEN ShownID(c3, representation)
                   ELSE NoID
<1>1. o.font \in Fonts \cup {NoFont} /\ o.size \in Nat
  <2>1. NoOptions.font = NoFont /\ NoOptions.size = 0
    BY DEF NoOptions
  <2>2. options # <<>> => options[1] \in DrawingOptions
    BY DEF Options
  <2>3. QED
    BY <2>1, <2>2, ContentAssumption DEF OptionsIn
<1>2. Command("drawing", n + Len(options) >= 3, c6, font)
  BY DEF WriteText
<1> HIDE DEF o, font
<1>3. /\ {"BT", "ET", "Tm", "Tj"} \subseteq AllOperators /\ "Tj" \in ShowOperators
      /\ Read("page", "BT") = "text" /\ Read("text", "ET") = "page"
      /\ Read("text", "Tm") = "text"
  BY DEF AllOperators, Read, PathStarts, PathParts, Clippings, Paintings, PageOperators,
         AnywhereButPaths, StateOperators, ColorOperators, TextStateOperators,
         PositionOperators, ShowOperators
<1>4. colors \in Seq(AllOperators) /\ ReadAll("text", colors) = "text"
  BY ColorsAreNeutral, NeutralReads
<1>5. first \in Seq(AllOperators) /\ ReadAll("page", first) = "text"
  <2> HIDE DEF colors
  <2>1. PICK one \in Seq(AllOperators) : one = <<"BT">> /\ ReadAll("page", one) = "text"
    BY <1>3, ReadOne
  <2>2. one \o colors \in Seq(AllOperators)
        /\ ReadAll("page", one \o colors) = ReadAll(ReadAll("page", one), colors)
    BY <1>4, ReadSplit
  <2>3. QED
    BY <1>4, <2>1, <2>2
<1>6. ContentOK(content) /\ content.level \in Levels
  BY DEF IInv, TInv
<1> HIDE DEF first
<1>7. /\ ContentOK(c1) /\ Goes(content, c1)
      /\ c1.level \in Levels
      /\ content.level = "page" => c1.level = "text"
  BY <1>5, <1>6, WroteIsOK, WroteGoes, ReadAllTyped
<1> HIDE DEF c1
<1>8. /\ ContentOK(c2) /\ Goes(c1, c2) /\ c2.level = c1.level
  <2> DEFINE size == IF o.size = 0 THEN 1 ELSE o.size
  <2>1. size \in Nat
    BY <1>1
  <2> HIDE DEF size
  <2>2. Goes(c1, Chosen(c1, o.font, size)) /\ Chosen(c1, o.font, size).level = c1.level
    BY <1>1, <1>7, <2>1, ChosenGoes
  <2>3. c2 = c1 \/ c2 = Chosen(c1, o.font, size)
    BY DEF SetFont, size
  <2> HIDE DEF c2
  <2>4. QED
    BY <1>7, <2>2, <2>3, GoesNowhere DEF Goes
<1>9. c3 = Wrote(c2, <<"Tm">>)
  BY DEF Begun, c1, first
<1> HIDE DEF c2, c3
<1>10. /\ ContentOK(c3) /\ Goes(c2, c3)
       /\ c3.level \in Levels
       /\ c2.level = "text" => c3.level = "text"
  <2>1. <<"Tm">> \in Seq(AllOperators) /\ ReadAll(c2.level, <<"Tm">>) = Read(c2.level, "Tm")
    BY <1>3, ReadOne
  <2>2. QED
    BY <1>3, <1>7, <1>8, <1>9, <2>1, WroteIsOK, WroteGoes, ReadTyped
<1>11. /\ ContentOK(c4) /\ Goes(c3, c4)
       /\ c4.level \in Levels
       /\ c3.level = "text" => c4.level = "text"
  <2>1. "Tj" \in AllOperators
    BY <1>3
  <2>2. QED
    BY <1>3, <1>10, <2>1, ShownGoes DEF Goes
<1> HIDE DEF c4
<1>12. /\ ContentOK(c5) /\ Goes(c4, c5)
       /\ c5.level \in Levels
       /\ c4.level = "text" => c5.level = "page"
  <2>1. <<"ET">> \in Seq(AllOperators) /\ ReadAll(c4.level, <<"ET">>) = Read(c4.level, "ET")
    BY <1>3, ReadOne
  <2>2. QED
    BY <1>3, <1>11, <2>1, WroteIsOK, WroteGoes, ReadTyped
<1> HIDE DEF c5
<1>13. under \in Seq(AllOperators) /\ ReadAll("page", under) = "page"
  <2>1. PICK color \in Seq(AllOperators) :
            color = SetColor(o, TRUE) /\ ReadAll("page", color) = "page"
    BY ColorsAreNeutral, NeutralReads
  <2>2. PICK line \in Seq(AllOperators) :
            line = <<"w", "m", "l", "S">> /\ ReadAll("page", line) = "page"
    BY UnderliningReads
  <2>3. color \o line \in Seq(AllOperators)
        /\ ReadAll("page", color \o line) = ReadAll(ReadAll("page", color), line)
    BY ReadSplit
  <2>4. QED
    BY <2>1, <2>2, <2>3
<1>14. c6 = c5 \/ c6 = Wrote(c5, under)
  BY DEF Underlined
<1> HIDE DEF under, c6
<1>15. /\ Goes(c5, c6)
       /\ c6.level \in Levels
       /\ c5.level = "page" => c6.level = "page"
  <2>1. Goes(c5, Wrote(c5, under)) /\ Wrote(c5, under).level = ReadAll(c5.level, under)
    BY <1>12, WroteGoes
  <2>2. QED
    BY <1>12, <1>13, <1>14, <2>1, ReadAllTyped, GoesNowhere
<1>16. Goes(content, c6)
  <2>1. Goes(content, c2)
    BY <1>7, <1>8, GoesOn
  <2>2. Goes(content, c3)
    BY <1>10, <2>1, GoesOn
  <2>3. Goes(content, c4)
    BY <1>11, <2>2, GoesOn
  <2>4. Goes(content, c5)
    BY <1>12, <2>3, GoesOn
  <2>5. QED
    BY <1>15, <2>4, GoesOn
<1>17. content.level = "page" => EndsRight("drawing", c6.level)
  BY <1>7, <1>8, <1>10, <1>11, <1>12, <1>15 DEF EndsRight
<1>18. QED
  BY <1>2, <1>15, <1>16, <1>17, CommandIsRight

\* An image is drawn between q and Q: the states are those there were.
LEMMA DrawImageIsRight ==
  ASSUME IInv, TInv, NEW args, NEW id \in Images, DrawImage(args, id)
  PROVE  Right
<1> DEFINE w == Wrote(content, <<"q">>)
           p == Pushed(content)
           c1 == Wrote(p, <<"cm">>)
           c2 == Named(c1, "Form", id)
           c3 == Wrote(c2, <<"Do">>)
           w4 == Wrote(c3, <<"Q">>)
           c4 == Popped(c3)
           accepted == args \in {<<"number", "number", "string">>,
                                 <<"number", "number", "string", "object">>}
<1>1. Command("drawing", accepted, c4, NoID)
  BY DEF DrawImage
<1>2. id \in Nat /\ id # NoID /\ id \in IDs
  BY ContentAssumption DEF IDs
<1>3. /\ {"q", "cm", "Do", "Q"} \subseteq AllOperators
      /\ \A op \in {"q", "cm", "Do", "Q"} : Read("page", op) = "page"
  BY DEF AllOperators, Read, PathStarts, PathParts, Clippings, Paintings, PageOperators,
         AnywhereButPaths, StateOperators, ColorOperators, TextStateOperators,
         PositionOperators, ShowOperators
<1>4. ASSUME NEW c, ContentOK(c), NEW op \in {"q", "cm", "Do", "Q"}, c.level = "page"
      PROVE  Wrote(c, <<op>>).level = "page"
  <2>1. ReadAll(c.level, <<op>>) = Read(c.level, op)
    BY <1>3, ReadOne
  <2>2. QED
    BY <1>3, <1>4, <2>1, WroteGoes
<1>5. ASSUME NEW c, ContentOK(c), NEW op \in {"q", "cm", "Do", "Q"}
      PROVE  /\ ContentOK(Wrote(c, <<op>>))
             /\ Wrote(c, <<op>>).stack = c.stack /\ Wrote(c, <<op>>).read = c.read
             /\ Wrote(c, <<op>>).resources = c.resources
  BY <1>5, WroteIsOK DEF Wrote, ContentOK, IsContent
<1>6. ContentOK(content)
  BY DEF IInv
<1>7. ContentOK(w) /\ w.stack = content.stack /\ w.read = content.read
      /\ w.resources = content.resources
      /\ (content.level = "page" => w.level = "page")
  BY <1>4, <1>5, <1>6
<1>8. /\ ContentOK(p)
      /\ p = [w EXCEPT !.stack = Append(w.stack, Top(w.stack)),
                       !.read = Append(w.read, Top(w.read))]
  BY <1>6, PushedIsOK DEF Pushed
<1> HIDE DEF accepted, w, p
<1>9. /\ p.stack = Append(content.stack, Top(content.stack))
      /\ p.read = Append(content.read, Top(content.read))
      /\ p.resources = content.resources
      /\ (content.level = "page" => p.level = "page")
  BY <1>7, <1>8 DEF ContentOK, IsContent
<1>10. /\ ContentOK(c1) /\ c1.stack = p.stack /\ c1.read = p.read
       /\ c1.resources = p.resources
       /\ (p.level = "page" => c1.level = "page")
  BY <1>4, <1>5, <1>8
<1> HIDE DEF c1
<1>11. /\ ContentOK(c2) /\ Goes(c1, c2) /\ c2.level = c1.level
  BY <1>2, <1>10, NamedIsOK, NamedGoes
<1>12. c2.stack = c1.stack /\ c2.read = c1.read
  BY <1>10 DEF Named, ContentOK, IsContent, c2
<1> HIDE DEF c2
<1>13. /\ ContentOK(c3) /\ c3.stack = c2.stack /\ c3.read = c2.read
       /\ c3.resources = c2.resources
       /\ (c2.level = "page" => c3.level = "page")
  BY <1>4, <1>5, <1>11
<1> HIDE DEF c3
<1>14. /\ ContentOK(w4) /\ w4.stack = c3.stack /\ w4.read = c3.read
       /\ w4.resources = c3.resources
       /\ (c3.level = "page" => w4.level = "page")
  BY <1>4, <1>5, <1>13
<1>15. ContentOK(c4)
  BY <1>13, PoppedIsOK
<1>16. /\ content.stack \in Seq(States) /\ Len(content.stack) \in Nat
       /\ Len(content.stack) > 0
       /\ content.read \in Seq(ReadStates) /\ Len(content.read) = Len(content.stack)
       /\ Top(content.stack) \in States /\ Top(content.read) \in ReadStates
  <2>1. Top(content.read) \in ReadStates
    <3>1. Len(content.read) \in 1..Len(content.read)
      BY <1>6, LenProperties DEF ContentOK, StacksOK
    <3>2. QED
      BY <1>6, <3>1, ElementOfSeq DEF ContentOK, StacksOK, Top
  <2>2. QED
    BY <1>6, <2>1, LenProperties, TopsAgree DEF ContentOK, StacksOK
<1>17. PICK n \in Nat : n = Len(content.stack) /\ n > 0
  BY <1>16
<1>18. /\ c3.stack \in Seq(States) /\ Len(c3.stack) = n + 1
       /\ c3.read \in Seq(ReadStates) /\ Len(c3.read) = n + 1
       /\ \A k \in 1..n : c3.stack[k] = content.stack[k] /\ c3.read[k] = content.read[k]
  BY <1>9, <1>10, <1>12, <1>13, <1>16, <1>17, AppendProperties
<1>19. c4 = [w4 EXCEPT !.stack = SubSeq(w4.stack, 1, Len(w4.stack) - 1),
                       !.read = SubSeq(w4.read, 1, Len(w4.read) - 1)]
  <2>1. Len(c3.stack) # 1
    BY <1>17, <1>18
  <2>2. QED
    BY <2>1 DEF Popped
<1> HIDE DEF w4, c4
<1>20. /\ c4.stack = SubSeq(c3.stack, 1, n) /\ c4.read = SubSeq(c3.read, 1, n)
       /\ c4.level = w4.level /\ c4.resources = w4.resources
  <2>1. Len(w4.stack) - 1 = n /\ Len(w4.read) - 1 = n
    BY <1>14, <1>18
  <2>2. QED
    BY <1>14, <1>19, <2>1 DEF ContentOK, IsContent
<1>21. /\ Len(SubSeq(c3.stack, 1, n)) = n
       /\ \A k \in 1..n : SubSeq(c3.stack, 1, n)[k] = c3.stack[k]
  BY <1>17, <1>18
<1>22. \A k \in 1..n : SubSeq(c3.read, 1, n)[k] = c3.read[k]
  BY <1>17, <1>18
<1>23. Kept(content, c4)
  <2>1. \A k \in 1..n - 1 : k \in 1..n
    OBVIOUS
  <2>2. QED
    BY <1>17, <1>18, <1>20, <1>21, <1>22, <2>1 DEF Kept
<1>24. NamesIn(content) => NamesIn(c4)
  <2>1. NamesIn(content) => NamesIn(c1)
    BY <1>9, <1>10 DEF NamesIn
  <2>2. NamesIn(content) => NamesIn(c2)
    BY <1>11, <2>1 DEF Goes
  <2>3. QED
    BY <1>13, <1>14, <1>20, <2>2 DEF NamesIn
<1>25. Goes(content, c4)
  BY <1>15, <1>23, <1>24 DEF Goes
<1>26. content.level = "page" => EndsRight("drawing", c4.level) /\ c4.level \in Levels
  BY <1>9, <1>10, <1>11, <1>13, <1>14, <1>20 DEF Levels, EndsRight
<1>27. QED
  BY <1>1, <1>25, <1>26, CommandIsRight

LEMMA CommandsAreRight == IInv /\ TInv /\ Commands => Right
<1> SUFFICES ASSUME IInv, TInv, Commands PROVE Right
  OBVIOUS
<1>0. ContentOK(content) /\ content.level \in Levels
  BY DEF IInv, TInv
<1>1. ASSUME NEW kind, NEW id \in Forms \cup Images, DoXObject(kind, id)
      PROVE  Right
  <2>1. id \in Nat /\ id # NoID /\ id \in IDs
    BY ContentAssumption DEF IDs
  <2> DEFINE c == IF kind = "string" THEN content ELSE Named(content, kind, id)
             d == Wrote(c, <<"Do">>)
  <2>2. CASE hasContext /\ kind \in {"string", "Form", "Image"}
    <3>1. Becomes(d)
      BY <1>1, <2>2 DEF DoXObject
    <3>2. ContentOK(c) /\ Goes(content, c) /\ c.level = content.level
      BY <1>0, <2>1, <2>2, GoesNowhere, NamedIsOK, NamedGoes
    <3> HIDE DEF c
    <3>3. Goes(c, d) /\ d.level = ReadAll(c.level, <<"Do">>)
      BY <3>2, WroteGoes
    <3>4. "Do" \in AllOperators
      BY DEF AllOperators, PageOperators
    <3>5. d.level \in Levels
      BY <1>0, <3>2, <3>3, <3>4, ReadOne, ReadTyped
    <3> HIDE DEF d
    <3>6. Goes(content, d)
      BY <3>2, <3>3, GoesOn
    <3>7. QED
      BY <3>1, <3>5, <3>6, BecomesIsRight DEF Becomes, Quiet
  <2>3. QED
    BY <1>1, <2>2, ThrowsIsRight DEF DoXObject
<1>2. ASSUME NEW mapping \in ClientMappings, NEW args,
             AddClientMapping(mapping[1], mapping[2], args)
      PROVE  Right
  <2>1. mapping[1] \in Kinds /\ mapping[2] \in Nat /\ mapping[2] \in IDs
    BY ContentAssumption DEF IDs
  <2> DEFINE r == AddMapping(content.resources, mapping[1], mapping[2])
             c == [content EXCEPT !.resources = r]
  <2>2. ContentOK(c)
    BY <1>0, <2>1, ClientNamingIsOK
  <2>3. Becomes(c) \/ Throws
    BY <1>2 DEF AddClientMapping
  <2>4. \A category \in Categories :
            DOMAIN r.maps[category] \subseteq
                DOMAIN content.resources.maps[category] \cup {mapping[2]}
    BY <1>0, <2>1, MappingAdds DEF ContentOK
  <2> HIDE DEF r
  <2>5. c.stack = content.stack /\ c.read = content.read /\ c.level = content.level
        /\ c.resources = r
    BY <1>0 DEF ContentOK, IsContent
  <2> HIDE DEF c
  <2>6. NamesIn(content) => NamesIn(c)
    BY <2>1, <2>4, <2>5 DEF NamesIn
  <2>7. Goes(content, c)
    BY <2>2, <2>5, <2>6 DEF Goes, Kept
  <2>8. QED
    BY <1>0, <2>3, <2>5, <2>7, BecomesIsRight, ThrowsIsRight DEF Becomes, Quiet
<1>3. QED
  BY <1>1, <1>2, OutlinesAre, WriteTextIsRight, DrawImageIsRight DEF Commands

LEMMA StepIsRight == IInv /\ TInv /\ Next => Right
BY OperatorsAreRight, TextsAreRight, CommandsAreRight DEF Next

LEMMA TypesInvariance == Spec => []TInv
<1>1. Init => TInv
  <2>1. ASSUME Init
        PROVE  NamesIn(content)
    <3>1. \A category \in Categories : EmptyResources.maps[category] = <<>>
      BY DEF EmptyResources
    <3>2. QED
      BY <2>1, <3>1 DEF Init, NewContent, NamesIn
  <2>2. Init => Len(content.stack) = 1
    BY DEF Init, NewContent
  <2>3. Init => content.level \in Levels
    BY DEF Init, NewContent, Levels
  <2>4. 1 <= MaxDepth + 1
    BY ContentAssumption
  <2>5. Init => hasContext \in BOOLEAN /\ last.command \in {"operator", "drawing", "open"}
    BY DEF Init, Quiet
  <2>6. QED
    BY <2>1, <2>2, <2>3, <2>4, <2>5 DEF TInv
<1>2. IInv /\ TInv /\ [Next]_vars => TInv'
  <2>1. ASSUME TInv, UNCHANGED vars
        PROVE  TInv'
    BY <2>1 DEF vars, TInv, NamesIn
  <2>2. QED
    BY <2>1, StepIsRight DEF Right
<1>3. QED
  BY <1>1, <1>2, Invariance, PTL DEF Spec

\* The types of everything that is kept of a content stream, for any constants, and
\* the library's stack of graphic states as high as the reader's.
THEOREM ContentTyped == Spec => []TypeOK
<1>1. IInv /\ TInv => TypeOK
  <2>1. ASSUME IInv, TInv
        PROVE  TypeOK
    <3>1. /\ content.stack \in Seq(States) /\ content.read \in Seq(ReadStates)
          /\ Len(content.read) = Len(content.stack) /\ Len(content.stack) > 0
          /\ Len(content.stack) \in Nat
          /\ content.resources.counts \in [Kinds -> Nat]
      BY <2>1, LenProperties DEF IInv, ContentOK, StacksOK, ResourcesOK, IsResources
    <3>2. Len(content.stack) \in 1..MaxDepth + 1
      BY <2>1, <3>1, ContentAssumption DEF TInv
    <3>3. QED
      BY <2>1, <3>1, <3>2 DEF TInv, TypeOK, NamesIn, ReadStates
  <2>2. QED
    BY <2>1
<1>2. QED
  BY <1>1, Invariance, TypesInvariance, PTL

\* Whatever a drawing command is given, it leaves the content at page level, or in
\* the path it drew when its options do not ask for painting, and the states below
\* as they were, for any constants.
THEOREM CommandsCorrect == Spec => DrawingCommandsAreWhole
<1>1. IInv /\ TInv /\ [Next]_vars =>
          [last'.command # "operator" =>
              /\ last'.command = "drawing" => content'.level = "page"
              /\ last'.command = "open" => content'.level \in {"path", "clip"}
              /\ Len(content'.stack) = Len(content.stack)
              /\ \A k \in 1..Len(content.stack) - 1 :
                  /\ content'.stack[k] = content.stack[k]
                  /\ content'.read[k] = content.read[k]]_vars
  BY StepIsRight DEF Right, IsWhole, EndsRight, Kept
<1>2. QED
  BY <1>1, Invariance, TypesInvariance, PTL DEF Spec, DrawingCommandsAreWhole
================================================================================
