-------------------------- MODULE ResourcesDictionary --------------------------
(***************************************************************************)
(* The names a page or a form gives to the objects its content uses:       *)
(* ResourcesDictionaryDriver and the ResourcesDictionary it wraps.  A      *)
(* dictionary has a map from object IDs to names for each category and a   *)
(* counter for each kind of name; forms, images and other XObjects share   *)
(* one map.  A name is <<kind, n>>: the kind's prefix and its number.      *)
(***************************************************************************)
EXTENDS Naturals, FiniteSets, TLC

XObjectKinds == {"Form", "Image", "XObject"}
OtherKinds ==
    {"ExtGState", "Font", "ColorSpace", "Pattern", "Property", "Shading"}
Kinds == XObjectKinds \cup OtherKinds

\* The map a kind's objects are inserted into.
MapOf(kind) == IF kind \in XObjectKinds THEN "XObject" ELSE kind

Categories == {MapOf(kind) : kind \in Kinds}

\* The map a kind's objects are looked up in: for graphic states it is the map
\* of the XObjects.
LookedUpIn(kind) == IF kind = "ExtGState" THEN "XObject" ELSE MapOf(kind)

EmptyResources ==
    [maps |-> [c \in Categories |-> <<>>], counts |-> [k \in Kinds |-> 0]]

\* An ID the maps do not hold: the caller will define the resource itself.
NoID == 0

IsFound(d, kind, id) == id # NoID /\ id \in DOMAIN d.maps[LookedUpIn(kind)]

\* insert leaves the entry of an ID that is there already.
IsInserted(d, kind, id) == id # NoID /\ id \notin DOMAIN d.maps[MapOf(kind)]

NextName(d, kind) == <<kind, d.counts[kind] + 1>>

\* What AddFormXObjectMapping, AddFontMapping and their like return.
NameFor(d, kind, id) ==
    IF IsFound(d, kind, id) THEN d.maps[LookedUpIn(kind)][id]
    ELSE IF id = NoID \/ IsInserted(d, kind, id) THEN NextName(d, kind)
    ELSE d.maps[MapOf(kind)][id]

\* A counter that stays where it is.
AddMapping_KeepsCount(d, kind, id) ==
    IF IsFound(d, kind, id) THEN d
    ELSE [maps |-> IF IsInserted(d, kind, id)
                   THEN [d.maps EXCEPT ![MapOf(kind)] =
                            [i \in DOMAIN @ \cup {id} |->
                                IF i = id THEN NextName(d, kind) ELSE @[i]]]
                   ELSE d.maps,
          counts |-> d.counts]

\* What they leave in the dictionary.
AddMapping(d, kind, id) ==
    IF IsFound(d, kind, id) THEN d
    ELSE [maps |-> IF IsInserted(d, kind, id)
                   THEN [d.maps EXCEPT ![MapOf(kind)] =
                            [i \in DOMAIN @ \cup {id} |->
                                IF i = id THEN NextName(d, kind) ELSE @[i]]]
                   ELSE d.maps,
          counts |-> [d.counts EXCEPT ![kind] = @ + 1]]

\* A name of another kind of resource stands for nothing in this category.
NamesAreDistinct(d) ==
    \A c \in Categories :
        \A i, j \in DOMAIN d.maps[c] : d.maps[c][i] = d.maps[c][j] => i = j
================================================================================
