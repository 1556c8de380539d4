------------------------------ MODULE Natives ------------------------------
(***************************************************************************)
(* The C++ objects of a program and the JavaScript objects that wrap them. *)
(* A wrapper keeps a pointer, which it owns or borrows; the program lets   *)
(* go of wrappers, and the collector takes those in any order.             *)
(*                                                                         *)
(*   heap        the objects that exist, by their address: the kind of     *)
(*               each, the object it points back to, and its parts, which  *)
(*               it points to and deletes if they point back               *)
(*   wrappers    class, native (the pointer), owns, also (the second       *)
(*               pointer that some classes keep) and whether the program   *)
(*               holds it                                                  *)
(*   registered  mCopyingContexts of the writer's document context         *)
(*   session     the writer: its object and what became of its document    *)
(*   dangling    an object was used or deleted that no longer existed      *)
(*   thrown      an exception was thrown                                   *)
(*                                                                         *)
(* An address is used again when nothing points to it any more.            *)
(***************************************************************************)
EXTENDS Integers, Sequences, FiniteSets, Functions

CONSTANT MaxNatives   \* bound on the objects that exist or are pointed to

ASSUME NativesAssumption == MaxNatives \in Nat

VARIABLES heap, wrappers, registered, session, dangling, thrown

None == 0   \* NULL
Live == DOMAIN heap

Native(kind, of, parts) == [kind |-> kind, of |-> of, parts |-> parts]

\* A wrapper that the program is given.
Wrap(class, native, owns, also) ==
    [class |-> class, native |-> native, owns |-> owns, also |-> also, held |-> TRUE]

\* Addresses nothing points to, in their order.
Unused ==
    (1 .. MaxNatives) \ (Live \cup (UNION {{heap[n].of} \cup heap[n].parts : n \in Live})
                              \cup (UNION {{w.native, w.also} : w \in wrappers}))
Room(k) == Cardinality(Unused) >= k
New(i) == CHOOSE n \in Unused : Cardinality({m \in Unused : m < n}) = i - 1

\* The objects of h and new ones.
Created(h, records) ==
    [n \in DOMAIN h \cup {New(i) : i \in DOMAIN records} |->
        IF n \in DOMAIN h THEN h[n] ELSE records[CHOOSE i \in DOMAIN records : New(i) = n]]
Freed(h, dead) == Restrict(h, DOMAIN h \ dead)

\* What an object and its destructor delete.
Owned(n) ==
    {n} \cup (IF n \in Live THEN {p \in heap[n].parts \cap Live : heap[p].of = n} ELSE {})

\* What is read when an object is used.
Reach(n) ==
    IF n \notin Live THEN {n} \ {None}
    ELSE ({n, heap[n].of} \cup heap[n].parts
            \cup UNION {heap[p].parts : p \in heap[n].parts \cap Live}) \ {None}

Touches(used) == dangling' = (dangling \/ ~(used \subseteq Live))
Throws(b) == thrown' = (thrown \/ b)

-----------------------------------------------------------------------------
(* The program lets go of wrappers, and the collector deletes them.        *)

\* (mutant: the proxy of a stream is forgotten)
Deletes_NoProxy(w) == IF w.owns THEN Owned(w.native) \ {None} ELSE {}
\* What the destructor of a wrapper deletes: a reader and a copying context have the
\* proxy of a stream of the program, too.
Deletes(w) ==
    IF w.owns
    THEN (Owned(w.native) \cup (IF w.class \in {"PDFReader", "DocumentCopyingContext"}
                                 THEN {w.also} ELSE {})) \ {None}
    ELSE {}

Of(class) == {w \in wrappers : w.held /\ w.class = class}

\* The program keeps what another wrapper that it holds needs.
IsNeeded(w) ==
    \E x \in wrappers \ {w} : x.held /\ Reach(x.native) \cap Deletes(w) # {}

\* What remains of the wrappers when the program lets go of some: those that own
\* something wait for the collector.
LetGo(ws) ==
    {w \in wrappers : w \notin ws} \cup {[w EXCEPT !.held = FALSE] : w \in {x \in ws : x.owns}}

\* Cleanup of the document context: the copying contexts forget it, and the fonts go.
Fonts == {n \in Live : heap[n].kind = "font"}
CleanedUp(h) ==
    Freed([n \in DOMAIN h |-> IF n \in registered THEN [h[n] EXCEPT !.of = None]
                              ELSE [h[n] EXCEPT !.parts = @ \ Fonts]],
          Fonts)

CollectWriter(w) ==
    /\ w.class = "PDFWriter" /\ w \in wrappers /\ ~w.held
    /\ Touches(Deletes(w) \cup registered)
    /\ heap' = Freed(CleanedUp(heap), Deletes(w))
    /\ registered' = {}
    /\ session' = [session EXCEPT !.writer = None, !.state = "none"]
    /\ wrappers' = wrappers \ {w}
    /\ UNCHANGED thrown

\* A copying context unregisters itself from a document context that is still there.
CollectCopyingContext(w) ==
    /\ w.class = "DocumentCopyingContext" /\ w \in wrappers /\ ~w.held
    /\ Touches(Deletes(w) \cup ({heap[w.native].of} \ {None}))
    /\ heap' = Freed(heap, Deletes(w))
    /\ registered' = IF heap[w.native].of = None THEN registered ELSE registered \ {w.native}
    /\ wrappers' = wrappers \ {w}
    /\ UNCHANGED <<session, thrown>>

CollectOther(w) ==
    /\ w.class \notin {"PDFWriter", "DocumentCopyingContext"} /\ w \in wrappers /\ ~w.held
    /\ Touches(Deletes(w))
    /\ heap' = Freed(heap, Deletes(w))
    /\ wrappers' = wrappers \ {w}
    /\ UNCHANGED <<registered, session, thrown>>
=============================================================================
