----------------------------- MODULE MCXrefTable -----------------------------
(* Every registry of up to MaxID + 1 objects, for TLC. *)
EXTENDS XrefTable

CONSTANT MaxID

Kinds == ReferenceTypes \X BOOLEAN \X BOOLEAN

\* The positions differ, so that no entry passes for another.
EntryAt(k, kind) ==
    [type |-> kind[1], written |-> kind[2], dirty |-> kind[3], position |-> 10 + k,
     generation |-> k]

AllRegistries ==
    UNION {{EmptyRegistry \o [k \in 1 .. n |-> EntryAt(k, kinds[k])] :
                kinds \in [1 .. n -> Kinds]} : n \in 0 .. MaxID}
=============================================================================
